---------------------------- MODULE OutputsProofs -----------------------------
(***************************************************************************)
(* Proofs about the output plugins, for any number of sessions, events,    *)
(* files and sources: about the components through their instances in      *)
(* MCOutputs, and so about the behaviours that are model-checked.          *)
(***************************************************************************)
EXTENDS MCOutputs, FiniteSetTheorems, SequenceTheorems, WellFoundedInduction, TLAPS

-----------------------------------------------------------------------------
(* VirusTotal: the cache and the requests that are not answered            *)

FileOps == {"scanfile", "postfile"}
UrlOps == {"scanurl", "submiturl"}
OtherOps == {"comment", "collect", "collection"}

\* What is asked about a file is not about a URL, what was answered is in the
\* cache, and what the collection is asked to take was accepted.
VtInv ==
    /\ \A r \in V!BagToSet(requests) :
          /\ r.op \in FileOps => r.item \in Shasums
          /\ r.op \in UrlOps => r.item \in Urls
          /\ r.op \in FileOps \cup UrlOps \cup OtherOps
    /\ old \subseteq Shasums
    /\ replied \subseteq Urls \cap url_cache
    /\ listed \subseteq submitted

LEMMA BagsOfRequests ==
  /\ V!BagToSet(V!EmptyBag) = {}
  /\ \A op, x : V!BagToSet(V!Ask(op, x)) = {[op |-> op, item |-> x]}
  /\ \A a, b : V!BagToSet(V!(+)(a, b)) = V!BagToSet(a) \cup V!BagToSet(b)
  /\ \A a, b : V!BagToSet(V!(-)(a, b)) \subseteq V!BagToSet(a)
<1>1. V!BagToSet(V!EmptyBag) = {}
  BY DEF V!BagToSet, V!EmptyBag, V!SetToBag
<1>2. \A op, x : V!BagToSet(V!Ask(op, x)) = {[op |-> op, item |-> x]}
  BY DEF V!BagToSet, V!Ask, V!SetToBag
<1>3. \A a, b : V!BagToSet(V!(+)(a, b)) = V!BagToSet(a) \cup V!BagToSet(b)
  BY DEF V!BagToSet, V!(+)
<1>4. \A a, b : V!BagToSet(V!(-)(a, b)) \subseteq V!BagToSet(a)
  BY DEF V!BagToSet, V!(-)
<1> QED
  BY <1>1, <1>2, <1>3, <1>4

\* What is asked next is about what was answered.
LEMMA FollowingRequests ==
  ASSUME VtInv, NEW r \in V!BagToSet(requests), NEW body
  PROVE  \A n \in V!BagToSet(V!Follows(r, body)) :
            /\ n.item = r.item
            /\ n.op = "postfile" => r.op \in FileOps
            /\ n.op = "submiturl" => r.op \in UrlOps
            /\ n.op = "collect" => r.op \in {"postfile", "submiturl"} /\ body = "data"
            /\ n.op \in {"postfile", "submiturl", "comment", "collect"}
<1>1. r.op \in FileOps \cup UrlOps \cup OtherOps
  BY DEF VtInv
<1>2. CASE r.op \in {"scanfile", "scanurl"}
  BY <1>2, BagsOfRequests DEF V!Follows, V!postfile, V!submiturl, FileOps, UrlOps
<1>3. CASE r.op \in {"postfile", "submiturl"}
  <2>1. \A n \in V!BagToSet(V!_add_to_collection(r.item)) : n = [op |-> "collect", item |-> r.item]
    BY BagsOfRequests DEF V!_add_to_collection
  <2>2. \A n \in V!BagToSet(V!_post_comment(r.item)) : n = [op |-> "comment", item |-> r.item]
    BY BagsOfRequests DEF V!_post_comment
  <2>3. V!Follows(r, body) =
          IF body = "data" THEN V!(+)(V!_add_to_collection(r.item), V!_post_comment(r.item))
          ELSE V!EmptyBag
    BY <1>3 DEF V!Follows
  <2>4. \A n \in V!BagToSet(V!Follows(r, body)) :
           body = "data" /\ n \in {[op |-> "collect", item |-> r.item], [op |-> "comment", item |-> r.item]}
    BY <2>1, <2>2, <2>3, BagsOfRequests
  <2> QED
    BY <1>3, <2>4
<1>4. CASE r.op \in OtherOps
  BY <1>4, BagsOfRequests DEF V!Follows, OtherOps
<1> QED
  BY <1>1, <1>2, <1>3, <1>4 DEF FileOps, UrlOps
LEMMA VtSteps ==
  ASSUME VtInv, [V!VtNext]_virustotalVars
  PROVE  VtInv' /\ V!StaysSettled
<1> DEFINE Asked == V!BagToSet(requests)
           About(x) == \E r \in Asked : r.item = x
<1> USE DEF VtInv
<1>1. ASSUME NEW f \in Shasums, V!writeUpload(f)
      PROVE  VtInv' /\ V!StaysSettled
  <2>1. Asked' = Asked \cup (IF f \notin old THEN {[op |-> "scanfile", item |-> f]} ELSE {})
    BY <1>1, BagsOfRequests DEF V!writeUpload, V!scanfile, V!_is_new_shasum
  <2>2. UNCHANGED <<old, url_cache, replied, submitted, listed>>
    BY <1>1 DEF V!writeUpload
  <2>3. VtInv'
    BY <2>1, <2>2 DEF FileOps, UrlOps
  <2>4. f \notin Urls
    BY NamesAssumption
  <2> QED
    BY <2>1, <2>2, <2>3, <2>4 DEF V!StaysSettled, V!IsSettled, V!Outstanding
<1>2. ASSUME NEW f \in Shasums, NEW u \in Urls, V!writeDownload(f, u)
      PROVE  VtInv' /\ V!StaysSettled
  <2> DEFINE files == IF f \notin old THEN {[op |-> "scanfile", item |-> f]} ELSE {}
             urls == IF u \notin url_cache THEN {[op |-> "scanurl", item |-> u]} ELSE {}
  <2>1. V!BagToSet(V!scanurl(u)) = urls /\ V!BagToSet(V!scanfile(f)) = files
    BY BagsOfRequests DEF V!scanurl, V!scanfile, V!_is_new_shasum
  <2>2. Asked' = Asked \cup urls \cup files
    BY <1>2, <2>1, BagsOfRequests DEF V!writeDownload
  <2>3. UNCHANGED <<old, url_cache, replied, submitted, listed>>
    BY <1>2 DEF V!writeDownload
  <2>4. VtInv'
    BY <2>2, <2>3 DEF FileOps, UrlOps
  <2>5. f \notin Urls /\ u \notin Shasums
    BY NamesAssumption
  <2> QED
    BY <2>2, <2>3, <2>4, <2>5 DEF V!StaysSettled, V!IsSettled, V!Outstanding
<1>3. ASSUME NEW f \in Shasums, V!Ages(f)
      PROVE  VtInv' /\ V!StaysSettled
  BY <1>3 DEF V!Ages, V!StaysSettled, V!IsSettled, V!Outstanding
<1>4. ASSUME NEW r \in Asked, NEW code, NEW body, V!process_response(r, code, body)
      PROVE  VtInv' /\ V!StaysSettled
  <2> DEFINE more == V!BagToSet(V!Follows(r, body))
  <2>1. \A n \in more :
            /\ n.item = r.item
            /\ n.op = "postfile" => r.op \in FileOps
            /\ n.op = "submiturl" => r.op \in UrlOps
            /\ n.op = "collect" => r.op \in {"postfile", "submiturl"} /\ body = "data"
            /\ n.op \in {"postfile", "submiturl", "comment", "collect"}
    BY FollowingRequests
  <2>2. Asked' \subseteq Asked \cup more
    BY <1>4, BagsOfRequests DEF V!process_response
  <2>3. /\ url_cache' = V!Cached(r, body) /\ old' = old
        /\ replied' = IF r.op = "scanurl" /\ body # "empty" THEN replied \cup {r.item} ELSE replied
        /\ submitted' = IF r.op \in {"postfile", "submiturl"} /\ body = "data"
                        THEN submitted \cup {r.item} ELSE submitted
        /\ listed' = listed \cup {n.item : n \in {k \in more : k.op = "collect"}}
    BY <1>4 DEF V!process_response
  <2> HIDE DEF more
  <2>4. listed' \subseteq submitted'
    BY <2>1, <2>3
  <2>5. replied' \subseteq Urls \cap url_cache' /\ replied \subseteq replied'
    BY <2>3 DEF V!Cached, UrlOps
  <2>6. \A k \in Asked' :
          /\ k.op \in FileOps => k.item \in Shasums
          /\ k.op \in UrlOps => k.item \in Urls
          /\ k.op \in FileOps \cup UrlOps \cup OtherOps
    BY <2>1, <2>2 DEF FileOps, UrlOps, OtherOps
  <2>7. VtInv'
    BY <2>3, <2>4, <2>5, <2>6
  <2>8. V!StaysSettled
    BY <2>1, <2>2, <2>3, <2>5 DEF V!StaysSettled, V!IsSettled, V!Outstanding
  <2> QED
    BY <2>7, <2>8
<1>5. ASSUME NEW r \in Asked, NEW code, V!cbError(r, code)
      PROVE  VtInv' /\ V!StaysSettled
  <2>1. Asked' \subseteq Asked /\ UNCHANGED <<old, url_cache, replied, submitted, listed>>
    BY <1>5, BagsOfRequests DEF V!cbError
  <2> QED
    BY <2>1 DEF V!StaysSettled, V!IsSettled, V!Outstanding
<1>6. CASE UNCHANGED virustotalVars
  BY <1>6 DEF virustotalVars, V!StaysSettled, V!IsSettled, V!Outstanding
<1> QED
  BY <1>1, <1>2, <1>3, <1>4, <1>5, <1>6 DEF V!VtNext

\* For any number of files and URLs, and answers in any order: a URL about
\* which there was an answer and a file older than a minute stay settled once
\* no request about them is on its way, and what the collection takes was
\* accepted (scanurl, submiturl, postfile and _is_new_shasum, virustotal.py).
THEOREM SettledStays == MCSpec => SettledOnce
<1> DEFINE Inv == part = "virustotal" => VtInv
<1>1. MCInit => Inv
  <2> SUFFICES ASSUME V!VtInit
               PROVE  VtInv
    BY DEF MCInit
  <2>1. \A r \in V!BagToSet(requests) : r = [op |-> "collection", item |-> "collection"]
    BY BagsOfRequests DEF V!VtInit, V!_init_collection
  <2> QED
    BY <2>1 DEF V!VtInit, VtInv, FileOps, UrlOps, OtherOps
<1>2. Inv /\ [MCNext]_<<part, sessionVars, abuseVars, deliverVars, sqlVars, virustotalVars>>
         => Inv' /\ [part = "virustotal" => V!StaysSettled /\ V!ListedIsAccepted]_virustotalVars
  <2> SUFFICES ASSUME Inv, part = "virustotal",
                      [MCNext]_<<part, sessionVars, abuseVars, deliverVars, sqlVars, virustotalVars>>
               PROVE  VtInv' /\ V!StaysSettled /\ V!ListedIsAccepted
    BY DEF MCNext
  <2>1. [V!VtNext]_virustotalVars
    BY DEF MCNext
  <2> QED
    BY <2>1, VtSteps DEF V!ListedIsAccepted, VtInv
<1> QED
  BY <1>1, <1>2, PTL DEF MCSpec, SettledOnce
-----------------------------------------------------------------------------
(* SqlOutput: queries in the order of their queue                          *)

SensorReplies == {"select sensor", "insert sensor", "last sensor"}
ClientReplies == {"select client", "insert client", "last client"}
Replies == SensorReplies \cup ClientReplies
QueryOps == Replies \cup {"insert session", "update client", "update session",
                          "insert login", "insert upload"}
Query == [op : QueryOps, session : Sessions]
Reply == [op : Replies, session : Sessions, ok : BOOLEAN]
Kinds == Q!Events \cup {"connect"}

\* Among the first entries of a queue, up to n, there is one of session s.
Among(q, n, s, ops) == \E i \in 1 .. n : q[i].session = s /\ q[i].op \in ops
Asked(s, ops) == Among(queries, Len(queries), s, ops)
Answered(s, ops) == Among(replies, Len(replies), s, ops)

\* What was emitted of a session none of whose queries failed has its row or
\* is still on its way to it.
Owed(s) ==
    /\ "connect" \in emitted[s] /\ ~Q!Sensorless =>
          s \in rows \/ Asked(s, SensorReplies \cup {"insert session"}) \/ Answered(s, SensorReplies)
    /\ "login" \in emitted[s] =>
          [session |-> s, op |-> "insert login"] \in stored_rows \/ Asked(s, {"insert login"})
    /\ "upload" \in emitted[s] /\ database # "sqlite" =>
          [session |-> s, op |-> "insert upload"] \in stored_rows \/ Asked(s, {"insert upload"})

\* One thread, and the sensor known: of a session without a row, the queries
\* of the version are behind those of the connection.
Behind(s) ==
    /\ \A j \in DOMAIN queries : queries[j].session = s =>
          /\ queries[j].op = "select client" =>
                Among(queries, j - 1, s, {"select sensor"}) \/ Asked(s, {"insert session"})
                    \/ Answered(s, {"select sensor"})
          /\ queries[j].op \in {"insert client", "last client", "update client"} =>
                Among(queries, j - 1, s, {"insert session"})
    /\ \A j \in DOMAIN replies : replies[j].session = s /\ replies[j].op \in ClientReplies =>
          Among(replies, j - 1, s, {"select sensor"}) \/ Asked(s, {"insert session"})
SensorKnown ==
    /\ sensors > 0
    /\ \A j \in DOMAIN queries : queries[j].op \notin {"insert sensor", "last sensor"}
    /\ \A j \in DOMAIN replies : /\ replies[j].op \notin {"insert sensor", "last sensor"}
                                 /\ replies[j].op = "select sensor" => replies[j].ok

SqlType ==
    /\ queries \in Seq(Query) /\ replies \in Seq(Reply)
    /\ sensors \in Nat /\ clients \in BOOLEAN
    /\ database \in {"mysql", "postgresql", "sqlite"}
    /\ emitted \in [Sessions -> SUBSET Kinds]
    /\ \A s \in Sessions : emitted[s] # {} => "connect" \in emitted[s]
InOrder == SensorKnown /\ missed \subseteq broken /\ \A s \in Sessions \ (rows \cup broken) : Behind(s)
\* PostgreSQL, and the sensor unknown: its row and those of its sessions are
\* never asked for.
NeverStored ==
    /\ sensors = 0 /\ rows = {}
    /\ \A j \in DOMAIN queries : queries[j].op \notin {"last sensor", "insert session"}
    /\ \A j \in DOMAIN replies : /\ replies[j].op \notin {"insert sensor", "last sensor"}
                                 /\ replies[j].op = "select sensor" => ~replies[j].ok
SqlInv ==
    /\ SqlType
    /\ \A s \in Sessions \ broken : Owed(s)
    /\ Q!Sensorless => NeverStored
    /\ database # "sqlite" /\ knew => InOrder

\* One query is queued at a time, or none.
LEMMA QueuedOne ==
  ASSUME NEW q \in Seq(Query), NEW x \in QueryOps, NEW s \in Sessions
  PROVE  /\ Q!Queued(q, <<x>>, s) = Append(q, [op |-> x, session |-> s])
         /\ Q!Queued(q, <<>>, s) = q
<1>1. ASSUME NEW ops \in {<<x>>, <<>>}
      PROVE  Q!Queued(q, ops, s) = q \o [i \in 1 .. Len(ops) |-> [op |-> ops[i], session |-> s]]
  BY <1>1 DEF Q!Queued
<1>2. [i \in 1 .. 1 |-> [op |-> x, session |-> s]] = <<[op |-> x, session |-> s]>>
  OBVIOUS
<1>3. [i \in 1 .. 0 |-> [op |-> <<>>[i], session |-> s]] = <<>>
  OBVIOUS
<1>4. Q!Queued(q, <<x>>, s) = q \o <<[op |-> x, session |-> s]>>
  <2>1. Len(<<x>>) = 1 /\ \A i \in 1 .. 1 : <<x>>[i] = x
    OBVIOUS
  <2>2. [i \in 1 .. Len(<<x>>) |-> [op |-> <<x>>[i], session |-> s]]
          = [i \in 1 .. 1 |-> [op |-> x, session |-> s]]
    BY <2>1
  <2> QED
    BY <1>1, <1>2, <2>2
<1>5. Q!Queued(q, <<>>, s) = q \o <<>>
  BY <1>1, <1>3
<1>6. [op |-> x, session |-> s] \in Query
  BY DEF Query
<1> QED
  BY <1>4, <1>5, <1>6, AppendIsConcat, ConcatEmptySeq

\* What is appended comes last; the others stay where they are.
LEMMA Appended ==
  ASSUME NEW E, NEW q \in Seq(E), NEW e \in E
  PROVE  LET r == Append(q, e)
         IN  /\ r \in Seq(E) /\ Len(r) = Len(q) + 1 /\ Len(q) \in Nat
             /\ r[Len(r)] = e /\ \A i \in 1 .. Len(q) : r[i] = q[i]
             /\ \A s, ops : Among(q, Len(q), s, ops) => Among(r, Len(r), s, ops)
             /\ \A s, ops : e.session = s /\ e.op \in ops => Among(r, Len(r), s, ops)
             /\ \A n \in 0 .. Len(q) : \A s, ops : Among(q, n, s, ops) <=> Among(r, n, s, ops)
<1> DEFINE r == Append(q, e)
<1>1. r \in Seq(E) /\ Len(r) = Len(q) + 1 /\ Len(q) \in Nat /\ r[Len(r)] = e
      /\ \A i \in 1 .. Len(q) : r[i] = q[i]
  BY AppendProperties
<1> HIDE DEF r
<1>2. \A n \in 0 .. Len(q) : \A s, ops : Among(q, n, s, ops) <=> Among(r, n, s, ops)
  <2>1. \A n \in 0 .. Len(q) : \A i \in 1 .. n : i \in 1 .. Len(q)
    BY <1>1
  <2> QED
    BY <1>1, <2>1 DEF Among
<1>3. \A s, ops : Among(q, Len(q), s, ops) => Among(r, Len(r), s, ops)
  BY <1>1 DEF Among
<1>4. \A s, ops : e.session = s /\ e.op \in ops => Among(r, Len(r), s, ops)
  BY <1>1 DEF Among
<1> QED
  BY <1>1, <1>2, <1>3, <1>4 DEF r

\* Without one entry the others are still there, in their order.
LEMMA Removed ==
  ASSUME NEW E, NEW q \in Seq(E), NEW k \in 1 .. Len(q)
  PROVE  LET r == Q!RemoveAt(q, k)
         IN  /\ r \in Seq(E) /\ Len(r) = Len(q) - 1
             /\ \A i \in 1 .. Len(q) - 1 : r[i] = q[IF i < k THEN i ELSE i + 1]
             /\ \A s, ops : Among(q, Len(q), s, ops) /\ ~(q[k].session = s /\ q[k].op \in ops)
                               => Among(r, Len(r), s, ops)
             /\ k = 1 => \A n \in 1 .. Len(q) : \A s, ops :
                   Among(q, n, s, ops) /\ ~(q[1].session = s /\ q[1].op \in ops)
                       => Among(r, n - 1, s, ops)
<1> DEFINE a == SubSeq(q, 1, k - 1)
           b == SubSeq(q, k + 1, Len(q))
           r == Q!RemoveAt(q, k)
<1>1. /\ a \in Seq(E) /\ Len(a) = k - 1 /\ \A i \in 1 .. k - 1 : a[i] = q[i]
      /\ b \in Seq(E) /\ Len(b) = Len(q) - k /\ \A i \in 1 .. Len(q) - k : b[i] = q[i + k]
  <2>1. a \in Seq(E) /\ Len(a) = k - 1 /\ \A i \in 1 .. k - 1 : a[i] = q[i]
    BY SubSeqProperties
  <2>2. b \in Seq(E) /\ Len(b) = Len(q) - k /\ \A i \in 1 .. Len(q) - k : b[i] = q[i + k]
    BY SubSeqProperties
  <2> QED
    BY <2>1, <2>2
<1>2. r = a \o b
  BY DEF Q!RemoveAt
<1> HIDE DEF a, b, r
<1>3. Len(q) \in Nat
  OBVIOUS
<1>4. r \in Seq(E) /\ Len(r) = Len(q) - 1
  <2> DEFINE n == Len(q)
             na == Len(a)
             nb == Len(b)
  <2>1. r \in Seq(E) /\ Len(r) = na + nb /\ na = k - 1 /\ nb = n - k /\ k \in 1 .. n /\ n \in Nat
    BY <1>1, <1>2, <1>3, ConcatProperties
  <2>2. (k - 1) + (n - k) = n - 1
    BY <1>3
  <2> HIDE DEF n, na, nb
  <2> QED
    BY <2>1, <2>2 DEF n
<1>5. ASSUME NEW i \in 1 .. Len(q) - 1
      PROVE  r[i] = q[IF i < k THEN i ELSE i + 1]
  <2>1. i \in 1 .. Len(a) + Len(b)
    BY <1>1, <1>3
  <2>2. r[i] = IF i <= Len(a) THEN a[i] ELSE b[i - Len(a)]
    BY <1>1, <1>2, <2>1, ConcatProperties
  <2>3. CASE i < k
    BY <1>1, <1>3, <2>2, <2>3
  <2>4. CASE ~(i < k)
    <3>1. i - Len(a) \in 1 .. Len(q) - k /\ (i - Len(a)) + k = i + 1 /\ ~(i <= Len(a))
      BY <1>1, <1>3, <2>4
    <3> QED
      BY <1>1, <2>2, <2>4, <3>1
  <2> QED
    BY <2>3, <2>4
<1>6. ASSUME NEW s, NEW ops, NEW i \in 1 .. Len(q), i # k, q[i].session = s, q[i].op \in ops
      PROVE  Among(r, Len(r), s, ops)
  <2> DEFINE j == IF i < k THEN i ELSE i - 1
  <2>1. j \in 1 .. Len(q) - 1 /\ (IF j < k THEN j ELSE j + 1) = i
    BY <1>3, <1>6
  <2> HIDE DEF j
  <2>2. r[j] = q[i] /\ j \in 1 .. Len(r)
    BY <1>4, <1>5, <2>1
  <2> QED
    BY <1>6, <2>2 DEF Among
<1>7. \A s, ops : Among(q, Len(q), s, ops) /\ ~(q[k].session = s /\ q[k].op \in ops)
                               => Among(r, Len(r), s, ops)
  BY <1>6 DEF Among
<1>8. ASSUME k = 1, NEW n \in 1 .. Len(q), NEW s, NEW ops, Among(q, n, s, ops),
             ~(q[1].session = s /\ q[1].op \in ops)
      PROVE  Among(r, n - 1, s, ops)
  <2>1. PICK i \in 1 .. n : q[i].session = s /\ q[i].op \in ops
    BY <1>8 DEF Among
  <2>2. i - 1 \in 1 .. n - 1 /\ i - 1 \in 1 .. Len(q) - 1 /\ ~(i - 1 < k) /\ (i - 1) + 1 = i
    BY <1>3, <1>8, <2>1
  <2>3. r[i - 1] = q[i]
    BY <1>5, <2>2
  <2> QED
    BY <2>1, <2>2, <2>3 DEF Among
<1> QED
  BY <1>4, <1>5, <1>7, <1>8 DEF r
\* What a thread does with a query.
LEMMA RunEffects ==
  ASSUME SqlType, NEW i \in DOMAIN queries, Q!Run(i)
  PROVE  LET q == queries[i]
         IN  /\ queries' = Q!RemoveAt(queries, i)
             /\ UNCHANGED <<database, emitted, knew, broken>>
             /\ rows' = IF q.op = "insert session" THEN rows \cup {q.session} ELSE rows
             /\ stored_rows' = IF q.op \in {"insert login", "insert upload"}
                               THEN stored_rows \cup {[session |-> q.session, op |-> q.op]}
                               ELSE stored_rows
             /\ sensors' = IF q.op = "insert sensor" /\ ~Q!Fruitless(q.op) THEN sensors + 1 ELSE sensors
             /\ clients' \in BOOLEAN
             /\ missed' = IF q.op = "update client" /\ q.session \notin rows
                          THEN missed \cup {q.session} ELSE missed
             /\ q.op \notin Replies \/ Q!Fruitless(q.op) => replies' = replies
             /\ q.op \in Replies /\ ~Q!Fruitless(q.op) => \E ok \in BOOLEAN :
                   /\ replies' = Append(replies, [op |-> q.op, session |-> q.session, ok |-> ok])
                   /\ q.op = "select sensor" => (ok <=> sensors > 0)
<1> DEFINE q == queries[i]
<1>1. q.op \in QueryOps /\ q.session \in Sessions /\ clients \in BOOLEAN /\ sensors \in Nat
  <2>1. q \in Query
    BY DEF SqlType
  <2> HIDE DEF q
  <2> QED
    BY <2>1 DEF SqlType, Query
<1>2. queries' = Q!RemoveAt(queries, i) /\ UNCHANGED <<database, emitted, knew, broken>>
  BY DEF Q!Run
<1>11. CASE Q!Fruitless(q.op)
  <2>1. q.op \in {"insert sensor", "insert client"}
    BY <1>11 DEF Q!Fruitless
  <2>2. UNCHANGED <<sensors, clients, rows, stored_rows, replies, missed>>
    BY <1>11 DEF Q!Run
  <2> QED
    BY <1>1, <1>2, <1>11, <2>1, <2>2
<1>3. CASE q.op = "select sensor"
  <2>0. ~Q!Fruitless(q.op)
    BY <1>3 DEF Q!Fruitless
  <2>1. /\ replies' = Append(replies, [op |-> q.op, session |-> q.session, ok |-> sensors > 0])
        /\ UNCHANGED <<sensors, clients, rows, stored_rows, missed>>
    BY <1>3, <2>0 DEF Q!Run
  <2>2. \E ok \in BOOLEAN :
           /\ replies' = Append(replies, [op |-> q.op, session |-> q.session, ok |-> ok])
           /\ ok <=> sensors > 0
    <3>1. CASE sensors > 0
      <4>1. (sensors > 0) = TRUE
        BY <3>1
      <4> QED
        BY <2>1, <3>1, <4>1
    <3>2. CASE ~(sensors > 0)
      <4>1. (sensors > 0) = FALSE
        BY <3>2
      <4> QED
        BY <2>1, <3>2, <4>1
    <3> QED
      BY <3>1, <3>2
  <2> QED
    BY <1>1, <1>2, <1>3, <2>0, <2>1, <2>2 DEF Replies, SensorReplies
<1>4. CASE ~Q!Fruitless(q.op) /\ q.op = "insert sensor"
  BY <1>1, <1>2, <1>4 DEF Q!Run, Replies, SensorReplies
<1>5. CASE q.op \in {"last sensor", "last client"}
  BY <1>1, <1>2, <1>5 DEF Q!Run, Q!Fruitless, Replies, SensorReplies, ClientReplies
<1>6. CASE q.op = "select client"
  BY <1>1, <1>2, <1>6 DEF Q!Run, Q!Fruitless, Replies, ClientReplies
<1>7. CASE ~Q!Fruitless(q.op) /\ q.op = "insert client"
  BY <1>1, <1>2, <1>7 DEF Q!Run, Replies, ClientReplies
<1>8. CASE q.op = "insert session"
  BY <1>1, <1>2, <1>8 DEF Q!Run, Q!Fruitless, Replies, SensorReplies, ClientReplies
<1>9. CASE q.op \in {"update client", "update session"}
  BY <1>1, <1>2, <1>9 DEF Q!Run, Q!Fruitless, Q!Update, Replies, SensorReplies, ClientReplies
<1>10. CASE q.op \in {"insert login", "insert upload"}
  BY <1>1, <1>2, <1>10 DEF Q!Run, Q!Fruitless, Replies, SensorReplies, ClientReplies
<1> QED
  BY <1>1, <1>3, <1>4, <1>5, <1>6, <1>7, <1>8, <1>9, <1>10, <1>11
     DEF QueryOps, Replies, SensorReplies, ClientReplies
LEMMA RunType ==
  ASSUME SqlType, NEW i \in DOMAIN queries, Q!Run(i)
  PROVE  /\ SqlType'
         /\ Len(queries') = Len(queries) - 1 /\ Len(queries) \in Nat /\ Len(replies) \in Nat
         /\ \A s, ops : Answered(s, ops) => Answered(s, ops)'
         /\ queries[i].op \in Replies /\ ~Q!Fruitless(queries[i].op) =>
               \A ops : queries[i].op \in ops =>
                         Among(replies', Len(replies'), queries[i].session, ops)
<1> DEFINE q == queries[i]
<1>1. q \in Query /\ i \in 1 .. Len(queries) /\ queries \in Seq(Query) /\ replies \in Seq(Reply)
  BY DEF SqlType
<1>2. q.op \in QueryOps /\ q.session \in Sessions
  <2> HIDE DEF q
  <2> QED
    BY <1>1 DEF Query
<1>3. queries' \in Seq(Query) /\ Len(queries') = Len(queries) - 1
  BY <1>1, Removed, RunEffects
<1>4. /\ replies' \in Seq(Reply)
      /\ \A s, ops : Answered(s, ops) => Answered(s, ops)'
      /\ q.op \in Replies /\ ~Q!Fruitless(q.op) => \A ops : q.op \in ops => Among(replies', Len(replies'), q.session, ops)
  <2>1. CASE q.op \notin Replies \/ Q!Fruitless(q.op)
    BY <1>1, <2>1, RunEffects DEF Answered
  <2>2. CASE q.op \in Replies /\ ~Q!Fruitless(q.op)
    <3>1. PICK ok \in BOOLEAN :
             replies' = Append(replies, [op |-> q.op, session |-> q.session, ok |-> ok])
      BY <2>2, RunEffects
    <3> DEFINE e == [op |-> q.op, session |-> q.session, ok |-> ok]
    <3>2. e \in Reply /\ e.op = q.op /\ e.session = q.session
      BY <1>2, <2>2 DEF Reply
    <3> HIDE DEF e, q
    <3>3. replies' = Append(replies, e)
      BY <3>1 DEF e
    <3>4. /\ replies' \in Seq(Reply)
          /\ \A s, ops : Among(replies, Len(replies), s, ops) => Among(replies', Len(replies'), s, ops)
          /\ \A s, ops : e.session = s /\ e.op \in ops => Among(replies', Len(replies'), s, ops)
      BY <1>1, <3>2, <3>3, Appended
    <3>5. \A s, ops : Answered(s, ops) => Answered(s, ops)'
      BY <3>4 DEF Answered
    <3> QED
      BY <3>2, <3>4, <3>5
  <2> QED
    BY <2>1, <2>2
<1>5. /\ sensors' \in Nat /\ clients' \in BOOLEAN /\ UNCHANGED <<database, emitted>>
  <2>1. /\ sensors' = IF q.op = "insert sensor" /\ ~Q!Fruitless(q.op) THEN sensors + 1 ELSE sensors
        /\ clients' \in BOOLEAN /\ UNCHANGED <<database, emitted>>
    BY RunEffects
  <2>2. sensors \in Nat
    BY DEF SqlType
  <2>3. sensors' \in Nat
    <3>1. sensors + 1 \in Nat
      BY <2>2
    <3> QED
      BY <2>1, <2>2, <3>1
  <2> QED
    BY <2>1, <2>3
<1> QED
  BY <1>1, <1>3, <1>4, <1>5 DEF SqlType

\* The query is none whose failure costs a session its row.
Harmless(i) == Q!Fruitless(queries[i].op) => queries[i].op = "insert client" \/ Q!Sensorless

LEMMA RunOwed ==
  ASSUME SqlType, NEW i \in DOMAIN queries, Q!Run(i), NEW s \in Sessions, Owed(s), Harmless(i)
  PROVE  Owed(s)'
<1> DEFINE op == queries[i].op
           who == queries[i].session
<1>1. /\ queries' = Q!RemoveAt(queries, i) /\ UNCHANGED <<database, emitted, knew>>
      /\ rows' = IF op = "insert session" THEN rows \cup {who} ELSE rows
      /\ stored_rows' = IF op \in {"insert login", "insert upload"}
                        THEN stored_rows \cup {[session |-> who, op |-> op]} ELSE stored_rows
  BY RunEffects
<1>2. /\ \A ops : Answered(s, ops) => Answered(s, ops)'
      /\ op \in Replies /\ ~Q!Fruitless(op) => \A ops : op \in ops => Among(replies', Len(replies'), who, ops)
  BY RunType
<1>3. \A ops : Asked(s, ops) /\ ~(who = s /\ op \in ops) => Asked(s, ops)'
  <2>1. queries \in Seq(Query)
    BY DEF SqlType
  <2>2. i \in 1 .. Len(queries)
    BY <2>1
  <2> QED
    BY <1>1, <2>1, <2>2, Removed DEF Asked
<1>6. Q!Sensorless \/ ~Q!Fruitless(op) \/ op = "insert client"
  BY DEF Harmless
<1> HIDE DEF op, who
<1>4. ASSUME "connect" \in emitted[s], ~Q!Sensorless
      PROVE  \/ s \in rows' \/ Asked(s, SensorReplies \cup {"insert session"})'
             \/ Answered(s, SensorReplies)'
  <2>1. \/ s \in rows \/ Asked(s, SensorReplies \cup {"insert session"})
        \/ Answered(s, SensorReplies)
    BY <1>4 DEF Owed
  <2>2. CASE who = s /\ op \in SensorReplies
    <3>1. op \in Replies /\ ~Q!Fruitless(op)
      BY <1>4, <1>6, <2>2 DEF Replies, SensorReplies
    <3> QED
      BY <1>2, <2>2, <3>1 DEF Answered
  <2>3. CASE who = s /\ op = "insert session"
    BY <1>1, <2>3
  <2>4. CASE ~(who = s /\ op \in SensorReplies \cup {"insert session"})
    <3>1. s \in rows => s \in rows'
      BY <1>1
    <3>2. Asked(s, SensorReplies \cup {"insert session"})
             => Asked(s, SensorReplies \cup {"insert session"})'
      BY <1>3, <2>4
    <3>3. Answered(s, SensorReplies) => Answered(s, SensorReplies)'
      BY <1>2
    <3> QED
      BY <2>1, <3>1, <3>2, <3>3
  <2> QED
    BY <2>2, <2>3, <2>4
<1>5. ASSUME NEW x \in {"insert login", "insert upload"},
             [session |-> s, op |-> x] \in stored_rows \/ Asked(s, {x})
      PROVE  [session |-> s, op |-> x] \in stored_rows' \/ Asked(s, {x})'
  <2>1. CASE who = s /\ op = x
    BY <1>1, <2>1
  <2>2. CASE ~(who = s /\ op = x)
    <3>1. Asked(s, {x}) => Asked(s, {x})'
      BY <1>3, <2>2
    <3> QED
      BY <1>1, <1>5, <3>1
  <2> QED
    BY <2>1, <2>2
<1> QED
  BY <1>1, <1>4, <1>5 DEF Owed, Q!Sensorless

\* The one thread runs the first query of a known sensor.
LEMMA RunInOrder ==
  ASSUME SqlType, SqlType', InOrder, 1 \in DOMAIN queries, Q!Run(1)
  PROVE  InOrder'
<1> DEFINE op == queries[1].op
           who == queries[1].session
<1>1. /\ queries' = Q!RemoveAt(queries, 1) /\ broken' = broken
      /\ rows' = IF op = "insert session" THEN rows \cup {who} ELSE rows
      /\ missed' = IF op = "update client" /\ who \notin rows THEN missed \cup {who} ELSE missed
      /\ sensors' = IF op = "insert sensor" /\ ~Q!Fruitless(op) THEN sensors + 1 ELSE sensors
  BY RunEffects
<1>2. /\ queries \in Seq(Query) /\ Len(queries) \in Nat /\ Len(queries) >= 1
      /\ op \in QueryOps /\ who \in Sessions
  <2>1. queries \in Seq(Query) /\ Len(queries) \in Nat /\ Len(queries) >= 1 /\ queries[1] \in Query
    BY DEF SqlType
  <2> QED
    BY <2>1 DEF Query
<1>3. /\ Len(queries') = Len(queries) - 1
      /\ \A j \in DOMAIN queries' : j + 1 \in DOMAIN queries /\ queries'[j] = queries[j + 1]
      /\ \A s, ops : Asked(s, ops) /\ ~(who = s /\ op \in ops) => Asked(s, ops)'
      /\ \A n \in 1 .. Len(queries) : \A s, ops :
            Among(queries, n, s, ops) /\ ~(who = s /\ op \in ops) => Among(queries', n - 1, s, ops)
  <2>1. 1 \in 1 .. Len(queries)
    BY <1>2
  <2>2. /\ queries' \in Seq(Query) /\ Len(queries') = Len(queries) - 1
        /\ \A j \in 1 .. Len(queries) - 1 : queries'[j] = queries[IF j < 1 THEN j ELSE j + 1]
        /\ \A s, ops : Among(queries, Len(queries), s, ops) /\ ~(who = s /\ op \in ops)
                          => Among(queries', Len(queries'), s, ops)
        /\ \A n \in 1 .. Len(queries) : \A s, ops :
              Among(queries, n, s, ops) /\ ~(who = s /\ op \in ops) => Among(queries', n - 1, s, ops)
    BY <1>1, <1>2, <2>1, Removed
  <2>3. ASSUME NEW j \in DOMAIN queries'
        PROVE  j + 1 \in DOMAIN queries /\ queries'[j] = queries[j + 1]
    <3>1. j \in 1 .. Len(queries) - 1
      BY <2>2
    <3> QED
      BY <1>2, <2>2, <3>1
  <2> QED
    BY <2>2, <2>3 DEF Asked
<1>4. /\ replies \in Seq(Reply) /\ Len(replies) \in Nat
      /\ \A s, ops : Answered(s, ops) => Answered(s, ops)'
      /\ op \in Replies /\ ~Q!Fruitless(op) => \A ops : op \in ops => Among(replies', Len(replies'), who, ops)
  BY RunType DEF SqlType
<1>5. /\ \A j \in DOMAIN replies : j \in DOMAIN replies' /\ replies'[j] = replies[j]
      /\ \A n \in 0 .. Len(replies) : \A s, ops : Among(replies, n, s, ops) => Among(replies', n, s, ops)
      /\ \A j \in DOMAIN replies' \ DOMAIN replies :
            /\ j = Len(replies) + 1 /\ replies'[j].op = op /\ replies'[j].session = who
            /\ op = "select sensor" => (replies'[j].ok <=> sensors > 0)
  <2>1. CASE op \notin Replies \/ Q!Fruitless(op)
    <3>1. replies' = replies
      BY <2>1, RunEffects
    <3> QED
      BY <3>1
  <2>2. CASE op \in Replies /\ ~Q!Fruitless(op)
    <3>1. PICK ok \in BOOLEAN :
             /\ replies' = Append(replies, [op |-> op, session |-> who, ok |-> ok])
             /\ op = "select sensor" => (ok <=> sensors > 0)
      BY <2>2, RunEffects
    <3> DEFINE e == [op |-> op, session |-> who, ok |-> ok]
    <3> HIDE DEF op, who
    <3>2. e \in Reply /\ e.op = op /\ e.session = who /\ e.ok = ok
      BY <1>2, <2>2 DEF Reply
    <3> HIDE DEF e
    <3>3. replies' = Append(replies, e)
      BY <3>1 DEF e
    <3>4. /\ replies' \in Seq(Reply) /\ Len(replies') = Len(replies) + 1
          /\ replies'[Len(replies')] = e /\ \A j \in 1 .. Len(replies) : replies'[j] = replies[j]
          /\ \A n \in 0 .. Len(replies) : \A s, ops :
                Among(replies, n, s, ops) => Among(replies', n, s, ops)
      BY <1>4, <3>2, <3>3, Appended
    <3>5. DOMAIN replies = 1 .. Len(replies) /\ DOMAIN replies' = 1 .. Len(replies) + 1
      BY <1>4, <3>4
    <3>6. \A j \in DOMAIN replies : j \in DOMAIN replies' /\ replies'[j] = replies[j]
      BY <1>4, <3>4, <3>5
    <3>7. \A j \in DOMAIN replies' \ DOMAIN replies : j = Len(replies) + 1 /\ replies'[j] = e
      BY <1>4, <3>4, <3>5
    <3> QED
      BY <3>1, <3>2, <3>4, <3>6, <3>7
  <2> QED
    BY <2>1, <2>2
<1>6. op \notin {"insert sensor", "last sensor"} /\ sensors > 0
  BY <1>2 DEF InOrder, SensorKnown
<1> HIDE DEF op, who
<1>7. SensorKnown'
  <2>1. sensors' > 0
    BY <1>1, <1>6
  <2>2. \A j \in DOMAIN queries' : queries'[j].op \notin {"insert sensor", "last sensor"}
    BY <1>3 DEF InOrder, SensorKnown
  <2>3. \A j \in DOMAIN replies' : /\ replies'[j].op \notin {"insert sensor", "last sensor"}
                                   /\ replies'[j].op = "select sensor" => replies'[j].ok
    BY <1>5, <1>6 DEF InOrder, SensorKnown
  <2> QED
    BY <2>1, <2>2, <2>3 DEF SensorKnown
<1>8. ASSUME NEW s \in Sessions \ (rows' \cup broken')
      PROVE  Behind(s)'
  <2>1. s \notin rows /\ s \notin broken /\ Behind(s) /\ ~(who = s /\ op = "insert session")
    BY <1>1, <1>8 DEF InOrder
  <2>2. Asked(s, {"insert session"}) => Asked(s, {"insert session"})'
    BY <1>3, <2>1
  <2>3. ASSUME NEW j \in DOMAIN queries', queries'[j].session = s
        PROVE  /\ queries'[j].op = "select client" =>
                    Among(queries', j - 1, s, {"select sensor"}) \/ Asked(s, {"insert session"})'
                        \/ Answered(s, {"select sensor"})'
               /\ queries'[j].op \in {"insert client", "last client", "update client"} =>
                    Among(queries', j - 1, s, {"insert session"})
    <3>1. j + 1 \in DOMAIN queries /\ queries'[j] = queries[j + 1]
      BY <1>3
    <3>2. j \in 1 .. Len(queries) /\ (j + 1) - 1 = j
      BY <1>2, <3>1, <2>3 DEF SqlType
    <3>3. \A ops : Among(queries, j, s, ops) /\ ~(who = s /\ op \in ops)
                      => Among(queries', j - 1, s, ops)
      BY <1>3, <3>2
    <3>4. queries'[j].op = "select client" =>
             Among(queries, j, s, {"select sensor"}) \/ Asked(s, {"insert session"})
                        \/ Answered(s, {"select sensor"})
      BY <2>1, <2>3, <3>1, <3>2 DEF Behind
    <3>5. queries'[j].op \in {"insert client", "last client", "update client"} =>
             Among(queries, j, s, {"insert session"})
      BY <2>1, <2>3, <3>1, <3>2 DEF Behind
    <3>6. who = s /\ op = "select sensor" => Answered(s, {"select sensor"})'
      BY <1>4 DEF Replies, SensorReplies, Answered, Q!Fruitless
    <3>7. Answered(s, {"select sensor"}) => Answered(s, {"select sensor"})'
      BY <1>4
    <3>8. Among(queries, j, s, {"select sensor"})
             => Among(queries', j - 1, s, {"select sensor"}) \/ Answered(s, {"select sensor"})'
      BY <3>3, <3>6
    <3>9. Among(queries, j, s, {"insert session"}) => Among(queries', j - 1, s, {"insert session"})
      BY <2>1, <3>3
    <3> QED
      BY <2>2, <3>4, <3>5, <3>7, <3>8, <3>9
  <2>4. ASSUME NEW j \in DOMAIN replies', replies'[j].session = s, replies'[j].op \in ClientReplies
        PROVE  Among(replies', j - 1, s, {"select sensor"}) \/ Asked(s, {"insert session"})'
    <3>1. CASE j \in DOMAIN replies
      <4>1. j - 1 \in 0 .. Len(replies) /\ replies'[j] = replies[j]
        <5>1. j \in 1 .. Len(replies)
          BY <1>4, <3>1
        <5>2. replies'[j] = replies[j]
          BY <1>5, <3>1
        <5>3. j - 1 \in 0 .. Len(replies)
          BY <1>4, <5>1
        <5> QED
          BY <5>2, <5>3
      <4> QED
        BY <1>5, <2>1, <2>2, <2>4, <3>1, <4>1 DEF Behind
    <3>2. CASE j \notin DOMAIN replies
      <4>1. j = Len(replies) + 1 /\ op \in ClientReplies /\ who = s
        BY <1>5, <2>4, <3>2
      <4>2. ~Among(queries, 1 - 1, s, {"select sensor"}) /\ ~Among(queries, 1 - 1, s, {"insert session"})
        BY DEF Among
      <4>3. op = "select client" => Asked(s, {"insert session"}) \/ Answered(s, {"select sensor"})
        BY <2>1, <4>1, <4>2 DEF Behind, op, who
      <4>4. op = "select client"
        BY <2>1, <4>1, <4>2 DEF Behind, op, who, ClientReplies
      <4>5. Answered(s, {"select sensor"}) => Among(replies', j - 1, s, {"select sensor"})
        <5>1. Len(replies) \in 0 .. Len(replies) /\ j - 1 = Len(replies)
          BY <1>4, <4>1
        <5> QED
          BY <1>5, <5>1 DEF Answered
      <4> QED
        BY <2>2, <4>3, <4>4, <4>5
    <3> QED
      BY <3>1, <3>2
  <2> QED
    BY <2>3, <2>4 DEF Behind
<1>9. missed' \subseteq broken'
  <2>1. ASSUME op = "update client", who \notin rows
        PROVE  who \in broken
    <3>1. ASSUME who \notin broken PROVE FALSE
      <4>1. Behind(who)
        BY <1>2, <2>1, <3>1 DEF InOrder
      <4>2. ~Among(queries, 1 - 1, who, {"insert session"})
        BY DEF Among
      <4> QED
        BY <1>2, <2>1, <4>1, <4>2 DEF Behind, op, who
    <3> QED
      BY <3>1
  <2> QED
    BY <1>1, <2>1 DEF InOrder
<1> QED
  BY <1>7, <1>8, <1>9 DEF InOrder
\* What is left after a removal was there before.
LEMMA EntriesKept ==
  ASSUME NEW E, NEW q \in Seq(E), NEW r \in Seq(E), NEW i \in 1 .. Len(q), Len(r) = Len(q) - 1,
         \A j \in 1 .. Len(q) - 1 : r[j] = q[IF j < i THEN j ELSE j + 1]
  PROVE  \A j \in DOMAIN r : \E k \in DOMAIN q : r[j] = q[k]
<1> SUFFICES ASSUME NEW j \in DOMAIN r
             PROVE  \E k \in DOMAIN q : r[j] = q[k]
  OBVIOUS
<1>1. Len(q) \in Nat /\ DOMAIN q = 1 .. Len(q) /\ j \in 1 .. Len(q) - 1
  OBVIOUS
<1>2. (IF j < i THEN j ELSE j + 1) \in DOMAIN q
  BY <1>1
<1> QED
  BY <1>1, <1>2

\* A query that fails, after which its session counts no more.
LEMMA FailSteps ==
  ASSUME SqlInv, NEW i \in DOMAIN queries, database # "sqlite" => i = 1, Q!Fail(i)
  PROVE  SqlInv'
<1> DEFINE op == queries[i].op
           who == queries[i].session
<1>1. /\ queries' = Q!RemoveAt(queries, i) /\ broken' = broken \cup {who}
      /\ UNCHANGED <<database, emitted, knew, sensors, clients, rows, stored_rows, replies, missed>>
  BY DEF Q!Fail
<1>2. queries \in Seq(Query) /\ i \in 1 .. Len(queries) /\ Len(queries) \in Nat
  BY DEF SqlInv, SqlType
<1>3. /\ queries' \in Seq(Query) /\ Len(queries') = Len(queries) - 1
      /\ \A j \in 1 .. Len(queries) - 1 : queries'[j] = queries[IF j < i THEN j ELSE j + 1]
      /\ \A s, ops : Among(queries, Len(queries), s, ops) /\ who # s
                        => Among(queries', Len(queries'), s, ops)
      /\ i = 1 => \A n \in 1 .. Len(queries) : \A s, ops :
            Among(queries, n, s, ops) /\ who # s => Among(queries', n - 1, s, ops)
  BY <1>1, <1>2, Removed
<1>4. SqlType'
  BY <1>1, <1>3 DEF SqlInv, SqlType
<1> HIDE DEF op, who
<1>5. \A s, ops : /\ Asked(s, ops) /\ who # s => Asked(s, ops)'
                  /\ Answered(s, ops) => Answered(s, ops)'
  BY <1>1, <1>3 DEF Asked, Answered
<1>6. ASSUME NEW s \in Sessions \ broken' PROVE Owed(s)'
  BY <1>1, <1>5, <1>6 DEF SqlInv, Owed, Q!Sensorless
<1>7. ASSUME (database # "sqlite" /\ knew)' PROVE InOrder'
  <2>1. InOrder /\ i = 1
    BY <1>1, <1>7 DEF SqlInv
  <2>2. \A j \in DOMAIN queries' : j + 1 \in DOMAIN queries /\ j \in 1 .. Len(queries)
                                     /\ queries'[j] = queries[j + 1]
    <3>1. ASSUME NEW j \in DOMAIN queries'
          PROVE  j + 1 \in DOMAIN queries /\ j \in 1 .. Len(queries) /\ queries'[j] = queries[j + 1]
      <4>1. j \in 1 .. Len(queries) - 1
        BY <1>3
      <4> QED
        BY <1>2, <1>3, <2>1, <4>1
    <3> QED
      BY <3>1
  <2>3. SensorKnown'
    BY <1>1, <2>1, <2>2 DEF InOrder, SensorKnown
  <2>4. ASSUME NEW s \in Sessions \ (rows' \cup broken') PROVE Behind(s)'
    <3>1. Behind(s) /\ who # s
      BY <1>1, <2>1, <2>4 DEF InOrder
    <3>2. ASSUME NEW j \in DOMAIN queries', queries'[j].session = s
          PROVE  /\ queries'[j].op = "select client" =>
                      Among(queries', j - 1, s, {"select sensor"}) \/ Asked(s, {"insert session"})'
                          \/ Answered(s, {"select sensor"})'
                 /\ queries'[j].op \in {"insert client", "last client", "update client"} =>
                      Among(queries', j - 1, s, {"insert session"})
      <4>1. /\ j + 1 \in DOMAIN queries /\ j \in 1 .. Len(queries)
            /\ queries'[j] = queries[j + 1] /\ (j + 1) - 1 = j
        BY <1>2, <2>2
      <4>2. \A ops : Among(queries, j, s, ops) => Among(queries', j - 1, s, ops)
        BY <1>3, <2>1, <3>1, <4>1
      <4>3. /\ queries'[j].op = "select client" =>
                 Among(queries, j, s, {"select sensor"}) \/ Asked(s, {"insert session"})
                        \/ Answered(s, {"select sensor"})
            /\ queries'[j].op \in {"insert client", "last client", "update client"} =>
                 Among(queries, j, s, {"insert session"})
        BY <3>1, <3>2, <4>1 DEF Behind
      <4> QED
        BY <1>5, <3>1, <4>2, <4>3
    <3>3. \A j \in DOMAIN replies' : replies'[j].session = s /\ replies'[j].op \in ClientReplies =>
             Among(replies', j - 1, s, {"select sensor"}) \/ Asked(s, {"insert session"})'
      BY <1>1, <1>5, <3>1 DEF Behind
    <3> QED
      BY <3>2, <3>3 DEF Behind
  <2> QED
    BY <1>1, <2>1, <2>3, <2>4 DEF InOrder
<1>8. ASSUME Q!Sensorless' PROVE NeverStored'
  <2>1. NeverStored
    BY <1>1, <1>8 DEF SqlInv, Q!Sensorless
  <2>2. \A j \in DOMAIN queries' : \E k \in DOMAIN queries : queries'[j] = queries[k]
    BY <1>2, <1>3, EntriesKept
  <2> QED
    BY <1>1, <2>1, <2>2 DEF NeverStored
<1> QED
  BY <1>4, <1>6, <1>7, <1>8 DEF SqlInv

LEMMA RunSteps ==
  ASSUME SqlInv, NEW i \in DOMAIN queries, database # "sqlite" => i = 1, Q!Run(i)
  PROVE  SqlInv'
<1>1. SqlType /\ SqlType'
  BY RunType DEF SqlInv
<1>2. UNCHANGED <<database, knew, broken>>
  BY <1>1, RunEffects
<1>3. ASSUME NEW s \in Sessions \ broken' PROVE Owed(s)'
  <2>1. Harmless(i)
    BY DEF SqlInv, InOrder, SensorKnown, Q!Fruitless, Q!Sensorless, Harmless
  <2> QED
    BY <1>1, <1>2, <1>3, <2>1, RunOwed DEF SqlInv
<1>4. ASSUME (database # "sqlite" /\ knew)' PROVE InOrder'
  BY <1>1, <1>2, <1>4, RunInOrder DEF SqlInv
<1>5. ASSUME Q!Sensorless' PROVE NeverStored'
  <2> DEFINE op == queries[i].op
  <2>1. NeverStored /\ database = "postgresql"
    BY <1>2, <1>5 DEF SqlInv, Q!Sensorless
  <2>2. op \notin {"last sensor", "insert session"} /\ (op = "insert sensor" => Q!Fruitless(op))
    BY <2>1 DEF NeverStored, Q!Fruitless
  <2>3. sensors' = 0 /\ rows' = {}
    BY <1>1, <2>1, <2>2, RunEffects DEF NeverStored
  <2>4. \A j \in DOMAIN queries' : \E k \in DOMAIN queries : queries'[j] = queries[k]
    <3>1. queries \in Seq(Query) /\ i \in 1 .. Len(queries) /\ Len(queries) \in Nat
      BY <1>1 DEF SqlType
    <3>2. queries' = Q!RemoveAt(queries, i)
      BY <1>1, RunEffects
    <3>3. /\ queries' \in Seq(Query) /\ Len(queries') = Len(queries) - 1
          /\ \A j \in 1 .. Len(queries) - 1 : queries'[j] = queries[IF j < i THEN j ELSE j + 1]
      BY <3>1, <3>2, Removed
    <3> QED
      BY <3>1, <3>3, EntriesKept
  <2>5. \A j \in DOMAIN queries' : queries'[j].op \notin {"last sensor", "insert session"}
    BY <2>1, <2>4 DEF NeverStored
  <2>6. \A j \in DOMAIN replies' : /\ replies'[j].op \notin {"insert sensor", "last sensor"}
                                   /\ replies'[j].op = "select sensor" => ~replies'[j].ok
    <3>1. CASE op \notin Replies \/ Q!Fruitless(op)
      <4>1. replies' = replies
        BY <1>1, <3>1, RunEffects
      <4> QED
        BY <2>1, <4>1 DEF NeverStored
    <3>2. CASE op \in Replies /\ ~Q!Fruitless(op)
      <4>1. PICK ok \in BOOLEAN :
               /\ replies' = Append(replies, [op |-> op, session |-> queries[i].session, ok |-> ok])
               /\ op = "select sensor" => (ok <=> sensors > 0)
        BY <1>1, <3>2, RunEffects
      <4> DEFINE e == [op |-> op, session |-> queries[i].session, ok |-> ok]
      <4>2. e.op = op /\ e.ok = ok /\ e.op \notin {"insert sensor", "last sensor"}
            /\ (e.op = "select sensor" => ~e.ok)
        <5>1. sensors = 0
          BY <2>1 DEF NeverStored
        <5>2. e.op = op /\ e.ok = ok
          OBVIOUS
        <5> HIDE DEF op, e
        <5>3. op \notin {"insert sensor", "last sensor"}
          BY <2>2, <3>2, Zenon
        <5>4. op = "select sensor" => ~ok
          <6>1. ~(sensors > 0)
            BY <5>1
          <6> QED
            BY <4>1, <6>1, Zenon
        <5> QED
          BY <5>2, <5>3, <5>4
      <4>3. replies \in Seq(Reply) /\ replies' \in Seq(Reply)
        BY <1>1 DEF SqlType
      <4>4. replies' = Append(replies, e)
        BY <4>1
      <4> HIDE DEF e
      <4>5. \A j \in DOMAIN replies' : replies'[j] = e \/ \E k \in DOMAIN replies : replies'[j] = replies[k]
        BY <4>3, <4>4
      <4> QED
        BY <2>1, <4>2, <4>5 DEF NeverStored
    <3> QED
      BY <3>1, <3>2
  <2> QED
    BY <2>3, <2>5, <2>6 DEF NeverStored
<1> QED
  BY <1>1, <1>3, <1>4, <1>5 DEF SqlInv

\* The reactor gets a result: the next query is behind all others.
LEMMA ResultSteps == SqlInv /\ Q!Result => SqlInv'
<1> SUFFICES ASSUME SqlInv, Q!Result
             PROVE  SqlInv'
  OBVIOUS
<1> DEFINE r == Head(replies)
           op == r.op
           who == r.session
           next == IF op = "select sensor" THEN IF r.ok THEN "insert session" ELSE "insert sensor"
                   ELSE IF op = "insert sensor" THEN "last sensor"
                   ELSE IF op = "last sensor" THEN "insert session"
                   ELSE IF op = "select client" THEN IF r.ok THEN "update client" ELSE "insert client"
                   ELSE IF op = "insert client" THEN "last client" ELSE "update client"
           e == [op |-> next, session |-> who]
<1>1. /\ replies # <<>> /\ replies' = Tail(replies)
      /\ queries' = Q!Queued(queries, Q!GoesOn(r), who)
      /\ UNCHANGED <<database, emitted, knew, sensors, clients, rows, stored_rows, missed, broken>>
  BY DEF Q!Result
<1>2. /\ queries \in Seq(Query) /\ Len(queries) \in Nat
      /\ replies \in Seq(Reply) /\ Len(replies) \in Nat /\ 1 \in 1 .. Len(replies)
      /\ r = replies[1] /\ op \in Replies /\ who \in Sessions /\ r.ok \in BOOLEAN
  <2>1. replies \in Seq(Reply) /\ Len(replies) \in Nat /\ 1 \in 1 .. Len(replies) /\ r = replies[1]
    BY <1>1, EmptySeq DEF SqlInv, SqlType
  <2>2. r \in Reply
    BY <2>1
  <2> HIDE DEF r
  <2>3. r.op \in Replies /\ r.session \in Sessions /\ r.ok \in BOOLEAN
    BY <2>2 DEF Reply
  <2> QED
    BY <2>1, <2>3 DEF SqlInv, SqlType
<1>3. Q!GoesOn(r) = <<next>>
  BY <1>2 DEF Q!GoesOn, Replies, SensorReplies, ClientReplies
<1>4. next \in QueryOps
  BY <1>2 DEF QueryOps, Replies, SensorReplies, ClientReplies
<1>5. /\ op \in SensorReplies => next \in SensorReplies \cup {"insert session"}
      /\ op \in ClientReplies => next \in {"insert client", "last client", "update client"}
      /\ op = "select sensor" /\ r.ok => next = "insert session"
  BY DEF SensorReplies, ClientReplies
<1>6. DOMAIN replies = 1 .. Len(replies) /\ DOMAIN queries = 1 .. Len(queries)
  BY <1>2
<1> HIDE DEF next, op, who, r
<1>7. e \in Query /\ e.op = next /\ e.session = who
  BY <1>2, <1>4 DEF Query
<1>8. queries' = Append(queries, e)
  BY <1>1, <1>2, <1>3, <1>4, QueuedOne
<1> HIDE DEF e
<1>9. /\ queries' \in Seq(Query) /\ Len(queries') = Len(queries) + 1
      /\ queries'[Len(queries) + 1] = e /\ \A i \in 1 .. Len(queries) : queries'[i] = queries[i]
      /\ \A s, ops : Among(queries, Len(queries), s, ops) => Among(queries', Len(queries'), s, ops)
      /\ \A s, ops : who = s /\ next \in ops => Among(queries', Len(queries'), s, ops)
      /\ \A n \in 0 .. Len(queries) : \A s, ops : Among(queries, n, s, ops) <=> Among(queries', n, s, ops)
  BY <1>2, <1>7, <1>8, Appended
<1>10. replies' = Q!RemoveAt(replies, 1)
  <2>1. SubSeq(replies, 1, 1 - 1) = <<>>
    BY <1>2, SubSeqEmpty
  <2>2. /\ SubSeq(replies, 1 + 1, Len(replies)) \in Seq(Reply)
        /\ Tail(replies) = SubSeq(replies, 1 + 1, Len(replies))
    <3>1. Tail(replies) = SubSeq(replies, 2, Len(replies))
      BY <1>1, <1>2, HeadTailProperties, SubSeqProperties
    <3>2. Tail(replies) \in Seq(Reply)
      BY <1>1, <1>2, HeadTailProperties
    <3> QED
      BY <3>1, <3>2
  <2> QED
    BY <1>1, <2>1, <2>2, ConcatEmptySeq DEF Q!RemoveAt
<1>11. /\ replies' \in Seq(Reply) /\ Len(replies') = Len(replies) - 1
       /\ \A j \in 1 .. Len(replies) - 1 : replies'[j] = replies[IF j < 1 THEN j ELSE j + 1]
       /\ \A s, ops : Among(replies, Len(replies), s, ops) /\ ~(who = s /\ op \in ops)
                         => Among(replies', Len(replies'), s, ops)
       /\ \A n \in 1 .. Len(replies) : \A s, ops :
             Among(replies, n, s, ops) /\ ~(who = s /\ op \in ops) => Among(replies', n - 1, s, ops)
  BY <1>2, <1>10, Removed DEF op, who
<1>12. SqlType'
  BY <1>1, <1>9, <1>11 DEF SqlInv, SqlType
<1>13. \A s, ops : /\ Asked(s, ops) => Asked(s, ops)'
                   /\ who = s /\ next \in ops => Asked(s, ops)'
                   /\ Answered(s, ops) /\ ~(who = s /\ op \in ops) => Answered(s, ops)'
  BY <1>9, <1>11 DEF Asked, Answered
<1>14. ASSUME NEW s \in Sessions \ broken' PROVE Owed(s)'
  <2>1. Owed(s)
    BY <1>1, <1>14 DEF SqlInv
  <2>2. Answered(s, SensorReplies) =>
           Asked(s, SensorReplies \cup {"insert session"})' \/ Answered(s, SensorReplies)'
    BY <1>5, <1>13
  <2> QED
    BY <1>1, <1>13, <2>1, <2>2 DEF Owed, Q!Sensorless
<1>15. ASSUME (database # "sqlite" /\ knew)' PROVE InOrder'
  <2>1. InOrder
    BY <1>1, <1>15 DEF SqlInv
  <2>2. op \notin {"insert sensor", "last sensor"} /\ (op = "select sensor" => next = "insert session")
    BY <1>2, <1>5, <1>6, <2>1 DEF InOrder, SensorKnown, op
  <2>3. \A j \in DOMAIN replies' : /\ j + 1 \in DOMAIN replies /\ j \in 1 .. Len(replies)
                                   /\ replies'[j] = replies[j + 1]
    <3>1. ASSUME NEW j \in DOMAIN replies'
          PROVE  j + 1 \in DOMAIN replies /\ j \in 1 .. Len(replies) /\ replies'[j] = replies[j + 1]
      <4>1. j \in 1 .. Len(replies) - 1
        BY <1>11
      <4> QED
        BY <1>2, <1>11, <4>1
    <3> QED
      BY <3>1
  <2>4. \A j \in DOMAIN queries' : \/ j \in 1 .. Len(queries) /\ queries'[j] = queries[j]
                                   \/ j = Len(queries) + 1 /\ queries'[j] = e
    BY <1>2, <1>9
  <2>5. next \notin {"insert sensor", "last sensor"}
    BY <1>2, <2>2 DEF next, Replies, SensorReplies, ClientReplies
  <2>6. SensorKnown'
    <3>1. \A j \in DOMAIN queries' : queries'[j].op \notin {"insert sensor", "last sensor"}
      BY <1>6, <1>7, <2>1, <2>4, <2>5 DEF InOrder, SensorKnown
    <3>2. \A j \in DOMAIN replies' : /\ replies'[j].op \notin {"insert sensor", "last sensor"}
                                     /\ replies'[j].op = "select sensor" => replies'[j].ok
      BY <2>1, <2>3 DEF InOrder, SensorKnown
    <3> QED
      BY <1>1, <2>1, <3>1, <3>2 DEF InOrder, SensorKnown
  <2>7. ASSUME NEW s \in Sessions \ (rows' \cup broken') PROVE Behind(s)'
    <3>1. Behind(s)
      BY <1>1, <2>1, <2>7 DEF InOrder
    <3>2. ASSUME NEW j \in DOMAIN queries', queries'[j].session = s
          PROVE  /\ queries'[j].op = "select client" =>
                      Among(queries', j - 1, s, {"select sensor"}) \/ Asked(s, {"insert session"})'
                          \/ Answered(s, {"select sensor"})'
                 /\ queries'[j].op \in {"insert client", "last client", "update client"} =>
                      Among(queries', j - 1, s, {"insert session"})
      <4>1. CASE j \in 1 .. Len(queries) /\ queries'[j] = queries[j]
        <5>1. j - 1 \in 0 .. Len(queries) /\ j \in DOMAIN queries
          BY <1>2, <1>6, <4>1
        <5>2. /\ queries'[j].op = "select client" =>
                      Among(queries, j - 1, s, {"select sensor"}) \/ Asked(s, {"insert session"})
                          \/ Answered(s, {"select sensor"})
              /\ queries'[j].op \in {"insert client", "last client", "update client"} =>
                      Among(queries, j - 1, s, {"insert session"})
          BY <3>1, <3>2, <4>1, <5>1 DEF Behind
        <5>3. Answered(s, {"select sensor"}) =>
                 Asked(s, {"insert session"})' \/ Answered(s, {"select sensor"})'
          BY <1>13, <2>2
        <5> QED
          BY <1>9, <1>13, <5>1, <5>2, <5>3
      <4>2. CASE j = Len(queries) + 1 /\ queries'[j] = e
        <5>1. who = s /\ queries'[j].op = next
          BY <1>7, <3>2, <4>2
        <5>2. CASE next \in {"select client", "insert client", "last client", "update client"}
          <6>1. op \in ClientReplies /\ next # "select client"
            BY <1>2, <2>2, <5>2 DEF next, Replies, SensorReplies, ClientReplies
          <6>2. ~Among(replies, 1 - 1, s, {"select sensor"})
            BY DEF Among
          <6>3. Asked(s, {"insert session"})
            BY <1>2, <1>6, <3>1, <5>1, <6>1, <6>2 DEF Behind, op, who
          <6>4. Len(queries) \in 0 .. Len(queries) /\ j - 1 = Len(queries)
            BY <1>2, <4>2
          <6> QED
            BY <1>9, <5>1, <6>1, <6>3, <6>4 DEF Asked
        <5> QED
          BY <5>1, <5>2
      <4> QED
        BY <2>4, <4>1, <4>2
    <3>3. ASSUME NEW j \in DOMAIN replies', replies'[j].session = s, replies'[j].op \in ClientReplies
          PROVE  Among(replies', j - 1, s, {"select sensor"}) \/ Asked(s, {"insert session"})'
      <4>1. j + 1 \in DOMAIN replies /\ j \in 1 .. Len(replies) /\ replies'[j] = replies[j + 1]
            /\ (j + 1) - 1 = j
        BY <1>2, <2>3
      <4>2. Among(replies, j, s, {"select sensor"}) \/ Asked(s, {"insert session"})
        BY <3>1, <3>3, <4>1 DEF Behind
      <4>3. CASE who = s /\ op = "select sensor"
        BY <1>13, <2>2, <4>3
      <4>4. CASE ~(who = s /\ op = "select sensor")
        <5>1. Among(replies, j, s, {"select sensor"}) => Among(replies', j - 1, s, {"select sensor"})
          BY <1>11, <4>1, <4>4
        <5> QED
          BY <1>13, <4>2, <5>1
      <4> QED
        BY <4>3, <4>4
    <3> QED
      BY <3>2, <3>3 DEF Behind
  <2> QED
    BY <1>1, <2>1, <2>6, <2>7 DEF InOrder
<1>16. ASSUME Q!Sensorless' PROVE NeverStored'
  <2>1. NeverStored
    BY <1>1, <1>16 DEF SqlInv, Q!Sensorless
  <2>2. next \notin {"last sensor", "insert session"}
    BY <1>2, <1>6, <2>1 DEF NeverStored, next, op, Replies, SensorReplies, ClientReplies
  <2>3. \A j \in DOMAIN queries' : queries'[j] = e \/ \E k \in DOMAIN queries : queries'[j] = queries[k]
    BY <1>2, <1>8, <1>9
  <2>4. \A j \in DOMAIN queries' : queries'[j].op \notin {"last sensor", "insert session"}
    BY <1>7, <2>1, <2>2, <2>3 DEF NeverStored
  <2>5. \A j \in DOMAIN replies' : \E k \in DOMAIN replies : replies'[j] = replies[k]
    <3>1. ASSUME NEW j \in DOMAIN replies'
          PROVE  j + 1 \in DOMAIN replies /\ replies'[j] = replies[j + 1]
      <4>1. j \in 1 .. Len(replies) - 1
        BY <1>11
      <4> QED
        BY <1>2, <1>11, <4>1
    <3> QED
      BY <3>1
  <2>6. \A j \in DOMAIN replies' : /\ replies'[j].op \notin {"insert sensor", "last sensor"}
                                   /\ replies'[j].op = "select sensor" => ~replies'[j].ok
    BY <2>1, <2>5 DEF NeverStored
  <2> QED
    BY <1>1, <2>1, <2>4, <2>6 DEF NeverStored
<1> QED
  BY <1>12, <1>14, <1>15, <1>16 DEF SqlInv
\* An event: the query of a version comes behind those of its connection.
LEMMA WriteSteps ==
  ASSUME SqlInv, NEW s \in Sessions, NEW kind \in Kinds, Q!write(s, kind)
  PROVE  SqlInv'
<1> DEFINE x == CASE kind = "connect" -> "select sensor"
                  [] kind = "version" -> "select client"
                  [] kind = "update" -> "update session"
                  [] kind = "login" -> "insert login"
                  [] kind = "upload" -> "insert upload"
           e == [op |-> x, session |-> s]
<1>1. /\ emitted' = [emitted EXCEPT ![s] = @ \cup {kind}]
      /\ kind = "connect" <=> emitted[s] = {}
      /\ queries' = Q!Queued(queries, Q!First(kind), s)
      /\ UNCHANGED <<database, knew, sensors, clients, rows, stored_rows, replies, missed, broken>>
  BY DEF Q!write
<1>2. /\ queries \in Seq(Query) /\ Len(queries) \in Nat /\ database \in {"mysql", "postgresql", "sqlite"}
      /\ emitted \in [Sessions -> SUBSET Kinds] /\ DOMAIN queries = 1 .. Len(queries)
      /\ Len(replies) \in Nat /\ DOMAIN replies = 1 .. Len(replies)
  BY DEF SqlInv, SqlType
<1>3. /\ kind \in {"connect", "version", "update", "login", "upload"}
      /\ kind = "connect" => x = "select sensor"
      /\ kind = "version" => x = "select client"
      /\ kind = "update" => x = "update session"
      /\ kind = "login" => x = "insert login"
      /\ kind = "upload" => x = "insert upload"
  BY DEF Kinds, Q!Events
<1>4. Q!First(kind) = IF database = "sqlite" /\ kind = "upload" THEN <<>> ELSE <<x>>
  BY <1>2, <1>3 DEF Q!First, Q!mysqlWrite, Q!postgresqlWrite, Q!sqliteWrite
<1>5. x \in QueryOps
  BY <1>3 DEF QueryOps, Replies, SensorReplies, ClientReplies
<1> HIDE DEF x
<1>6. e \in Query /\ e.op = x /\ e.session = s
  BY <1>5 DEF Query
<1>7. queries' = IF database = "sqlite" /\ kind = "upload" THEN queries ELSE Append(queries, e)
  <2>1. /\ Q!Queued(queries, <<x>>, s) = Append(queries, e)
        /\ Q!Queued(queries, <<>>, s) = queries
    BY <1>2, <1>5, QueuedOne
  <2> QED
    BY <1>1, <1>4, <2>1
<1> HIDE DEF e
<1>8. /\ queries' \in Seq(Query) /\ Len(queries) <= Len(queries')
      /\ \A i \in 1 .. Len(queries) : queries'[i] = queries[i]
      /\ \A t, ops : Among(queries, Len(queries), t, ops) => Among(queries', Len(queries'), t, ops)
      /\ ~(database = "sqlite" /\ kind = "upload") =>
            \A ops : x \in ops => Among(queries', Len(queries'), s, ops)
      /\ \A n \in 0 .. Len(queries) : \A t, ops : Among(queries, n, t, ops) => Among(queries', n, t, ops)
      /\ \A i \in DOMAIN queries' : \/ i \in 1 .. Len(queries)
                                    \/ i = Len(queries) + 1 /\ queries'[i] = e
  <2>1. CASE database = "sqlite" /\ kind = "upload"
    BY <1>2, <1>7, <2>1
  <2>2. CASE ~(database = "sqlite" /\ kind = "upload")
    <3>1. queries' = Append(queries, e)
      BY <1>7, <2>2
    <3>2. /\ queries' \in Seq(Query) /\ Len(queries') = Len(queries) + 1
          /\ queries'[Len(queries')] = e /\ \A i \in 1 .. Len(queries) : queries'[i] = queries[i]
          /\ \A t, ops : Among(queries, Len(queries), t, ops) => Among(queries', Len(queries'), t, ops)
          /\ \A t, ops : s = t /\ x \in ops => Among(queries', Len(queries'), t, ops)
          /\ \A n \in 0 .. Len(queries) : \A t, ops : Among(queries, n, t, ops) <=> Among(queries', n, t, ops)
      BY <1>2, <1>6, <3>1, Appended
    <3>3. \A i \in DOMAIN queries' : \/ i \in 1 .. Len(queries)
                                     \/ i = Len(queries) + 1 /\ queries'[i] = e
      BY <1>2, <3>2
    <3> QED
      BY <1>2, <3>2, <3>3
  <2> QED
    BY <2>1, <2>2
<1>9. \A t, ops : /\ Asked(t, ops) => Asked(t, ops)'
                  /\ Answered(t, ops) => Answered(t, ops)'
                  /\ ~(database = "sqlite" /\ kind = "upload") /\ x \in ops => Asked(s, ops)'
  BY <1>1, <1>8 DEF Asked, Answered
<1>10. SqlType'
  <2>1. emitted' \in [Sessions -> SUBSET Kinds]
    BY <1>1, <1>2
  <2>2. ASSUME NEW t \in Sessions, emitted'[t] # {} PROVE "connect" \in emitted'[t]
    <3>1. emitted'[t] = IF t = s THEN emitted[t] \cup {kind} ELSE emitted[t]
      BY <1>1, <1>2
    <3>2. emitted[t] # {} => "connect" \in emitted[t]
      BY DEF SqlInv, SqlType
    <3> QED
      BY <1>1, <2>2, <3>1, <3>2
  <2> QED
    BY <1>1, <1>8, <2>1, <2>2 DEF SqlInv, SqlType
<1>11. ASSUME NEW t \in Sessions \ broken' PROVE Owed(t)'
  <2>1. Owed(t) /\ emitted'[t] = IF t = s THEN emitted[t] \cup {kind} ELSE emitted[t]
    BY <1>1, <1>2, <1>11 DEF SqlInv
  <2>2. "connect" \in emitted'[t] /\ ~Q!Sensorless =>
           \/ t \in rows' \/ Asked(t, SensorReplies \cup {"insert session"})'
           \/ Answered(t, SensorReplies)'
    <3>1. CASE "connect" \in emitted[t]
      BY <1>1, <1>9, <2>1, <3>1 DEF Owed
    <3>2. CASE t = s /\ kind = "connect"
      BY <1>3, <1>9, <3>2 DEF SensorReplies
    <3> QED
      BY <2>1, <3>1, <3>2
  <2>3. "login" \in emitted'[t] =>
           [session |-> t, op |-> "insert login"] \in stored_rows' \/ Asked(t, {"insert login"})'
    <3>1. CASE "login" \in emitted[t]
      BY <1>1, <1>9, <2>1, <3>1 DEF Owed
    <3>2. CASE t = s /\ kind = "login"
      BY <1>3, <1>9, <3>2
    <3> QED
      BY <2>1, <3>1, <3>2
  <2>4. "upload" \in emitted'[t] /\ database' # "sqlite" =>
           [session |-> t, op |-> "insert upload"] \in stored_rows' \/ Asked(t, {"insert upload"})'
    <3> SUFFICES ASSUME "upload" \in emitted'[t], database # "sqlite"
                 PROVE  \/ [session |-> t, op |-> "insert upload"] \in stored_rows'
                        \/ Asked(t, {"insert upload"})'
      BY <1>1
    <3>1. CASE "upload" \in emitted[t]
      BY <1>1, <1>9, <2>1, <3>1 DEF Owed
    <3>2. CASE t = s /\ kind = "upload"
      BY <1>3, <1>9, <3>2
    <3> QED
      BY <2>1, <3>1, <3>2
  <2> QED
    BY <1>1, <2>2, <2>3, <2>4 DEF Owed, Q!Sensorless
<1>12. ASSUME (database # "sqlite" /\ knew)' PROVE InOrder'
  <2>1. InOrder
    BY <1>1, <1>12 DEF SqlInv
  <2>2. SensorKnown'
    <3>1. x \notin {"insert sensor", "last sensor"}
      BY <1>3
    <3>2. \A j \in DOMAIN queries' : queries'[j].op \notin {"insert sensor", "last sensor"}
      BY <1>2, <1>6, <1>8, <2>1, <3>1 DEF InOrder, SensorKnown
    <3> QED
      BY <1>1, <2>1, <3>2 DEF InOrder, SensorKnown
  <2>3. ASSUME NEW t \in Sessions \ (rows' \cup broken') PROVE Behind(t)'
    <3>1. Behind(t) /\ t \in Sessions \ broken /\ t \notin rows
      BY <1>1, <2>1, <2>3 DEF InOrder
    <3>2. ASSUME NEW j \in DOMAIN queries', queries'[j].session = t
          PROVE  /\ queries'[j].op = "select client" =>
                      Among(queries', j - 1, t, {"select sensor"}) \/ Asked(t, {"insert session"})'
                          \/ Answered(t, {"select sensor"})'
                 /\ queries'[j].op \in {"insert client", "last client", "update client"} =>
                      Among(queries', j - 1, t, {"insert session"})
      <4>1. CASE j \in 1 .. Len(queries)
        <5>1. j - 1 \in 0 .. Len(queries) /\ j \in DOMAIN queries /\ queries'[j] = queries[j]
          BY <1>2, <1>8, <4>1
        <5>2. /\ queries'[j].op = "select client" =>
                      Among(queries, j - 1, t, {"select sensor"}) \/ Asked(t, {"insert session"})
                          \/ Answered(t, {"select sensor"})
              /\ queries'[j].op \in {"insert client", "last client", "update client"} =>
                      Among(queries, j - 1, t, {"insert session"})
          BY <3>1, <3>2, <5>1 DEF Behind
        <5> QED
          BY <1>8, <1>9, <5>1, <5>2
      <4>2. CASE j = Len(queries) + 1 /\ queries'[j] = e
        <5>1. t = s /\ queries'[j].op = x
          BY <1>6, <3>2, <4>2
        <5>2. x \notin {"insert client", "last client", "update client"}
          BY <1>3
        <5>3. ASSUME x = "select client"
              PROVE  Among(queries', j - 1, t, {"select sensor"}) \/ Asked(t, {"insert session"})'
                          \/ Answered(t, {"select sensor"})'
          <6>1. "connect" \in emitted[t]
            BY <1>1, <1>3, <5>1, <5>3 DEF SqlInv, SqlType
          <6>2. Asked(t, SensorReplies \cup {"insert session"}) \/ Answered(t, SensorReplies)
            BY <1>1, <1>12, <3>1, <6>1 DEF SqlInv, Owed, Q!Sensorless
          <6>3. /\ Asked(t, SensorReplies \cup {"insert session"}) =>
                      Asked(t, {"select sensor"}) \/ Asked(t, {"insert session"})
                /\ Answered(t, SensorReplies) => Answered(t, {"select sensor"})
            BY <1>2, <2>1 DEF InOrder, SensorKnown, Asked, Answered, Among, SensorReplies
          <6>4. Len(queries) \in 0 .. Len(queries) /\ j - 1 = Len(queries)
            BY <1>2, <4>2
          <6>5. Asked(t, {"select sensor"}) => Among(queries', j - 1, t, {"select sensor"})
            BY <1>8, <6>4 DEF Asked
          <6> QED
            BY <1>9, <6>2, <6>3, <6>5
        <5> QED
          BY <5>1, <5>2, <5>3
      <4> QED
        BY <1>8, <4>1, <4>2
    <3>3. \A j \in DOMAIN replies' : replies'[j].session = t /\ replies'[j].op \in ClientReplies =>
             Among(replies', j - 1, t, {"select sensor"}) \/ Asked(t, {"insert session"})'
      BY <1>1, <1>9, <3>1 DEF Behind
    <3> QED
      BY <3>2, <3>3 DEF Behind
  <2> QED
    BY <1>1, <2>1, <2>2, <2>3 DEF InOrder
<1>13. ASSUME Q!Sensorless' PROVE NeverStored'
  <2>1. NeverStored
    BY <1>1, <1>13 DEF SqlInv, Q!Sensorless
  <2>2. x \notin {"last sensor", "insert session"}
    BY <1>3
  <2>3. \A j \in DOMAIN queries' : queries'[j].op \notin {"last sensor", "insert session"}
    BY <1>2, <1>6, <1>8, <2>1, <2>2 DEF NeverStored
  <2> QED
    BY <1>1, <2>1, <2>3 DEF NeverStored
<1> QED
  BY <1>10, <1>11, <1>12, <1>13 DEF SqlInv

LEMMA SqlSteps == SqlInv /\ [Q!SqlNext]_sqlVars => SqlInv'
<1> SUFFICES ASSUME SqlInv, [Q!SqlNext]_sqlVars
             PROVE  SqlInv'
  OBVIOUS
<1>1. ASSUME NEW i \in Q!Runnable, Q!Run(i) \/ Q!Fail(i)
      PROVE  SqlInv'
  <2>1. i \in DOMAIN queries /\ (database # "sqlite" => i = 1)
    BY DEF Q!Runnable
  <2> QED
    BY <1>1, <2>1, RunSteps, FailSteps
<1>2. CASE UNCHANGED sqlVars
  <2>1. UNCHANGED <<database, emitted, knew, sensors, clients, rows, stored_rows, queries, replies,
                    missed, broken>>
    BY <1>2 DEF sqlVars
  <2>2. \A s, n, ops : /\ Among(queries, n, s, ops) <=> Among(queries', n, s, ops)
                       /\ Among(replies, n, s, ops) <=> Among(replies', n, s, ops)
    BY <2>1
  <2>7. \A s, ops : (Asked(s, ops) => Asked(s, ops)') /\ (Answered(s, ops) => Answered(s, ops)')
    BY <2>1 DEF Asked, Answered
  <2>4. SqlType' /\ (SensorKnown => SensorKnown')
    BY <2>1 DEF SqlInv, SqlType, SensorKnown
  <2>5. \A s \in Sessions : Behind(s) => Behind(s)'
    BY <2>1, <2>2, <2>7 DEF Behind
  <2>6. InOrder => InOrder'
    BY <2>1, <2>4, <2>5 DEF InOrder
  <2>3. \A s \in Sessions : Owed(s) => Owed(s)'
    BY <2>1, <2>7 DEF Owed, Q!Sensorless
  <2>8. (Q!Sensorless => NeverStored) => (Q!Sensorless => NeverStored)'
    BY <2>1 DEF Q!Sensorless, NeverStored
  <2> QED
    BY <2>1, <2>3, <2>4, <2>6, <2>8 DEF SqlInv
<1> QED
  BY <1>1, <1>2, WriteSteps, ResultSteps DEF Q!SqlNext, Kinds

LEMMA SqlInvImplies == SqlInv => Q!VersionFindsSession
<1> SUFFICES ASSUME SqlInv
             PROVE  Q!VersionFindsSession
  OBVIOUS
<1>1. ASSUME queries = <<>>, replies = <<>>
      PROVE  \A s, ops : ~Asked(s, ops) /\ ~Answered(s, ops)
  <2>1. Len(queries) = 0 /\ Len(replies) = 0
    BY <1>1
  <2> QED
    BY <2>1 DEF Asked, Answered, Among
<1> QED
  BY <1>1 DEF SqlInv, Owed, InOrder, NeverStored, Q!VersionFindsSession

\* For any number of sessions and events, whatever queries fail and in whatever
\* order SQLite's threads take theirs: with one thread and a sensor that is
\* known the version of a client finds the row of its session, and when all is
\* answered every row is there, but those of the sessions of a sensor that
\* PostgreSQL does not know (write of mysql.py, postgresql.py and sqlite.py).
THEOREM VersionsFindSessions == MCSpec => []VersionFindsSession
<1> DEFINE Inv == part = "sql" => SqlInv
<1>1. MCInit => Inv
  <2> SUFFICES ASSUME Q!SqlInit
               PROVE  SqlInv
    BY DEF MCInit
  <2>1. /\ queries = <<>> /\ replies = <<>> /\ emitted = [s \in Sessions |-> {}] /\ missed = {}
        /\ sensors \in Nat /\ (knew => sensors > 0) /\ (~knew => sensors = 0) /\ rows = {} /\ clients \in BOOLEAN
        /\ database \in {"mysql", "postgresql", "sqlite"}
    BY DEF Q!SqlInit
  <2>2. Len(<<>>) = 0 /\ DOMAIN <<>> = {}
    OBVIOUS
  <2>3. SqlType
    BY <2>1, EmptySeq DEF SqlType
  <2>4. \A s \in Sessions : Owed(s)
    BY <2>1 DEF Owed
  <2>5. knew => InOrder
    BY <2>1, <2>2 DEF InOrder, SensorKnown, Behind
  <2>6. Q!Sensorless => NeverStored
    BY <2>1, <2>2 DEF NeverStored, Q!Sensorless
  <2> QED
    BY <2>3, <2>4, <2>5, <2>6 DEF SqlInv
<1>2. Inv /\ [MCNext]_<<part, sessionVars, abuseVars, deliverVars, sqlVars, virustotalVars>> => Inv'
  <2> SUFFICES ASSUME Inv, part' = "sql",
                      [MCNext]_<<part, sessionVars, abuseVars, deliverVars, sqlVars, virustotalVars>>
               PROVE  SqlInv'
    OBVIOUS
  <2>1. part = "sql" /\ [Q!SqlNext]_sqlVars
    BY DEF MCNext
  <2> QED
    BY <2>1, SqlSteps
<1>3. Inv => VersionFindsSession
  BY SqlInvImplies DEF VersionFindsSession
<1> QED
  BY <1>1, <1>2, <1>3, PTL DEF MCSpec
-----------------------------------------------------------------------------
(* Deliveries: Discord's queue                                             *)

Entry == [event : Nat, attempts : Nat]
Ev(q) == {q[i].event : i \in 1 .. Len(q)}
EvOnce(q) == \A i, j \in 1 .. Len(q) : q[i].event = q[j].event => i = j

\* Every event is in one place, and something goes on with those that wait.
QueueInv ==
    /\ Ev(queue) \cap Ev(flight) = {} /\ Ev(queue) \cap D!ToSet(delivered) = {}
    /\ Ev(queue) \cap given_up = {} /\ Ev(flight) \cap D!ToSet(delivered) = {}
    /\ Ev(flight) \cap given_up = {} /\ D!ToSet(delivered) \cap given_up = {}
    /\ D!ToSet(delivered) \cup Ev(flight) \cup Ev(queue) \cup given_up = 1 .. written
    /\ D!Once(delivered) /\ EvOnce(queue)
    /\ Len(flight) = IF sending THEN 1 ELSE 0
    /\ queue # <<>> => sending \/ scheduled > 0
DiscordType ==
    /\ delivered \in Seq(Nat) /\ flight \in Seq(Entry) /\ queue \in Seq(Entry)
    /\ written \in Nat /\ scheduled \in Nat /\ sending \in BOOLEAN
DiscordInv == DiscordType /\ (plugin = "discord" /\ ~plugin_stopped => QueueInv)

LEMMA EventsOf ==
  ASSUME NEW q \in Seq(Entry)
  PROVE  D!ToSet(D!Events(q)) = Ev(q) /\ (D!Once(D!Events(q)) <=> EvOnce(q))
<1>1. DOMAIN D!Events(q) = 1 .. Len(q) /\ \A i \in 1 .. Len(q) : D!Events(q)[i] = q[i].event
  BY DEF D!Events
<1> QED
  BY <1>1 DEF D!ToSet, D!Once, Ev, EvOnce

LEMMA EventEnters ==
  ASSUME NEW q \in Seq(Entry), NEW e \in Entry
  PROVE  LET r == Append(q, e)
         IN  /\ r \in Seq(Entry) /\ Len(r) = Len(q) + 1 /\ r # <<>> /\ Len(q) \in Nat
             /\ Ev(r) = Ev(q) \cup {e.event}
             /\ EvOnce(q) /\ e.event \notin Ev(q) => EvOnce(r)
<1> DEFINE r == Append(q, e)
<1>1. r \in Seq(Entry) /\ Len(r) = Len(q) + 1 /\ Len(q) \in Nat
      /\ r[Len(q) + 1] = e /\ \A i \in 1 .. Len(q) : r[i] = q[i]
  BY AppendProperties
<1>2. r # <<>>
  BY <1>1, EmptySeq
<1> HIDE DEF r
<1>3. \A i \in 1 .. Len(q) + 1 : i \in 1 .. Len(q) \/ i = Len(q) + 1
  BY <1>1
<1>4. 1 .. Len(r) = 1 .. Len(q) \cup {Len(q) + 1}
  BY <1>1
<1>5. Ev(r) = Ev(q) \cup {e.event}
  BY <1>1, <1>4 DEF Ev
<1>6. EvOnce(q) /\ e.event \notin Ev(q) => EvOnce(r)
  BY <1>1, <1>4 DEF Ev, EvOnce
<1> QED
  BY <1>1, <1>2, <1>5, <1>6 DEF r

LEMMA EventLeaves ==
  ASSUME NEW q \in Seq(Entry), q # <<>>
  PROVE  LET h == Head(q)  r == Tail(q)
         IN  /\ h \in Entry /\ r \in Seq(Entry) /\ Len(r) = Len(q) - 1 /\ Len(q) \in Nat
             /\ Ev(q) = Ev(r) \cup {h.event}
             /\ EvOnce(q) => EvOnce(r) /\ h.event \notin Ev(r)
<1> DEFINE h == Head(q)
           r == Tail(q)
           n == Len(q)
<1>1. n \in Nat /\ n > 0
  BY EmptySeq
<1>2. /\ h \in Entry /\ h = q[1] /\ r \in Seq(Entry) /\ Len(r) = n - 1
      /\ \A i \in 1 .. n - 1 : r[i] = q[i + 1]
  BY <1>1
<1> HIDE DEF h, r, n
<1>3. \A i \in 1 .. n - 1 : i + 1 \in 1 .. n /\ i + 1 # 1
  BY <1>1
<1>4. \A i \in 1 .. n : i = 1 \/ (i - 1 \in 1 .. n - 1 /\ (i - 1) + 1 = i)
  BY <1>1
<1>5. Ev(q) = {q[i].event : i \in 1 .. n} /\ Ev(r) = {r[i].event : i \in 1 .. n - 1}
  BY <1>2 DEF Ev, n
<1>6. Ev(q) = Ev(r) \cup {h.event}
  <2>1. 1 \in 1 .. n
    BY <1>1
  <2>2. ASSUME NEW x \in Ev(q) PROVE x \in Ev(r) \cup {h.event}
    <3>1. PICK i \in 1 .. n : x = q[i].event
      BY <1>5, <2>2
    <3>2. CASE i = 1
      BY <1>2, <3>1, <3>2
    <3>3. CASE i # 1
      <4>1. i - 1 \in 1 .. n - 1 /\ (i - 1) + 1 = i
        BY <1>4, <3>3
      <4>2. r[i - 1] = q[i]
        BY <1>2, <4>1
      <4> QED
        BY <1>5, <3>1, <4>1, <4>2
    <3> QED
      BY <3>2, <3>3
  <2>3. ASSUME NEW x \in Ev(r) PROVE x \in Ev(q)
    BY <1>2, <1>3, <1>5
  <2> QED
    BY <1>2, <1>5, <2>1, <2>2, <2>3
<1>7. ASSUME EvOnce(q)
      PROVE  EvOnce(r) /\ h.event \notin Ev(r)
  <2>1. \A i, j \in 1 .. n : q[i].event = q[j].event => i = j
    BY <1>7 DEF EvOnce, n
  <2>2. \A i, j \in 1 .. n - 1 : i + 1 = j + 1 => i = j
    OBVIOUS
  <2>3. \A i, j \in 1 .. n - 1 : r[i].event = r[j].event => i = j
    BY <1>2, <1>3, <2>1, <2>2
  <2>4. 1 \in 1 .. n
    BY <1>1
  <2>5. h.event \notin Ev(r)
    BY <1>2, <1>3, <1>5, <2>1, <2>4
  <2> QED
    BY <1>2, <2>3, <2>5 DEF EvOnce
<1> QED
  BY <1>1, <1>2, <1>6, <1>7 DEF h, r, n

\* The entry in front of the others.
LEMMA EventReturns ==
  ASSUME NEW q \in Seq(Entry), NEW e \in Entry
  PROVE  LET r == <<e>> \o q
         IN  /\ r \in Seq(Entry)
             /\ Ev(r) = Ev(q) \cup {e.event}
             /\ EvOnce(q) /\ e.event \notin Ev(q) => EvOnce(r)
<1> DEFINE r == <<e>> \o q
           n == Len(q)
<1>1. /\ r \in Seq(Entry) /\ Len(r) = n + 1 /\ n \in Nat
      /\ r[1] = e /\ \A i \in 1 .. n : r[i + 1] = q[i]
  BY ConcatProperties
<1> HIDE DEF r, n
<1>2. \A i \in 1 .. n + 1 : i = 1 \/ (i - 1 \in 1 .. n /\ (i - 1) + 1 = i)
  BY <1>1
<1>3. \A i \in 1 .. n : i + 1 \in 1 .. n + 1 /\ i + 1 # 1
  BY <1>1
<1>4. Ev(r) = {r[i].event : i \in 1 .. n + 1} /\ Ev(q) = {q[i].event : i \in 1 .. n}
  BY <1>1 DEF Ev, n
<1>5. Ev(r) = Ev(q) \cup {e.event}
  <2>1. 1 \in 1 .. n + 1
    BY <1>1
  <2>2. ASSUME NEW x \in Ev(r) PROVE x \in Ev(q) \cup {e.event}
    <3>1. PICK i \in 1 .. n + 1 : x = r[i].event
      BY <1>4, <2>2
    <3>2. CASE i = 1
      BY <1>1, <3>1, <3>2
    <3>3. CASE i # 1
      <4>1. i - 1 \in 1 .. n /\ r[i] = q[i - 1]
        BY <1>1, <1>2, <3>3
      <4> QED
        BY <1>4, <3>1, <4>1
    <3> QED
      BY <3>2, <3>3
  <2>3. ASSUME NEW x \in Ev(q) PROVE x \in Ev(r)
    BY <1>1, <1>3, <1>4
  <2> QED
    BY <1>1, <1>4, <2>1, <2>2, <2>3
<1>6. ASSUME EvOnce(q), e.event \notin Ev(q)
      PROVE  EvOnce(r)
  <2>1. \A i, j \in 1 .. n : q[i].event = q[j].event => i = j
    BY <1>6 DEF EvOnce, n
  <2>2. ASSUME NEW i \in 1 .. n + 1, NEW j \in 1 .. n + 1, r[i].event = r[j].event
        PROVE  i = j
    <3>1. i # 1 => i - 1 \in 1 .. n /\ r[i] = q[i - 1]
      BY <1>1, <1>2
    <3>2. j # 1 => j - 1 \in 1 .. n /\ r[j] = q[j - 1]
      BY <1>1, <1>2
    <3>3. i = 1 => j = 1
      BY <1>1, <1>4, <1>6, <2>2, <3>2
    <3>4. j = 1 => i = 1
      BY <1>1, <1>4, <1>6, <2>2, <3>1
    <3>5. i # 1 /\ j # 1 => i - 1 = j - 1
      BY <2>1, <2>2, <3>1, <3>2
    <3> QED
      BY <3>3, <3>4, <3>5
  <2> QED
    BY <1>1, <2>2 DEF EvOnce
<1> QED
  BY <1>1, <1>5, <1>6 DEF r
\* What a sequence holds, and that it holds nothing twice, when something is
\* put behind the rest.
LEMMA OnceAppended ==
  ASSUME NEW X, NEW s \in Seq(X), NEW x \in X
  PROVE  LET r == Append(s, x)
         IN  /\ r \in Seq(X) /\ Len(r) = Len(s) + 1
             /\ D!ToSet(r) = D!ToSet(s) \cup {x}
             /\ D!Once(s) /\ x \notin D!ToSet(s) => D!Once(r)
<1> DEFINE r == Append(s, x)
<1>1. r \in Seq(X) /\ Len(r) = Len(s) + 1 /\ Len(s) \in Nat
      /\ r[Len(s) + 1] = x /\ \A i \in 1 .. Len(s) : r[i] = s[i]
  BY AppendProperties
<1>2. DOMAIN s = 1 .. Len(s) /\ DOMAIN r = 1 .. Len(s) \cup {Len(s) + 1}
  BY <1>1
<1> HIDE DEF r
<1>3. D!ToSet(r) = D!ToSet(s) \cup {x}
  BY <1>1, <1>2 DEF D!ToSet
<1>4. D!Once(s) /\ x \notin D!ToSet(s) => D!Once(r)
  BY <1>1, <1>2 DEF D!ToSet, D!Once
<1> QED
  BY <1>1, <1>3, <1>4 DEF r

\* The next entry goes out when none is on its way.
LEMMA NextGoesOut ==
  ASSUME DiscordType, NEW q \in Seq(Entry), NEW busy \in BOOLEAN, D!Processed(q, busy)
  PROVE  /\ queue' \in Seq(Entry) /\ flight' \in Seq(Entry) /\ sending' \in BOOLEAN
         /\ \/ plugin_stopped
            \/ ~(Ev(q) \cap Ev(flight) = {} /\ EvOnce(q) /\ Len(flight) = IF busy THEN 1 ELSE 0)
            \/ /\ Ev(queue') \cup Ev(flight') = Ev(q) \cup Ev(flight)
               /\ Ev(queue') \cap Ev(flight') = {} /\ EvOnce(queue')
               /\ Len(flight') = (IF sending' THEN 1 ELSE 0)
               /\ (queue' # <<>> => sending')
<1>1. CASE plugin_stopped \/ busy \/ q = <<>>
  BY <1>1 DEF D!Processed, DiscordType
<1>2. CASE ~(plugin_stopped \/ busy \/ q = <<>>)
  <2>1. queue' = Tail(q) /\ sending' = TRUE /\ flight' = Append(flight, Head(q))
    BY <1>2 DEF D!Processed
  <2>2. flight \in Seq(Entry)
    BY DEF DiscordType
  <2>3. /\ Head(q) \in Entry /\ queue' \in Seq(Entry)
        /\ Ev(q) = Ev(queue') \cup {Head(q).event}
        /\ EvOnce(q) => EvOnce(queue') /\ Head(q).event \notin Ev(queue')
    BY <1>2, <2>1, EventLeaves
  <2>4. /\ flight' \in Seq(Entry) /\ Len(flight') = Len(flight) + 1
        /\ Ev(flight') = Ev(flight) \cup {Head(q).event}
    BY <2>1, <2>2, <2>3, EventEnters
  <2> QED
    BY <1>2, <2>1, <2>3, <2>4
<1> QED
  BY <1>1, <1>2

LEMMA DiscordWrites == DiscordInv /\ D!discordWrite => DiscordInv'
<1> SUFFICES ASSUME DiscordInv, D!discordWrite
             PROVE  DiscordInv'
  OBVIOUS
<1> DEFINE e == [event |-> written', attempts |-> 0]
           q == Append(queue, e)
<1>1. /\ plugin = "discord" /\ ~plugin_stopped /\ written' = written + 1 /\ D!Processed(q, sending)
      /\ UNCHANGED <<plugin, scheduled, delivered, given_up, plugin_stopped>>
  BY DEF D!discordWrite
<1>2. DiscordType /\ QueueInv
  BY <1>1 DEF DiscordInv
<1>3. /\ queue \in Seq(Entry) /\ flight \in Seq(Entry) /\ written \in Nat /\ sending \in BOOLEAN
  BY <1>2 DEF DiscordType
<1>4. e \in Entry /\ e.event = written + 1
  BY <1>1, <1>3 DEF Entry
<1> HIDE DEF e
<1>5. /\ q \in Seq(Entry) /\ Ev(q) = Ev(queue) \cup {written + 1}
      /\ EvOnce(queue) /\ written + 1 \notin Ev(queue) => EvOnce(q)
  BY <1>3, <1>4, EventEnters
<1> HIDE DEF q
<1>6. /\ written + 1 \notin Ev(queue) /\ written + 1 \notin Ev(flight)
      /\ written + 1 \notin D!ToSet(delivered) /\ written + 1 \notin given_up
  <2>1. written + 1 \notin 1 .. written
    BY <1>3
  <2> QED
    BY <1>2, <2>1 DEF QueueInv
<1>7. /\ queue' \in Seq(Entry) /\ flight' \in Seq(Entry) /\ sending' \in BOOLEAN
      /\ Ev(queue') \cup Ev(flight') = Ev(q) \cup Ev(flight)
      /\ Ev(queue') \cap Ev(flight') = {} /\ EvOnce(queue')
      /\ Len(flight') = (IF sending' THEN 1 ELSE 0)
      /\ (queue' # <<>> => sending')
  BY <1>1, <1>2, <1>3, <1>5, <1>6, NextGoesOut DEF QueueInv
<1>8. 1 .. written + 1 = 1 .. written \cup {written + 1}
  BY <1>3
<1>9. DiscordType'
  BY <1>1, <1>2, <1>7 DEF DiscordType
<1>10. QueueInv'
  <2>1. (D!ToSet(delivered) \cup Ev(flight) \cup Ev(queue) \cup given_up = 1 .. written)
    BY <1>2 DEF QueueInv
  <2>2. D!ToSet(delivered') \cup Ev(flight') \cup Ev(queue') \cup given_up' = 1 .. written'
    BY <1>1, <1>5, <1>7, <1>8, <2>1
  <2>3. /\ Ev(queue') \cap D!ToSet(delivered') = {} /\ Ev(queue') \cap given_up' = {}
        /\ Ev(flight') \cap D!ToSet(delivered') = {} /\ Ev(flight') \cap given_up' = {}
    BY <1>1, <1>2, <1>5, <1>6, <1>7 DEF QueueInv
  <2>4. D!ToSet(delivered') \cap given_up' = {} /\ D!Once(delivered')
    BY <1>1, <1>2 DEF QueueInv
  <2> QED
    BY <1>7, <2>2, <2>3, <2>4 DEF QueueInv
<1> QED
  BY <1>9, <1>10 DEF DiscordInv

LEMMA TimerSteps == DiscordInv /\ D!_process_queue => DiscordInv'
<1> SUFFICES ASSUME DiscordInv, D!_process_queue
             PROVE  DiscordInv'
  OBVIOUS
<1>1. /\ D!Processed(queue, sending) /\ scheduled > 0 /\ scheduled' = scheduled - 1
      /\ UNCHANGED <<plugin, written, delivered, given_up, plugin_stopped>>
  BY DEF D!_process_queue
<1>2. DiscordType
  BY DEF DiscordInv
<1>3. /\ queue \in Seq(Entry) /\ flight \in Seq(Entry) /\ sending \in BOOLEAN /\ scheduled \in Nat
  BY <1>2 DEF DiscordType
<1>4. queue' \in Seq(Entry) /\ flight' \in Seq(Entry) /\ sending' \in BOOLEAN /\ scheduled' \in Nat
  BY <1>1, <1>2, <1>3, NextGoesOut
<1>5. DiscordType'
  BY <1>1, <1>2, <1>4 DEF DiscordType
<1>6. ASSUME plugin = "discord", ~plugin_stopped
      PROVE  QueueInv'
  <2>1. QueueInv
    BY <1>6 DEF DiscordInv
  <2>2. /\ Ev(queue') \cup Ev(flight') = Ev(queue) \cup Ev(flight)
        /\ Ev(queue') \cap Ev(flight') = {} /\ EvOnce(queue')
        /\ Len(flight') = (IF sending' THEN 1 ELSE 0)
        /\ (queue' # <<>> => sending')
    BY <1>1, <1>2, <1>3, <1>6, <2>1, NextGoesOut DEF QueueInv
  <2>3. D!ToSet(delivered') \cup Ev(flight') \cup Ev(queue') \cup given_up' = 1 .. written'
    BY <1>1, <2>1, <2>2 DEF QueueInv
  <2>4. /\ Ev(queue') \cap D!ToSet(delivered') = {} /\ Ev(queue') \cap given_up' = {}
        /\ Ev(flight') \cap D!ToSet(delivered') = {} /\ Ev(flight') \cap given_up' = {}
        /\ D!ToSet(delivered') \cap given_up' = {} /\ D!Once(delivered')
    BY <1>1, <2>1, <2>2 DEF QueueInv
  <2> QED
    BY <2>2, <2>3, <2>4 DEF QueueInv
<1> QED
  BY <1>1, <1>5, <1>6 DEF DiscordInv
\* Whatever the answer the request has come back, and its event is delivered,
\* waits again or is given up.
LEMMA AnswerSteps ==
  ASSUME DiscordInv, NEW answer \in {"ok", "limit", "error", "refused"}, D!_after_result(answer)
  PROVE  DiscordInv'
<1> DEFINE e == Head(flight)
           x == e.event
<1>1. /\ flight # <<>> /\ flight' = Tail(flight) /\ sending' = FALSE /\ scheduled' = scheduled + 1
      /\ UNCHANGED <<plugin, written, plugin_stopped>>
  BY DEF D!_after_result
<1>2. DiscordType
  BY DEF DiscordInv
<1>3. /\ queue \in Seq(Entry) /\ flight \in Seq(Entry) /\ scheduled \in Nat /\ delivered \in Seq(Nat)
  BY <1>2 DEF DiscordType
<1>4. /\ e \in Entry /\ flight' \in Seq(Entry) /\ Len(flight') = Len(flight) - 1
      /\ Len(flight) \in Nat /\ Ev(flight) = Ev(flight') \cup {x}
  BY <1>1, <1>3, EventLeaves
<1> HIDE DEF e
<1>5. x \in Nat /\ e.attempts \in Nat /\ D!Tried(e) \in Entry /\ D!Tried(e).event = x
  BY <1>4 DEF Entry, D!Tried
<1> HIDE DEF x
<1>6. \/ queue' = queue /\ delivered' = Append(delivered, x) /\ given_up' = given_up
      \/ queue' = queue /\ delivered' = delivered /\ given_up' = given_up \cup {x}
      \/ queue' = Append(queue, D!Tried(e)) /\ delivered' = delivered /\ given_up' = given_up
      \/ queue' = <<e>> \o queue /\ delivered' = delivered /\ given_up' = given_up
  <2>1. CASE answer = "ok"
    BY <2>1 DEF D!_after_result, x, e
  <2>2. CASE answer = "limit"
    BY <2>2 DEF D!_after_result, x, e
  <2>3. CASE answer = "error"
    <3>1. /\ queue' = D!AfterServerError(queue, e).queue
          /\ given_up' = given_up \cup D!AfterServerError(queue, e).gone
          /\ delivered' = delivered
      BY <2>3 DEF D!_after_result, e
    <3> QED
      BY <3>1 DEF D!AfterServerError, x
  <2>4. CASE answer = "refused"
    BY <2>4 DEF D!_after_result, x, e
  <2> QED
    BY <2>1, <2>2, <2>3, <2>4
<1> DEFINE Moved(q, d, g) ==
             /\ q \in Seq(Entry) /\ d \in Seq(Nat)
             /\ Ev(q) \cup D!ToSet(d) \cup g
                   = Ev(queue) \cup D!ToSet(delivered) \cup given_up \cup {x}
             /\ \/ ~(EvOnce(queue) /\ D!Once(delivered) /\ x \notin Ev(queue) /\ x \notin D!ToSet(delivered)
                     /\ x \notin given_up /\ Ev(queue) \cap D!ToSet(delivered) = {}
                     /\ Ev(queue) \cap given_up = {} /\ D!ToSet(delivered) \cap given_up = {})
                \/ /\ EvOnce(q) /\ D!Once(d) /\ Ev(q) \cap D!ToSet(d) = {} /\ Ev(q) \cap g = {}
                   /\ D!ToSet(d) \cap g = {}
<1>7. Moved(queue', delivered', given_up')
  <2>1. CASE queue' = queue /\ delivered' = Append(delivered, x) /\ given_up' = given_up
    <3>1. /\ delivered' \in Seq(Nat) /\ D!ToSet(delivered') = D!ToSet(delivered) \cup {x}
          /\ D!Once(delivered) /\ x \notin D!ToSet(delivered) => D!Once(delivered')
      BY <1>3, <1>5, <2>1, OnceAppended
    <3> QED
      BY <1>3, <2>1, <3>1
  <2>2. CASE queue' = queue /\ delivered' = delivered /\ given_up' = given_up \cup {x}
    BY <1>3, <2>2
  <2>3. CASE queue' = Append(queue, D!Tried(e)) /\ delivered' = delivered /\ given_up' = given_up
    <3>1. /\ queue' \in Seq(Entry) /\ Ev(queue') = Ev(queue) \cup {x}
          /\ EvOnce(queue) /\ x \notin Ev(queue) => EvOnce(queue')
      BY <1>3, <1>5, <2>3, EventEnters
    <3> QED
      BY <1>3, <2>3, <3>1
  <2>4. CASE queue' = <<e>> \o queue /\ delivered' = delivered /\ given_up' = given_up
    <3>1. /\ queue' \in Seq(Entry) /\ Ev(queue') = Ev(queue) \cup {x}
          /\ EvOnce(queue) /\ x \notin Ev(queue) => EvOnce(queue')
      BY <1>3, <1>4, <2>4, EventReturns DEF x
    <3> QED
      BY <1>3, <2>4, <3>1
  <2> QED
    BY <1>6, <2>1, <2>2, <2>3, <2>4
<1>8. DiscordType'
  <2>1. queue' \in Seq(Entry) /\ delivered' \in Seq(Nat)
    BY <1>7
  <2>2. written' \in Nat
    BY <1>1, <1>2 DEF DiscordType
  <2>3. scheduled' \in Nat
    BY <1>1, <1>3
  <2>4. sending' \in BOOLEAN
    <3>1. sending' = FALSE
      BY <1>1
    <3> QED
      BY <3>1
  <2> QED
    BY <1>4, <2>1, <2>2, <2>3, <2>4 DEF DiscordType
<1>9. ASSUME plugin = "discord", ~plugin_stopped
      PROVE  QueueInv'
  <2>1. QueueInv
    BY <1>9 DEF DiscordInv
  <2>2. Len(flight') = 0
    BY <1>1, <1>4, <2>1, EmptySeq DEF QueueInv
  <2>3. Ev(flight') = {} /\ Ev(flight) = {x}
    <3>1. 1 .. Len(flight') = {}
      BY <2>2
    <3>2. Ev(flight') = {}
      BY <3>1 DEF Ev
    <3> QED
      BY <1>4, <3>2
  <2>4. /\ Ev(queue') \cup D!ToSet(delivered') \cup given_up' = 1 .. written'
        /\ EvOnce(queue') /\ D!Once(delivered') /\ Ev(queue') \cap D!ToSet(delivered') = {}
        /\ Ev(queue') \cap given_up' = {} /\ D!ToSet(delivered') \cap given_up' = {}
    <3>1. Ev(queue) \cup D!ToSet(delivered) \cup given_up \cup {x} = 1 .. written
      BY <2>1, <2>3 DEF QueueInv
    <3>2. /\ EvOnce(queue) /\ D!Once(delivered) /\ x \notin Ev(queue) /\ x \notin D!ToSet(delivered)
          /\ x \notin given_up /\ Ev(queue) \cap D!ToSet(delivered) = {}
          /\ Ev(queue) \cap given_up = {} /\ D!ToSet(delivered) \cap given_up = {}
      BY <2>1, <2>3 DEF QueueInv
    <3> QED
      BY <1>1, <1>7, <3>1, <3>2
  <2>5. scheduled' > 0
    BY <1>1, <1>3
  <2> HIDE DEF Moved
  <2> QED
    BY <1>1, <2>2, <2>3, <2>4, <2>5 DEF QueueInv
<1> QED
  BY <1>1, <1>8, <1>9 DEF DiscordInv

LEMMA DiscordSteps == DiscordInv /\ [D!DeliveryNext]_deliverVars => DiscordInv'
<1> SUFFICES ASSUME DiscordInv, [D!DeliveryNext]_deliverVars
             PROVE  DiscordInv'
  OBVIOUS
<1>1. CASE D!stop
  <2>1. plugin_stopped' /\ DiscordType'
    BY <1>1, EmptySeq DEF D!stop, DiscordInv, DiscordType
  <2> QED
    BY <2>1 DEF DiscordInv
<1>2. CASE \/ UNCHANGED deliverVars \/ D!transmission_error
           \/ \E b \in puts, answer \in {"ok", "error", "raised"} : D!check_response(b, answer)
  <2>1. UNCHANGED <<plugin, written, queue, flight, sending, scheduled, delivered, given_up,
                    plugin_stopped>>
    BY <1>2 DEF deliverVars, D!transmission_error, D!check_response, D!discordVars
  <2> QED
    BY <2>1 DEF DiscordInv, DiscordType, QueueInv
<1>3. CASE D!dshieldWrite
  <2>1. /\ plugin = "dshield" /\ written' = written + 1
        /\ UNCHANGED <<plugin, queue, flight, sending, scheduled, delivered, given_up>>
    BY <1>3 DEF D!dshieldWrite, D!discordVars
  <2> QED
    BY <2>1 DEF DiscordInv, DiscordType
<1> QED
  BY <1>1, <1>2, <1>3, DiscordWrites, TimerSteps, AnswerSteps DEF D!DeliveryNext

LEMMA DiscordInvImplies == DiscordInv => D!QueueMovesOn
<1> SUFFICES ASSUME DiscordInv, plugin = "discord", ~plugin_stopped
             PROVE  /\ D!Once(delivered) /\ D!Once(D!Events(queue))
                    /\ D!Apart(<<D!ToSet(delivered), D!ToSet(D!Events(flight)),
                                 D!ToSet(D!Events(queue)), given_up>>)
                    /\ D!ToSet(delivered) \cup D!ToSet(D!Events(flight))
                          \cup D!ToSet(D!Events(queue)) \cup given_up = 1 .. written
                    /\ Len(flight) = (IF sending THEN 1 ELSE 0)
                    /\ (queue # <<>> => sending \/ scheduled > 0)
  BY DEF D!QueueMovesOn
<1>1. QueueInv /\ flight \in Seq(Entry) /\ queue \in Seq(Entry)
  BY DEF DiscordInv, DiscordType
<1>2. D!ToSet(D!Events(flight)) = Ev(flight) /\ D!ToSet(D!Events(queue)) = Ev(queue)
      /\ (D!Once(D!Events(queue)) <=> EvOnce(queue))
  BY <1>1, EventsOf
<1>3. ASSUME NEW a, NEW b, NEW c, NEW d, a \cap b = {}, a \cap c = {}, a \cap d = {},
             b \cap c = {}, b \cap d = {}, c \cap d = {}
      PROVE  D!Apart(<<a, b, c, d>>)
  <2>1. DOMAIN <<a, b, c, d>> = {1, 2, 3, 4}
    OBVIOUS
  <2> QED
    BY <1>3, <2>1 DEF D!Apart
<1>4. D!Apart(<<D!ToSet(delivered), Ev(flight), Ev(queue), given_up>>)
  BY <1>1, <1>3 DEF QueueInv
<1> QED
  BY <1>1, <1>2, <1>4 DEF QueueInv
-----------------------------------------------------------------------------
(* Deliveries: DShield's batches                                           *)

LEMMA InAttempts ==
  \A batches, x : x \in D!Attempts(batches) <=> \E b \in batches : x \in D!ToSet(b)
BY DEF D!Attempts

LEMMA OnceJoined ==
  ASSUME NEW X, NEW s \in Seq(X), NEW t \in Seq(X)
  PROVE  LET r == s \o t
         IN  /\ r \in Seq(X) /\ Len(r) = Len(s) + Len(t)
             /\ D!ToSet(r) = D!ToSet(s) \cup D!ToSet(t)
             /\ D!Once(s) /\ D!Once(t) /\ D!ToSet(s) \cap D!ToSet(t) = {} => D!Once(r)
<1> DEFINE r == s \o t
           n == Len(s)
           m == Len(t)
<1>1. /\ r \in Seq(X) /\ n \in Nat /\ m \in Nat /\ Len(r) = n + m
      /\ \A i \in 1 .. n : r[i] = s[i]
      /\ \A i \in 1 .. m : r[n + i] = t[i]
  BY ConcatProperties
<1>2. DOMAIN s = 1 .. n /\ DOMAIN t = 1 .. m /\ DOMAIN r = 1 .. n + m
  BY <1>1
<1> HIDE DEF r, n, m
<1>3. \A i \in 1 .. n + m : i \in 1 .. n \/ (i - n \in 1 .. m /\ n + (i - n) = i)
  BY <1>1
<1>4. (\A i \in 1 .. n : i \in 1 .. n + m) /\ (\A i \in 1 .. m : n + i \in 1 .. n + m)
  BY <1>1
<1>5. D!ToSet(r) = D!ToSet(s) \cup D!ToSet(t)
  <2>1. ASSUME NEW i \in 1 .. n + m PROVE r[i] \in D!ToSet(s) \cup D!ToSet(t)
    <3>1. CASE i \in 1 .. n
      BY <1>1, <1>2, <3>1 DEF D!ToSet
    <3>2. CASE i - n \in 1 .. m /\ n + (i - n) = i
      <4>1. r[i] = t[i - n]
        BY <1>1, <3>2
      <4> QED
        BY <1>2, <3>2, <4>1 DEF D!ToSet
    <3> QED
      BY <1>3, <3>1, <3>2
  <2>2. \A i \in 1 .. n : s[i] \in D!ToSet(r)
    BY <1>1, <1>2, <1>4 DEF D!ToSet
  <2>3. \A i \in 1 .. m : t[i] \in D!ToSet(r)
    BY <1>1, <1>2, <1>4 DEF D!ToSet
  <2> QED
    BY <1>2, <2>1, <2>2, <2>3 DEF D!ToSet
<1>6. ASSUME D!Once(s), D!Once(t), D!ToSet(s) \cap D!ToSet(t) = {}
      PROVE  D!Once(r)
  <2>1. /\ \A i, j \in 1 .. n : s[i] = s[j] => i = j
        /\ \A i, j \in 1 .. m : t[i] = t[j] => i = j
        /\ \A i \in 1 .. n, j \in 1 .. m : s[i] # t[j]
    BY <1>2, <1>6 DEF D!Once, D!ToSet
  <2>2. ASSUME NEW i \in 1 .. n + m, NEW j \in 1 .. n + m, r[i] = r[j]
        PROVE  i = j
    <3>1. i \in 1 .. n => r[i] = s[i]
      BY <1>1
    <3>2. j \in 1 .. n => r[j] = s[j]
      BY <1>1
    <3>3. i \notin 1 .. n => i - n \in 1 .. m /\ r[i] = t[i - n]
      BY <1>1, <1>3
    <3>4. j \notin 1 .. n => j - n \in 1 .. m /\ r[j] = t[j - n]
      BY <1>1, <1>3
    <3>5. CASE i \in 1 .. n /\ j \in 1 .. n
      BY <2>1, <2>2, <3>1, <3>2, <3>5
    <3>6. CASE i \notin 1 .. n /\ j \notin 1 .. n
      <4>1. i - n = j - n
        BY <2>1, <2>2, <3>3, <3>4, <3>6
      <4> QED
        BY <1>1, <4>1
    <3>7. CASE i \in 1 .. n /\ j \notin 1 .. n
      BY <2>1, <2>2, <3>1, <3>4, <3>7
    <3>8. CASE i \notin 1 .. n /\ j \in 1 .. n
      <4>1. s[j] = t[i - n] /\ i - n \in 1 .. m
        BY <2>2, <3>2, <3>3, <3>8
      <4> QED
        BY <2>1, <3>8, <4>1
    <3> QED
      BY <3>5, <3>6, <3>7, <3>8
  <2> QED
    BY <1>2, <2>2 DEF D!Once
<1> QED
  BY <1>1, <1>5, <1>6 DEF r, n, m

\* What is cut off in front is not in the rest.
LEMMA OnceCut ==
  ASSUME NEW X, NEW s \in Seq(X), NEW k \in 1 .. Len(s) + 1
  PROVE  LET front == SubSeq(s, 1, k - 1)  rest == SubSeq(s, k, Len(s))
         IN  /\ rest \in Seq(X) /\ Len(rest) = Len(s) - k + 1
             /\ D!ToSet(s) = D!ToSet(front) \cup D!ToSet(rest)
             /\ D!Once(s) => D!Once(rest) /\ D!ToSet(front) \cap D!ToSet(rest) = {}
<1> DEFINE front == SubSeq(s, 1, k - 1)
           rest == SubSeq(s, k, Len(s))
           n == Len(s)
           m == n - k + 1
<1>1. n \in Nat /\ k \in Nat /\ k >= 1 /\ m \in Nat /\ DOMAIN s = 1 .. n /\ k <= n + 1
  OBVIOUS
<1>2. /\ DOMAIN front = 1 .. k - 1
      /\ \A i \in 1 .. k - 1 : front[i] = s[i]
  BY <1>1
<1>3. /\ rest \in Seq(X) /\ Len(rest) = m /\ DOMAIN rest = 1 .. m
      /\ \A i \in 1 .. m : rest[i] = s[k + i - 1]
  BY <1>1
<1> HIDE DEF front, rest, n, m
<1>4. /\ \A i \in 1 .. k - 1 : i \in 1 .. n
      /\ \A i \in 1 .. m : k + i - 1 \in 1 .. n /\ k + i - 1 >= k
      /\ \A i \in 1 .. n : i \in 1 .. k - 1 \/ (i - k + 1 \in 1 .. m /\ k + (i - k + 1) - 1 = i)
  BY <1>1 DEF m
<1>5. D!ToSet(s) = D!ToSet(front) \cup D!ToSet(rest)
  <2>1. ASSUME NEW i \in 1 .. n PROVE s[i] \in D!ToSet(front) \cup D!ToSet(rest)
    <3>1. CASE i \in 1 .. k - 1
      BY <1>2, <3>1 DEF D!ToSet
    <3>2. CASE i - k + 1 \in 1 .. m /\ k + (i - k + 1) - 1 = i
      <4>1. s[i] = rest[i - k + 1]
        BY <1>3, <3>2
      <4> QED
        BY <1>3, <3>2, <4>1 DEF D!ToSet
    <3> QED
      BY <1>4, <3>1, <3>2
  <2>2. \A i \in 1 .. k - 1 : front[i] \in D!ToSet(s)
    BY <1>1, <1>2, <1>4 DEF D!ToSet
  <2>3. \A i \in 1 .. m : rest[i] \in D!ToSet(s)
    BY <1>1, <1>3, <1>4 DEF D!ToSet
  <2> QED
    BY <1>1, <1>2, <1>3, <2>1, <2>2, <2>3 DEF D!ToSet
<1>6. ASSUME D!Once(s)
      PROVE  D!Once(rest) /\ D!ToSet(front) \cap D!ToSet(rest) = {}
  <2>1. \A i, j \in 1 .. n : s[i] = s[j] => i = j
    BY <1>1, <1>6 DEF D!Once
  <2>2. ASSUME NEW i \in 1 .. m, NEW j \in 1 .. m, rest[i] = rest[j]
        PROVE  i = j
    <3>1. k + i - 1 = k + j - 1
      BY <1>3, <1>4, <2>1, <2>2
    <3> QED
      BY <1>1, <3>1
  <2>3. ASSUME NEW i \in 1 .. k - 1, NEW j \in 1 .. m
        PROVE  front[i] # rest[j]
    <3>1. i # k + j - 1
      BY <1>1
    <3>2. s[i] # s[k + j - 1]
      BY <1>4, <2>1, <3>1
    <3> QED
      BY <1>2, <1>3, <3>2
  <2>4. D!Once(rest)
    BY <1>3, <2>2 DEF D!Once
  <2>5. D!ToSet(front) \cap D!ToSet(rest) = {}
    BY <1>2, <1>3, <2>3 DEF D!ToSet
  <2> QED
    BY <2>4, <2>5
<1>7. m = n - k + 1
  BY DEF m
<1> QED
  BY <1>3, <1>5, <1>6, <1>7 DEF front, rest, n

-----------------------------------------------------------------------------
(* Every login attempt is in one place.                                    *)
BatchInv ==
    /\ D!Once(batch) /\ D!Once(stored)
    /\ \A b \in puts : D!Once(b)
    /\ \A i \in 1 .. Len(failing) : D!Once(failing[i])
    /\ \A b, c \in puts : b # c => D!ToSet(b) \cap D!ToSet(c) = {}
    /\ \A i, j \in 1 .. Len(failing) : i # j => D!ToSet(failing[i]) \cap D!ToSet(failing[j]) = {}
    /\ D!ToSet(batch) \cap D!Attempts(puts) = {}
    /\ D!ToSet(batch) \cap D!Attempts(D!ToSet(failing)) = {}
    /\ D!ToSet(batch) \cap D!ToSet(stored) = {} /\ D!ToSet(batch) \cap lost = {}
    /\ D!Attempts(puts) \cap D!Attempts(D!ToSet(failing)) = {}
    /\ D!Attempts(puts) \cap D!ToSet(stored) = {} /\ D!Attempts(puts) \cap lost = {}
    /\ D!Attempts(D!ToSet(failing)) \cap D!ToSet(stored) = {}
    /\ D!Attempts(D!ToSet(failing)) \cap lost = {} /\ D!ToSet(stored) \cap lost = {}
    /\ D!ToSet(batch) \cup D!Attempts(puts) \cup D!Attempts(D!ToSet(failing))
          \cup D!ToSet(stored) \cup lost = 1 .. written
    /\ Len(batch) <= 2 * batch_size
BatchType ==
    /\ batch \in Seq(Nat) /\ puts \subseteq Seq(Nat) /\ failing \in Seq(Seq(Nat))
    /\ stored \in Seq(Nat) /\ written \in Nat
DshieldInv == plugin = "dshield" => BatchType /\ BatchInv

\* A batch that a thread gets, or gives back.
LEMMA PutsChange ==
  ASSUME NEW P, NEW b
  PROVE  /\ D!Attempts(P \cup {b}) = D!Attempts(P) \cup D!ToSet(b)
         /\ b \in P => D!Attempts(P) = D!Attempts(P \ {b}) \cup D!ToSet(b)
         /\ b \in P /\ (\A c, d \in P : c # d => D!ToSet(c) \cap D!ToSet(d) = {})
               => D!Attempts(P \ {b}) \cap D!ToSet(b) = {}
<1>1. \A x : x \in D!Attempts(P \cup {b}) <=> x \in D!Attempts(P) \/ x \in D!ToSet(b)
  BY InAttempts
<1>2. ASSUME b \in P
      PROVE  \A x : x \in D!Attempts(P) <=> x \in D!Attempts(P \ {b}) \/ x \in D!ToSet(b)
  BY <1>2, InAttempts
<1>3. ASSUME b \in P, \A c, d \in P : c # d => D!ToSet(c) \cap D!ToSet(d) = {}
      PROVE  \A x : x \in D!Attempts(P \ {b}) => x \notin D!ToSet(b)
  BY <1>3, InAttempts
<1> QED
  BY <1>1, <1>2, <1>3

\* A batch whose transmission_error is called.
LEMMA FirstFailing ==
  ASSUME NEW f \in Seq(Seq(Nat)), f # <<>>
  PROVE  LET h == Head(f)  r == Tail(f)
         IN  /\ h \in Seq(Nat) /\ r \in Seq(Seq(Nat)) /\ h = f[1] /\ 1 \in 1 .. Len(f)
             /\ Len(r) = Len(f) - 1
             /\ \A i \in 1 .. Len(r) : i + 1 \in 1 .. Len(f) /\ r[i] = f[i + 1]
             /\ D!Attempts(D!ToSet(f)) = D!Attempts(D!ToSet(r)) \cup D!ToSet(h)
             /\ (\A i, j \in 1 .. Len(f) : i # j => D!ToSet(f[i]) \cap D!ToSet(f[j]) = {})
                   => D!Attempts(D!ToSet(r)) \cap D!ToSet(h) = {}
<1> DEFINE h == Head(f)
           r == Tail(f)
           n == Len(f)
<1>1. n \in Nat /\ n > 0
  BY EmptySeq
<1>2. /\ h \in Seq(Nat) /\ h = f[1] /\ r \in Seq(Seq(Nat)) /\ Len(r) = n - 1
      /\ \A i \in 1 .. n - 1 : r[i] = f[i + 1]
  BY <1>1
<1>3. DOMAIN f = 1 .. n /\ DOMAIN r = 1 .. n - 1
  BY <1>1, <1>2
<1> HIDE DEF h, r, n
<1>4. /\ 1 \in 1 .. n
      /\ \A i \in 1 .. n - 1 : i + 1 \in 1 .. n /\ i + 1 # 1
      /\ \A i \in 1 .. n : i = 1 \/ (i - 1 \in 1 .. n - 1 /\ (i - 1) + 1 = i)
  BY <1>1
<1>5. \A b : b \in D!ToSet(f) <=> \E i \in 1 .. n : b = f[i]
  BY <1>3 DEF D!ToSet
<1>6. \A b : b \in D!ToSet(r) <=> \E i \in 1 .. n - 1 : b = f[i + 1]
  BY <1>2, <1>3 DEF D!ToSet
<1>7. \A b : b \in D!ToSet(f) <=> b \in D!ToSet(r) \/ b = h
  <2>1. ASSUME NEW b \in D!ToSet(f), b # h PROVE b \in D!ToSet(r)
    <3>1. PICK i \in 1 .. n : b = f[i]
      BY <1>5
    <3>2. i - 1 \in 1 .. n - 1 /\ (i - 1) + 1 = i
      BY <1>2, <1>4, <2>1, <3>1
    <3> QED
      BY <1>6, <3>1, <3>2
  <2> QED
    BY <1>2, <1>4, <1>5, <1>6, <2>1
<1>8. D!Attempts(D!ToSet(f)) = D!Attempts(D!ToSet(r)) \cup D!ToSet(h)
  BY <1>7, InAttempts
<1>9. ASSUME \A i, j \in 1 .. n : i # j => D!ToSet(f[i]) \cap D!ToSet(f[j]) = {}
      PROVE  D!Attempts(D!ToSet(r)) \cap D!ToSet(h) = {}
  <2>1. \A i \in 1 .. n - 1 : D!ToSet(f[i + 1]) \cap D!ToSet(f[1]) = {}
    BY <1>4, <1>9
  <2>2. \A b \in D!ToSet(r) : D!ToSet(b) \cap D!ToSet(h) = {}
    BY <1>2, <1>6, <2>1
  <2> QED
    BY <2>2, InAttempts
<1>10. \A i \in 1 .. Len(r) : i + 1 \in 1 .. n /\ r[i] = f[i + 1]
  BY <1>2, <1>4
<1> QED
  BY <1>2, <1>4, <1>8, <1>9, <1>10 DEF h, r, n
LEMMA AttemptWrites == DshieldInv /\ D!dshieldWrite => DshieldInv'
<1> SUFFICES ASSUME DshieldInv, D!dshieldWrite
             PROVE  DshieldInv'
  OBVIOUS
<1> DEFINE b == Append(batch, written + 1)
<1>1. /\ plugin = "dshield" /\ written' = written + 1 /\ D!Batched(written + 1)
      /\ UNCHANGED <<plugin, failing, stored, lost>>
  BY DEF D!dshieldWrite
<1>2. BatchType /\ BatchInv
  BY <1>1 DEF DshieldInv
<1>3. /\ batch \in Seq(Nat) /\ puts \subseteq Seq(Nat) /\ failing \in Seq(Seq(Nat))
      /\ stored \in Seq(Nat) /\ written \in Nat /\ written + 1 \in Nat
  BY <1>2 DEF BatchType
<1>4. /\ written + 1 \notin D!ToSet(batch) /\ written + 1 \notin D!Attempts(puts)
      /\ written + 1 \notin D!Attempts(D!ToSet(failing)) /\ written + 1 \notin D!ToSet(stored)
      /\ written + 1 \notin lost
  <2>1. written + 1 \notin 1 .. written
    BY <1>3
  <2> QED
    BY <1>2, <2>1 DEF BatchInv
<1>5. /\ b \in Seq(Nat) /\ Len(b) = Len(batch) + 1 /\ D!ToSet(b) = D!ToSet(batch) \cup {written + 1}
      /\ D!Once(b)
  BY <1>2, <1>3, <1>4, OnceAppended DEF BatchInv
<1>6. 1 .. written' = 1 .. written \cup {written + 1}
  BY <1>1, <1>3
<1>7. \/ Len(b) >= batch_size /\ puts' = puts \cup {b} /\ batch' = <<>>
      \/ ~(Len(b) >= batch_size) /\ puts' = puts /\ batch' = b
  BY <1>1 DEF D!Batched, D!BatchBegun
<1> HIDE DEF b
<1>8. CASE Len(b) >= batch_size /\ puts' = puts \cup {b} /\ batch' = <<>>
  <2>1. D!Attempts(puts') = D!Attempts(puts) \cup D!ToSet(b)
    BY <1>8, PutsChange
  <2>2. D!ToSet(batch') = {} /\ D!Once(batch') /\ Len(batch') = 0 /\ batch' \in Seq(Nat)
    BY <1>8 DEF D!ToSet, D!Once
  <2>3. BatchType'
    BY <1>1, <1>3, <1>5, <1>8, <2>2 DEF BatchType
  <2>4. \A c \in puts : D!ToSet(b) \cap D!ToSet(c) = {}
    <3>1. D!ToSet(b) \cap D!Attempts(puts) = {}
      BY <1>2, <1>4, <1>5 DEF BatchInv
    <3> QED
      BY <3>1, InAttempts
  <2>5. \A c, d \in puts' : c # d => D!ToSet(c) \cap D!ToSet(d) = {}
    BY <1>2, <1>8, <2>4 DEF BatchInv
  <2>6. D!ToSet(batch') \cup D!Attempts(puts') \cup D!Attempts(D!ToSet(failing'))
          \cup D!ToSet(stored') \cup lost' = 1 .. written'
    <3>1. D!ToSet(batch) \cup D!Attempts(puts) \cup D!Attempts(D!ToSet(failing))
            \cup D!ToSet(stored) \cup lost = 1 .. written
      BY <1>2 DEF BatchInv
    <3> QED
      BY <1>1, <1>5, <1>6, <2>1, <2>2, <3>1
  <2>7. /\ D!Attempts(puts') \cap D!Attempts(D!ToSet(failing')) = {}
        /\ D!Attempts(puts') \cap D!ToSet(stored') = {} /\ D!Attempts(puts') \cap lost' = {}
    BY <1>1, <1>2, <1>4, <1>5, <2>1 DEF BatchInv
  <2>8. Len(batch') <= 2 * batch_size
    BY <2>2, SizesAssumption
  <2>9. BatchInv'
    BY <1>1, <1>2, <1>5, <1>8, <2>2, <2>5, <2>6, <2>7, <2>8 DEF BatchInv
  <2> QED
    BY <2>3, <2>9 DEF DshieldInv
<1>9. CASE ~(Len(b) >= batch_size) /\ puts' = puts /\ batch' = b
  <2>1. BatchType'
    BY <1>1, <1>3, <1>5, <1>9 DEF BatchType
  <2>2. Len(batch') <= 2 * batch_size
    BY <1>3, <1>5, <1>9, SizesAssumption
  <2>3. D!ToSet(batch') \cup D!Attempts(puts') \cup D!Attempts(D!ToSet(failing'))
          \cup D!ToSet(stored') \cup lost' = 1 .. written'
    <3>1. D!ToSet(batch) \cup D!Attempts(puts) \cup D!Attempts(D!ToSet(failing))
            \cup D!ToSet(stored) \cup lost = 1 .. written
      BY <1>2 DEF BatchInv
    <3> QED
      BY <1>1, <1>5, <1>6, <1>9, <3>1
  <2>4. /\ D!ToSet(batch') \cap D!Attempts(puts') = {}
        /\ D!ToSet(batch') \cap D!Attempts(D!ToSet(failing')) = {}
        /\ D!ToSet(batch') \cap D!ToSet(stored') = {} /\ D!ToSet(batch') \cap lost' = {}
    BY <1>1, <1>2, <1>4, <1>5, <1>9 DEF BatchInv
  <2>5. BatchInv'
    BY <1>1, <1>2, <1>5, <1>9, <2>2, <2>3, <2>4 DEF BatchInv
  <2> QED
    BY <2>1, <2>5 DEF DshieldInv
<1> QED
  BY <1>7, <1>8, <1>9

LEMMA ResponseSteps ==
  ASSUME DshieldInv, NEW b \in puts, NEW answer \in {"ok", "error", "raised"},
         D!check_response(b, answer)
  PROVE  DshieldInv'
<1> SUFFICES ASSUME plugin = "dshield"
             PROVE  BatchType' /\ BatchInv'
  BY DEF DshieldInv, D!check_response
<1>1. puts' = puts \ {b} /\ UNCHANGED <<written, batch>>
  BY DEF D!check_response
<1>2. BatchType /\ BatchInv
  BY DEF DshieldInv
<1>3. /\ b \in Seq(Nat) /\ puts \subseteq Seq(Nat) /\ failing \in Seq(Seq(Nat))
      /\ stored \in Seq(Nat)
  BY <1>2 DEF BatchType
<1> DEFINE X == D!ToSet(b)
<1>4. /\ D!Attempts(puts) = D!Attempts(puts') \cup X /\ D!Attempts(puts') \cap X = {}
  BY <1>1, <1>2, PutsChange DEF BatchInv
<1>5. /\ D!Once(b) /\ X \cap D!ToSet(batch) = {} /\ X \cap D!Attempts(D!ToSet(failing)) = {}
      /\ X \cap D!ToSet(stored) = {} /\ X \cap lost = {}
  BY <1>2, <1>4 DEF BatchInv
<1> HIDE DEF X
<1>6. \A c, d \in puts' : D!Once(c) /\ (c # d => D!ToSet(c) \cap D!ToSet(d) = {})
  BY <1>1, <1>2 DEF BatchInv
<1>7. puts' \subseteq Seq(Nat) /\ batch' \in Seq(Nat) /\ written' \in Nat
  BY <1>1, <1>2 DEF BatchType
<1>8. D!ToSet(batch) \cup D!Attempts(puts') \cup X \cup D!Attempts(D!ToSet(failing))
          \cup D!ToSet(stored) \cup lost = 1 .. written
  BY <1>2, <1>4 DEF BatchInv
<1>9. CASE answer = "ok"
  <2>1. stored' = stored \o b /\ UNCHANGED <<failing, lost>>
    BY <1>9 DEF D!check_response
  <2>2. /\ stored' \in Seq(Nat) /\ D!ToSet(stored') = D!ToSet(stored) \cup X
        /\ D!Once(stored')
    BY <1>2, <1>3, <1>5, <2>1, OnceJoined DEF X, BatchInv
  <2>3. BatchType'
    BY <1>3, <1>7, <2>1, <2>2 DEF BatchType
  <2>4. D!ToSet(batch') \cup D!Attempts(puts') \cup D!Attempts(D!ToSet(failing'))
          \cup D!ToSet(stored') \cup lost' = 1 .. written'
    BY <1>1, <1>8, <2>1, <2>2
  <2>5. BatchInv'
    BY <1>1, <1>2, <1>4, <1>5, <1>6, <2>1, <2>2, <2>4 DEF BatchInv
  <2> QED
    BY <2>3, <2>5
<1>10. CASE answer = "error"
  <2>1. failing' = Append(failing, b) /\ UNCHANGED <<stored, lost>>
    BY <1>10 DEF D!check_response
  <2>2. /\ failing' \in Seq(Seq(Nat)) /\ Len(failing') = Len(failing) + 1 /\ Len(failing) \in Nat
        /\ D!ToSet(failing') = D!ToSet(failing) \cup {b}
        /\ failing'[Len(failing) + 1] = b /\ \A i \in 1 .. Len(failing) : failing'[i] = failing[i]
    <3>1. /\ failing' \in Seq(Seq(Nat)) /\ Len(failing') = Len(failing) + 1
          /\ D!ToSet(failing') = D!ToSet(failing) \cup {b}
      BY <1>3, <2>1, OnceAppended
    <3>2. /\ failing'[Len(failing) + 1] = b /\ \A i \in 1 .. Len(failing) : failing'[i] = failing[i]
      BY <1>3, <2>1, AppendProperties
    <3> QED
      BY <1>3, <3>1, <3>2
  <2>3. D!Attempts(D!ToSet(failing')) = D!Attempts(D!ToSet(failing)) \cup X
    <3>1. D!Attempts(D!ToSet(failing) \cup {b}) = D!Attempts(D!ToSet(failing)) \cup X
      BY PutsChange DEF X
    <3> QED
      BY <2>2, <3>1
  <2>4. BatchType'
    BY <1>3, <1>7, <2>1, <2>2 DEF BatchType
  <2>5. \A i \in 1 .. Len(failing) : failing[i] \in D!ToSet(failing)
    BY <1>3 DEF D!ToSet
  <2>6. \A i \in 1 .. Len(failing) : D!ToSet(failing[i]) \cap X = {}
    BY <1>5, <2>5, InAttempts
  <2>7. \A i \in 1 .. Len(failing') : i \in 1 .. Len(failing) \/ i = Len(failing) + 1
    BY <2>2
  <2>8. \A i \in 1 .. Len(failing') : D!Once(failing'[i])
    BY <1>2, <1>5, <2>2, <2>7 DEF BatchInv
  <2>9. \A i, j \in 1 .. Len(failing') : i # j => D!ToSet(failing'[i]) \cap D!ToSet(failing'[j]) = {}
    <3>1. \A i, j \in 1 .. Len(failing) : i # j => D!ToSet(failing[i]) \cap D!ToSet(failing[j]) = {}
      BY <1>2 DEF BatchInv
    <3>2. D!ToSet(failing'[Len(failing) + 1]) = X
      BY <2>2 DEF X
    <3> QED
      BY <2>2, <2>6, <2>7, <3>1, <3>2
  <2>10. D!ToSet(batch') \cup D!Attempts(puts') \cup D!Attempts(D!ToSet(failing'))
          \cup D!ToSet(stored') \cup lost' = 1 .. written'
    BY <1>1, <1>8, <2>1, <2>3
  <2>11. BatchInv'
    BY <1>1, <1>2, <1>4, <1>5, <1>6, <2>1, <2>3, <2>8, <2>9, <2>10 DEF BatchInv
  <2> QED
    BY <2>4, <2>11
<1>11. CASE answer = "raised"
  <2>1. lost' = lost \cup X /\ UNCHANGED <<failing, stored>>
    BY <1>11 DEF D!check_response, X
  <2>2. BatchType'
    BY <1>3, <1>7, <2>1 DEF BatchType
  <2>3. D!ToSet(batch') \cup D!Attempts(puts') \cup D!Attempts(D!ToSet(failing'))
          \cup D!ToSet(stored') \cup lost' = 1 .. written'
    BY <1>1, <1>8, <2>1
  <2>4. BatchInv'
    BY <1>1, <1>2, <1>4, <1>5, <1>6, <2>1, <2>3 DEF BatchInv
  <2> QED
    BY <2>2, <2>4
<1> QED
  BY <1>9, <1>10, <1>11

LEMMA ErrorSteps == DshieldInv /\ D!transmission_error => DshieldInv'
<1> SUFFICES ASSUME DshieldInv, D!transmission_error, plugin = "dshield"
             PROVE  BatchType' /\ BatchInv'
  BY DEF DshieldInv, D!transmission_error
<1> DEFINE h == Head(failing)
           all == batch \o h
           from == IF Len(all) > 2 * batch_size THEN Len(all) - batch_size + 1 ELSE 1
           front == SubSeq(all, 1, from - 1)
<1>1. /\ failing # <<>> /\ failing' = Tail(failing) /\ batch' = SubSeq(all, from, Len(all))
      /\ lost' = lost \cup D!ToSet(front) /\ UNCHANGED <<written, puts, stored>>
  BY DEF D!transmission_error
<1>2. BatchType /\ BatchInv
  BY DEF DshieldInv
<1>3. batch \in Seq(Nat) /\ failing \in Seq(Seq(Nat))
  BY <1>2 DEF BatchType
<1>4. \A i, j \in 1 .. Len(failing) : i # j => D!ToSet(failing[i]) \cap D!ToSet(failing[j]) = {}
  BY <1>2 DEF BatchInv
<1>5. /\ h \in Seq(Nat) /\ failing' \in Seq(Seq(Nat)) /\ h = failing[1] /\ 1 \in 1 .. Len(failing)
      /\ Len(failing') = Len(failing) - 1
      /\ \A i \in 1 .. Len(failing') : i + 1 \in 1 .. Len(failing) /\ failing'[i] = failing[i + 1]
      /\ D!Attempts(D!ToSet(failing)) = D!Attempts(D!ToSet(failing')) \cup D!ToSet(h)
      /\ D!Attempts(D!ToSet(failing')) \cap D!ToSet(h) = {}
  BY <1>1, <1>3, <1>4, FirstFailing
<1> HIDE DEF h
<1>6. D!ToSet(batch) \cap D!ToSet(h) = {} /\ D!Once(h) /\ D!Once(batch)
  BY <1>2, <1>5 DEF BatchInv
<1>7. /\ all \in Seq(Nat) /\ D!ToSet(all) = D!ToSet(batch) \cup D!ToSet(h) /\ D!Once(all)
  BY <1>3, <1>5, <1>6, OnceJoined
<1> HIDE DEF all
<1>8. Len(all) \in Nat /\ batch_size \in Nat
  BY <1>7, SizesAssumption
<1>9. from \in 1 .. Len(all) + 1 /\ Len(all) - from + 1 <= 2 * batch_size
  <2>1. CASE Len(all) > 2 * batch_size
    BY <1>8, <2>1
  <2>2. CASE ~(Len(all) > 2 * batch_size)
    BY <1>8, <2>2
  <2> QED
    BY <2>1, <2>2
<1> HIDE DEF from
<1>10. /\ batch' \in Seq(Nat) /\ Len(batch') = Len(all) - from + 1
       /\ D!ToSet(all) = D!ToSet(front) \cup D!ToSet(batch')
       /\ D!Once(batch') /\ D!ToSet(front) \cap D!ToSet(batch') = {}
  BY <1>1, <1>7, <1>9, OnceCut
<1> HIDE DEF front
<1>11. BatchType'
  BY <1>1, <1>2, <1>5, <1>10 DEF BatchType
<1>12. D!ToSet(batch) \cup D!ToSet(h) = D!ToSet(front) \cup D!ToSet(batch')
  BY <1>7, <1>10
<1>13. D!ToSet(batch') \cup D!Attempts(puts') \cup D!Attempts(D!ToSet(failing'))
          \cup D!ToSet(stored') \cup lost' = 1 .. written'
  <2>1. D!ToSet(batch) \cup D!Attempts(puts) \cup D!Attempts(D!ToSet(failing))
            \cup D!ToSet(stored) \cup lost = 1 .. written
    BY <1>2 DEF BatchInv
  <2> QED
    BY <1>1, <1>5, <1>12, <2>1
<1>14. /\ D!ToSet(batch') \cap D!Attempts(puts') = {}
       /\ D!ToSet(batch') \cap D!Attempts(D!ToSet(failing')) = {}
       /\ D!ToSet(batch') \cap D!ToSet(stored') = {} /\ D!ToSet(batch') \cap lost' = {}
       /\ D!Attempts(puts') \cap D!Attempts(D!ToSet(failing')) = {}
       /\ D!Attempts(puts') \cap lost' = {}
       /\ D!Attempts(D!ToSet(failing')) \cap D!ToSet(stored') = {}
       /\ D!Attempts(D!ToSet(failing')) \cap lost' = {} /\ D!ToSet(stored') \cap lost' = {}
  BY <1>1, <1>2, <1>5, <1>10, <1>12 DEF BatchInv
<1>15. \A i \in 1 .. Len(failing') : D!Once(failing'[i])
  BY <1>2, <1>5 DEF BatchInv
<1>16. \A i, j \in 1 .. Len(failing') : i # j => D!ToSet(failing'[i]) \cap D!ToSet(failing'[j]) = {}
  <2>1. \A i, j \in 1 .. Len(failing') : i + 1 = j + 1 => i = j
    OBVIOUS
  <2> QED
    BY <1>4, <1>5, <2>1
<1>17. Len(batch') <= 2 * batch_size
  BY <1>9, <1>10
<1> QED
  BY <1>1, <1>2, <1>10, <1>11, <1>13, <1>14, <1>15, <1>16, <1>17 DEF BatchInv
LEMMA DshieldSteps == DshieldInv /\ [D!DeliveryNext]_deliverVars => DshieldInv'
<1> SUFFICES ASSUME DshieldInv, [D!DeliveryNext]_deliverVars
             PROVE  DshieldInv'
  OBVIOUS
<1>1. CASE \/ UNCHANGED deliverVars \/ D!discordWrite \/ D!stop \/ D!_process_queue
           \/ \E answer \in {"ok", "limit", "error", "refused"} : D!_after_result(answer)
  <2>1. /\ UNCHANGED <<plugin, batch, puts, failing, stored, lost>>
        /\ plugin = "discord" \/ UNCHANGED written
    BY <1>1 DEF deliverVars, D!discordWrite, D!stop, D!_process_queue, D!_after_result, D!dshieldVars
  <2> QED
    BY <2>1 DEF DshieldInv, BatchType, BatchInv
<1> QED
  BY <1>1, AttemptWrites, ResponseSteps, ErrorSteps DEF D!DeliveryNext

LEMMA DshieldInvImplies == DshieldInv => D!AttemptSentOnce
<1> SUFFICES ASSUME DshieldInv, plugin = "dshield"
             PROVE  /\ D!Once(batch) /\ D!Once(stored) /\ \A b \in puts \cup D!ToSet(failing) : D!Once(b)
                    /\ \A b, c \in puts : b # c => D!ToSet(b) \cap D!ToSet(c) = {}
                    /\ \A i, j \in DOMAIN failing :
                          i # j => D!ToSet(failing[i]) \cap D!ToSet(failing[j]) = {}
                    /\ D!Apart(<<D!ToSet(batch), D!Attempts(puts), D!Attempts(D!ToSet(failing)),
                                 D!ToSet(stored), lost>>)
                    /\ D!ToSet(batch) \cup D!Attempts(puts \cup D!ToSet(failing))
                          \cup D!ToSet(stored) \cup lost = 1 .. written
                    /\ Len(batch) <= 2 * batch_size
  BY DEF D!AttemptSentOnce
<1>1. BatchType /\ BatchInv
  BY DEF DshieldInv
<1>2. DOMAIN failing = 1 .. Len(failing)
  BY <1>1 DEF BatchType
<1>3. \A b \in D!ToSet(failing) : D!Once(b)
  BY <1>1, <1>2 DEF D!ToSet, BatchInv
<1>4. D!Attempts(puts \cup D!ToSet(failing)) = D!Attempts(puts) \cup D!Attempts(D!ToSet(failing))
  BY DEF D!Attempts
<1>5. ASSUME NEW a, NEW b, NEW c, NEW d, NEW e, a \cap b = {}, a \cap c = {}, a \cap d = {},
             a \cap e = {}, b \cap c = {}, b \cap d = {}, b \cap e = {}, c \cap d = {},
             c \cap e = {}, d \cap e = {}
      PROVE  D!Apart(<<a, b, c, d, e>>)
  <2>1. DOMAIN <<a, b, c, d, e>> = {1, 2, 3, 4, 5}
    OBVIOUS
  <2> QED
    BY <1>5, <2>1 DEF D!Apart
<1>6. D!Apart(<<D!ToSet(batch), D!Attempts(puts), D!Attempts(D!ToSet(failing)), D!ToSet(stored), lost>>)
  BY <1>1, <1>5 DEF BatchInv
<1> QED
  BY <1>1, <1>2, <1>3, <1>4, <1>6 DEF BatchInv

\* For any number of events, of retries and any size of the batches, whatever
\* the answers and timers: Discord's events and DShield's login attempts are
\* each in one place, sent again only when the server did not take them, and
\* Discord's queue never stands (_process_queue, _after_result and
\* _after_error of discord.py, write and transmission_error of dshield.py).
THEOREM DeliveredAreOnce == MCSpec => []DeliveredOnce
<1> DEFINE Inv == part = "deliver" => DiscordInv /\ DshieldInv
<1>1. MCInit => Inv
  <2> SUFFICES ASSUME D!DeliveryInit
               PROVE  DiscordInv /\ DshieldInv
    BY DEF MCInit
  <2>1. /\ written = 0 /\ queue = <<>> /\ flight = <<>> /\ sending = FALSE /\ scheduled = 0
        /\ delivered = <<>> /\ given_up = {} /\ batch = <<>> /\ puts = {} /\ failing = <<>>
        /\ stored = <<>> /\ lost = {}
    BY DEF D!DeliveryInit
  <2>2. /\ delivered \in Seq(Nat) /\ flight \in Seq(Entry) /\ queue \in Seq(Entry)
        /\ batch \in Seq(Nat) /\ puts \subseteq Seq(Nat) /\ failing \in Seq(Seq(Nat))
        /\ stored \in Seq(Nat)
    BY <2>1, EmptySeq
  <2>3. /\ Len(<<>>) = 0 /\ D!ToSet(<<>>) = {} /\ D!Once(<<>>) /\ Ev(<<>>) = {} /\ EvOnce(<<>>)
        /\ 1 .. 0 = {} /\ D!Attempts({}) = {}
    BY DEF D!ToSet, D!Once, Ev, EvOnce, D!Attempts
  <2>4. DiscordInv
    <3>1. DiscordType
      BY <2>1, <2>2 DEF DiscordType
    <3>2. QueueInv
      BY <2>1, <2>3 DEF QueueInv
    <3> QED
      BY <3>1, <3>2 DEF DiscordInv
  <2>5. DshieldInv
    <3>1. BatchType
      BY <2>1, <2>2 DEF BatchType
    <3>2. BatchInv
      BY <2>1, <2>3, SizesAssumption DEF BatchInv
    <3> QED
      BY <3>1, <3>2 DEF DshieldInv
  <2> QED
    BY <2>4, <2>5
<1>2. Inv /\ [MCNext]_<<part, sessionVars, abuseVars, deliverVars, sqlVars, virustotalVars>> => Inv'
  <2> SUFFICES ASSUME Inv, part' = "deliver",
                      [MCNext]_<<part, sessionVars, abuseVars, deliverVars, sqlVars, virustotalVars>>
               PROVE  DiscordInv' /\ DshieldInv'
    OBVIOUS
  <2>1. part = "deliver" /\ [D!DeliveryNext]_deliverVars
    BY DEF MCNext
  <2> QED
    BY <2>1, DiscordSteps, DshieldSteps
<1>3. Inv => DeliveredOnce
  BY DiscordInvImplies, DshieldInvImplies DEF DeliveredOnce
<1> QED
  BY <1>1, <1>2, <1>3, PTL DEF MCSpec
-----------------------------------------------------------------------------
(* AbuseIpdb: the log book through clean-ups, sleep and restarts           *)

\* Logins are noted in the order they come in.
RisingTo(s, t) ==
    /\ s \in Seq(Nat)
    /\ \A k, l \in 1 .. Len(s) : k <= l => s[k] <= s[l]
    /\ \A k \in 1 .. Len(s) : s[k] <= t
BookEntry == [reported : BOOLEAN, times : Seq(Nat)]
GoodEntry(e, t) == e \in BookEntry /\ RisingTo(e.times, t) /\ (e.reported => Len(e.times) = 1)
GoodBook(book, t) == \A i \in DOMAIN book : GoodEntry(book[i], t)
Report == [ip : Ips, at : Nat, logins : Seq(Nat), need : Nat]

\* What keeps a source from being reported again: it is in the book as
\* reported, or it is due, now or when the plugin wakes.
Held(book, r) == r.ip \in DOMAIN book /\ book[r.ip].reported /\ book[r.ip].times[1] >= r.at
Passed(r, t) == t > r.at + rereport_after
Watched(r) == Held(logbook, r) \/ Passed(r, now) \/ (sleeping /\ Passed(r, sleep_until))
AllWatched == \A k \in 1 .. Len(reports) : Watched(reports[k])

\* A clean-up that was cancelled has dumped the book that is slept on.
AbuseType ==
    /\ now \in Nat /\ tolerance_attempts \in Tolerances /\ sleeping \in BOOLEAN
    /\ sleep_until \in Nat /\ overslept \in BOOLEAN
    /\ GoodBook(logbook, now) /\ GoodBook(file.book, now)
    /\ file.sleeping \in BOOLEAN /\ file.sleep_until \in Nat
    /\ reports \in Seq(Report) /\ \A k \in 1 .. Len(reports) : reports[k].at <= now
Grounded(r) == Len(r.logins) >= r.need /\ \A x \in A!ToSet(r.logins) : x + tolerance_window >= r.at
Spaced == \A k, l \in 1 .. Len(reports) :
    k < l /\ reports[k].ip = reports[l].ip => reports[l].at > reports[k].at + rereport_after
Asleep ==
    /\ wakeups = IF sleeping THEN {sleep_until} ELSE {}
    /\ recall = "cancelled" =>
          sleeping /\ file.book = logbook /\ file.sleeping /\ file.sleep_until = sleep_until
AbuseInv ==
    /\ AbuseType
    /\ \A k \in 1 .. Len(reports) : Grounded(reports[k])
    /\ ~overslept => Asleep /\ Spaced /\ AllWatched

LEMMA SmallestOf ==
  ASSUME NEW live, live \subseteq Nat, live # {}
  PROVE  A!Min(live) \in live /\ \A k \in live : A!Min(live) <= k
<1> DEFINE R == OpToRel(<, Nat)
<1>1. \A x, y \in Nat : x < y => <<x, y>> \in R
  BY DEF OpToRel
<1>2. IsWellFoundedOn(R, Nat)
  BY NatLessThanWellFounded
<1> HIDE DEF R
<1>3. PICK x \in live : \A y \in live : ~(<<y, x>> \in R)
  BY <1>2, WFMin
<1>4. ASSUME NEW y \in live PROVE x <= y
  <2>1. x \in Nat /\ y \in Nat /\ ~(y < x)
    BY <1>1, <1>3
  <2> QED
    BY <2>1
<1> QED
  BY <1>4 DEF A!Min

LEMMA RestRises ==
  ASSUME NEW t \in Nat, NEW s, RisingTo(s, t), NEW k \in 1 .. Len(s) + 1
  PROVE  LET r == SubSeq(s, k, Len(s))
         IN  /\ RisingTo(r, t) /\ Len(r) = Len(s) - k + 1
             /\ \A i \in 1 .. Len(r) : r[i] = s[k + i - 1] /\ k + i - 1 \in 1 .. Len(s) /\ k + i - 1 >= k
<1> DEFINE r == SubSeq(s, k, Len(s))
           n == Len(s)
           m == n - k + 1
<1>1. s \in Seq(Nat) /\ n \in Nat /\ k \in Nat /\ k >= 1 /\ k <= n + 1 /\ m \in Nat
  BY DEF RisingTo
<1>2. r \in Seq(Nat) /\ Len(r) = m /\ \A i \in 1 .. m : r[i] = s[k + i - 1]
  BY <1>1
<1> HIDE DEF r, n
<1>3. \A i \in 1 .. m : k + i - 1 \in 1 .. n /\ k + i - 1 >= k
  BY <1>1
<1>4. \A i, j \in 1 .. m : i <= j => k + i - 1 <= k + j - 1
  BY <1>1
<1> HIDE DEF m
<1>5. RisingTo(r, t)
  BY <1>2, <1>3, <1>4 DEF RisingTo, n
<1> QED
  BY <1>2, <1>3, <1>5 DEF r, n, m

LEMMA CleanedEntry ==
  ASSUME NEW t0 \in Nat, NEW t \in Nat, NEW e, GoodEntry(e, t0)
  PROVE  LET c == A!clean_expired_timestamps(e, t)
         IN  /\ GoodEntry(c, t0) /\ c.reported = e.reported
             /\ e.reported => c = e
             /\ ~e.reported => \A k \in 1 .. Len(c.times) : c.times[k] + tolerance_window >= t
<1> DEFINE c == A!clean_expired_timestamps(e, t)
           live == {k \in DOMAIN e.times : e.times[k] + tolerance_window >= t}
<1>1. e \in BookEntry /\ RisingTo(e.times, t0) /\ e.times \in Seq(Nat)
  BY DEF GoodEntry, RisingTo
<1>2. CASE e.reported
  BY <1>2 DEF A!clean_expired_timestamps
<1>3. CASE ~e.reported
  <2>1. c = [e EXCEPT !.times = IF live = {} THEN <<>> ELSE SubSeq(e.times, A!Min(live), Len(e.times))]
    BY <1>3 DEF A!clean_expired_timestamps
  <2>2. live \subseteq Nat
    BY <1>1
  <2> HIDE DEF c
  <2>3. CASE live = {}
    <3>1. c = [e EXCEPT !.times = <<>>]
      BY <2>1, <2>3
    <3>2. c \in BookEntry /\ c.times = <<>> /\ c.reported = e.reported
      BY <1>1, <3>1, EmptySeq DEF BookEntry
    <3>3. RisingTo(<<>>, t0) /\ Len(<<>>) = 0
      BY EmptySeq DEF RisingTo
    <3> QED
      BY <1>3, <3>2, <3>3 DEF GoodEntry, c
  <2>4. CASE live # {}
    <3> DEFINE from == A!Min(live)
               r == SubSeq(e.times, from, Len(e.times))
    <3>1. from \in DOMAIN e.times /\ e.times[from] + tolerance_window >= t
      BY <2>2, <2>4, SmallestOf
    <3> HIDE DEF from
    <3>2. from \in 1 .. Len(e.times) /\ from \in 1 .. Len(e.times) + 1 /\ from \in Nat
      BY <1>1, <3>1
    <3>3. /\ RisingTo(r, t0)
          /\ \A i \in 1 .. Len(r) : r[i] = e.times[from + i - 1] /\ from + i - 1 \in 1 .. Len(e.times)
                                    /\ from + i - 1 >= from
      BY <1>1, <3>2, RestRises
    <3>4. c = [e EXCEPT !.times = r]
      BY <2>1, <2>4 DEF from
    <3> HIDE DEF r, live
    <3>5. r \in Seq(Nat)
      BY <3>3 DEF RisingTo
    <3>6. c \in BookEntry /\ c.times = r /\ c.reported = e.reported
      BY <1>1, <3>4, <3>5 DEF BookEntry
    <3>7. ASSUME NEW i \in 1 .. Len(r) PROVE r[i] + tolerance_window >= t
      <4>1. e.times[from] <= r[i]
        BY <1>1, <3>2, <3>3 DEF RisingTo
      <4>2. e.times[from] \in Nat /\ r[i] \in Nat
        <5> DEFINE s == e.times
        <5>1. s \in Seq(Nat)
          BY <1>1
        <5> HIDE DEF s
        <5>2. \A j \in 1 .. Len(s) : s[j] \in Nat
          BY <5>1
        <5> QED
          BY <3>2, <3>3, <5>2 DEF s
      <4> QED
        BY <3>1, <4>1, <4>2, TimesAssumption
    <3> QED
      BY <1>3, <3>3, <3>6, <3>7 DEF GoodEntry, c
  <2> QED
    BY <2>3, <2>4
<1> QED
  BY <1>2, <1>3

\* The newest of the logins are a rest of them.
LEMMA NewestRises ==
  ASSUME NEW t \in Nat, NEW s, RisingTo(s, t), NEW n \in Nat \ {0}
  PROVE  RisingTo(A!Newest(n, s), t)
<1> DEFINE k == IF Len(s) > n THEN Len(s) - n + 1 ELSE 1
<1>1. Len(s) \in Nat
  BY DEF RisingTo
<1>2. k \in 1 .. Len(s) + 1
  BY <1>1
<1>3. A!Newest(n, s) = SubSeq(s, k, Len(s))
  BY DEF A!Newest
<1> HIDE DEF k
<1> QED
  BY <1>2, <1>3, RestRises

LEMMA OneIsSome ==
  ASSUME NEW s \in Seq(Nat), Len(s) = 1
  PROVE  s # <<>> /\ s[1] \in Nat
<1>1. 1 \in 1 .. Len(s)
  OBVIOUS
<1>2. s[1] \in Nat
  BY <1>1, ElementOfSeq
<1>3. s # <<>>
  <2>1. Len(s) # Len(<<>>)
    BY EmptySeq
  <2> QED
    BY <2>1, Zenon
<1> QED
  BY <1>2, <1>3

\* What is reported again was due.
LEMMA MayRereport ==
  ASSUME NEW t0 \in Nat, NEW t \in Nat, NEW n, NEW e, GoodEntry(e, t0), e.reported,
         A!can_rereport(e, t, n), NEW r \in Report, e.times[1] >= r.at
  PROVE  Passed(r, t)
<1> DEFINE s == e.times
<1>1. s \in Seq(Nat) /\ Len(s) = 1
  BY DEF GoodEntry, RisingTo
<1>2. t > s[1] + rereport_after
  BY DEF A!can_rereport
<1>3. s[1] >= r.at /\ r.at \in Nat
  BY DEF Report
<1> HIDE DEF s
<1>4. s[1] \in Nat
  BY <1>1, OneIsSome
<1> QED
  BY <1>2, <1>3, <1>4, TimesAssumption DEF Passed

LEMMA CleanedBooks ==
  ASSUME NEW t0 \in Nat, NEW t \in Nat, NEW book, GoodBook(book, t0), NEW n \in Nat
  PROVE  /\ GoodBook(A!CleanedBook(book, t, n), t0)
         /\ \A r \in Report :
               Held(book, r) => Held(A!CleanedBook(book, t, n), r) \/ Passed(r, t)
<1> DEFINE c == A!CleanedBook(book, t, n)
           kept == {i \in DOMAIN book : /\ ~A!can_rereport(book[i], t, n)
                                        /\ A!clean_expired_timestamps(book[i], t).times # <<>>}
<1>1. DOMAIN c = kept /\ \A i \in kept : c[i] = A!clean_expired_timestamps(book[i], t)
  BY DEF A!CleanedBook
<1> HIDE DEF c
<1>2. GoodBook(c, t0)
  <2> SUFFICES ASSUME NEW i \in kept
               PROVE  GoodEntry(A!clean_expired_timestamps(book[i], t), t0)
    BY <1>1 DEF GoodBook
  <2>1. GoodEntry(book[i], t0)
    BY DEF GoodBook
  <2> QED
    BY <2>1, CleanedEntry
<1>3. ASSUME NEW r \in Report, Held(book, r)
      PROVE  Held(c, r) \/ Passed(r, t)
  <2> DEFINE e == book[r.ip]
  <2>1. /\ r.ip \in DOMAIN book /\ e.reported /\ e.times[1] >= r.at /\ GoodEntry(e, t0)
    BY <1>3 DEF Held, GoodBook
  <2>2. /\ A!clean_expired_timestamps(e, t) = e
    BY <2>1, CleanedEntry
  <2> HIDE DEF e
  <2>3. e.times \in Seq(Nat) /\ Len(e.times) = 1
    BY <2>1 DEF GoodEntry, RisingTo
  <2>4. e.times # <<>>
    BY <2>3, OneIsSome
  <2>5. CASE A!can_rereport(e, t, n)
    BY <2>1, <2>5, MayRereport
  <2>6. CASE ~A!can_rereport(e, t, n)
    <3>1. r.ip \in kept
      BY <2>1, <2>2, <2>4, <2>6 DEF e
    <3>2. c[r.ip] = e
      BY <1>1, <2>2, <3>1 DEF e
    <3> QED
      BY <1>1, <2>1, <3>1, <3>2 DEF Held
  <2> QED
    BY <2>5, <2>6
<1> QED
  BY <1>2, <1>3 DEF c

LEMMA ResizedBooks ==
  ASSUME NEW t \in Nat, NEW book, GoodBook(book, t), NEW n \in Nat
  PROVE  /\ GoodBook(A!Resized(book, n), t)
         /\ \A r \in Report : Held(book, r) => Held(A!Resized(book, n), r)
<1> DEFINE c == A!Resized(book, n)
           size == IF n > 1 THEN n ELSE 1
<1>1. /\ DOMAIN c = DOMAIN book
      /\ \A i \in DOMAIN book : c[i] = IF book[i].reported THEN book[i]
                                       ELSE [reported |-> FALSE, times |-> A!Newest(size, book[i].times)]
  BY DEF A!Resized, A!Seen
<1> HIDE DEF c
<1>2. size \in Nat \ {0}
  OBVIOUS
<1> HIDE DEF size
<1>3. ASSUME NEW i \in DOMAIN book PROVE GoodEntry(c[i], t)
  <2>1. GoodEntry(book[i], t)
    BY DEF GoodBook
  <2>2. CASE book[i].reported
    BY <1>1, <2>1, <2>2
  <2>3. CASE ~book[i].reported
    <3> DEFINE s == A!Newest(size, book[i].times)
    <3>1. RisingTo(s, t)
      BY <1>2, <2>1, NewestRises DEF GoodEntry
    <3>2. c[i] = [reported |-> FALSE, times |-> s]
      BY <1>1, <2>3
    <3> HIDE DEF s
    <3>3. s \in Seq(Nat)
      BY <3>1 DEF RisingTo
    <3>4. c[i] \in BookEntry /\ c[i].times = s /\ ~c[i].reported
      BY <3>2, <3>3 DEF BookEntry
    <3> QED
      BY <3>1, <3>4 DEF GoodEntry
  <2> QED
    BY <2>2, <2>3
<1>4. GoodBook(c, t)
  BY <1>1, <1>3 DEF GoodBook
<1>5. \A r \in Report : Held(book, r) => Held(c, r)
  BY <1>1 DEF Held
<1> QED
  BY <1>4, <1>5 DEF c

\* A source is written into the book, the others stay as they are.
LEMMA SetBook ==
  ASSUME NEW t \in Nat, NEW book, GoodBook(book, t), NEW i, NEW e, GoodEntry(e, t)
  PROVE  /\ GoodBook(A!Set(book, i, e), t)
         /\ \A r \in Report : Held(book, r) /\ r.ip # i => Held(A!Set(book, i, e), r)
         /\ i \in DOMAIN A!Set(book, i, e) /\ A!Set(book, i, e)[i] = e
BY DEF A!Set, GoodBook, Held

\* A report of a source that was due: it is in the book, and everything else
\* is as it was.
LEMMA ReportSteps ==
  ASSUME AbuseInv, ~sleeping, NEW i \in Ips, NEW logins, RisingTo(logins, now),
         Len(logins) >= A!MaxLen,
         \A x \in A!ToSet(logins) : x + tolerance_window >= now,
         \A r \in Report : Held(logbook, r) /\ r.ip = i => Passed(r, now),
         A!Report(i, logins),
         UNCHANGED <<now, tolerance_attempts, sleeping, sleep_until, wakeups, recall, file, overslept>>
  PROVE  AbuseInv' 
<1> DEFINE r == [ip |-> i, at |-> now, logins |-> logins, need |-> A!MaxLen]
           e == [reported |-> TRUE, times |-> <<now>>]
<1>1. AbuseType /\ \A k \in 1 .. Len(reports) : Grounded(reports[k])
  BY DEF AbuseInv
<1>2. logbook' = A!Set(logbook, i, e) /\ reports' = Append(reports, r)
  BY DEF A!Report, A!Reported
<1>3. /\ now \in Nat /\ reports \in Seq(Report) /\ GoodBook(logbook, now)
      /\ \A k \in 1 .. Len(reports) : reports[k].at <= now
  BY <1>1 DEF AbuseType
<1>4. r \in Report /\ r.ip = i /\ r.at = now
  <2>1. A!MaxLen \in Nat
    BY <1>1, TimesAssumption DEF AbuseType, A!MaxLen
  <2> QED
    BY <1>3, <2>1 DEF RisingTo, Report
<1>5. GoodEntry(e, now) /\ e.reported /\ e.times[1] = now
  BY <1>3 DEF GoodEntry, BookEntry, RisingTo
<1>6. Grounded(r)
  BY DEF Grounded
<1> HIDE DEF r, e
<1>7. /\ reports' \in Seq(Report) /\ Len(reports') = Len(reports) + 1 /\ Len(reports) \in Nat
      /\ reports'[Len(reports) + 1] = r /\ \A k \in 1 .. Len(reports) : reports'[k] = reports[k]
  BY <1>2, <1>3, <1>4, AppendProperties
<1>8. /\ GoodBook(logbook', now)
      /\ \A x \in Report : Held(logbook, x) /\ x.ip # i => Held(logbook', x)
      /\ i \in DOMAIN logbook' /\ logbook'[i] = e
  BY <1>2, <1>3, <1>5, SetBook
<1>9. \A k \in 1 .. Len(reports') : k \in 1 .. Len(reports) \/ k = Len(reports) + 1
  BY <1>7
<1>10. AbuseType'
  BY <1>1, <1>3, <1>4, <1>7, <1>8, <1>9 DEF AbuseType
<1>11. \A k \in 1 .. Len(reports') : Grounded(reports'[k])
  BY <1>1, <1>6, <1>7, <1>9
<1>12. ASSUME ~overslept
       PROVE  Asleep' /\ Spaced' /\ AllWatched'
  <2>1. Asleep /\ Spaced /\ \A k \in 1 .. Len(reports) : Watched(reports[k])
    BY <1>12 DEF AbuseInv, AllWatched
  <2>2. Asleep'
    BY <2>1 DEF Asleep
  <2>3. \A k \in 1 .. Len(reports) : reports[k] \in Report
    BY <1>3
  <2>4. \A k \in 1 .. Len(reports) : reports[k].ip = i => Passed(reports[k], now)
    BY <2>1, <2>3 DEF Watched
  <2>5. Spaced'
    <3>1. \A k \in 1 .. Len(reports) : reports[k].ip = r.ip => r.at > reports[k].at + rereport_after
      BY <1>4, <2>4 DEF Passed
    <3>2. \A k, l \in 1 .. Len(reports) + 1 : k < l =>
             k \in 1 .. Len(reports) /\ (l \in 1 .. Len(reports) \/ l = Len(reports) + 1)
      BY <1>7
    <3> QED
      BY <1>7, <2>1, <3>1, <3>2 DEF Spaced
  <2>6. ASSUME NEW k \in 1 .. Len(reports')
        PROVE  Held(logbook', reports'[k]) \/ Passed(reports'[k], now')
    <3>1. CASE reports'[k].ip = i
      <4>1. reports'[k].at <= now
        BY <1>3, <1>4, <1>7, <1>9
      <4>2. Held(logbook', reports'[k])
        BY <1>5, <1>8, <3>1, <4>1 DEF Held
      <4> QED
        BY <4>2
    <3>2. CASE reports'[k].ip # i
      <4>1. k \in 1 .. Len(reports) /\ reports'[k] = reports[k]
        BY <1>4, <1>7, <1>9, <3>2
      <4>2. Held(logbook, reports[k]) \/ Passed(reports[k], now)
        BY <2>1, <4>1 DEF Watched
      <4> QED
        BY <1>8, <2>3, <3>2, <4>1, <4>2
    <3> QED
      BY <3>1, <3>2
  <2> QED
    BY <2>2, <2>5, <2>6 DEF AllWatched, Watched
<1> QED
  BY <1>10, <1>11, <1>12 DEF AbuseInv

\* A login that is only noted, of a source that is not held.
LEMMA NoteSteps ==
  ASSUME AbuseInv, ~sleeping, NEW i \in Ips, NEW e, GoodEntry(e, now),
         \A r \in Report : Held(logbook, r) /\ r.ip = i => Passed(r, now),
         A!Note(i, e),
         UNCHANGED <<now, tolerance_attempts, sleeping, sleep_until, wakeups, recall, file, overslept>>
  PROVE  AbuseInv'
<1>1. logbook' = A!Set(logbook, i, e) /\ reports' = reports
  BY DEF A!Note
<1>2. AbuseType /\ \A k \in 1 .. Len(reports) : Grounded(reports[k])
  BY DEF AbuseInv
<1>3. now \in Nat /\ reports \in Seq(Report) /\ GoodBook(logbook, now)
  BY <1>2 DEF AbuseType
<1>4. /\ GoodBook(logbook', now)
      /\ \A x \in Report : Held(logbook, x) /\ x.ip # i => Held(logbook', x)
  BY <1>1, <1>3, SetBook
<1>5. AbuseType' /\ \A k \in 1 .. Len(reports') : Grounded(reports'[k])
  BY <1>1, <1>2, <1>4 DEF AbuseType
<1>6. ASSUME ~overslept
      PROVE  Asleep' /\ Spaced' /\ AllWatched'
  <2>1. Asleep /\ Spaced /\ \A k \in 1 .. Len(reports) : Watched(reports[k])
    BY <1>6 DEF AbuseInv, AllWatched
  <2>2. Asleep' /\ Spaced'
    BY <1>1, <2>1 DEF Asleep, Spaced
  <2>3. ASSUME NEW k \in 1 .. Len(reports)
        PROVE  Held(logbook', reports[k]) \/ Passed(reports[k], now')
    <3>1. reports[k] \in Report /\ (Held(logbook, reports[k]) \/ Passed(reports[k], now))
      BY <1>3, <2>1 DEF Watched
    <3> QED
      BY <1>4, <3>1
  <2> QED
    BY <1>1, <2>2, <2>3 DEF AllWatched, Watched
<1> QED
  BY <1>5, <1>6 DEF AbuseInv

LEMMA QuietSteps ==
  AbuseInv /\ UNCHANGED <<now, tolerance_attempts, logbook, sleeping, sleep_until, wakeups, recall,
                          file, reports, overslept>> => AbuseInv'
BY DEF AbuseInv, AbuseType, Asleep, Spaced, AllWatched, Watched, Held

LEMMA AppendRises ==
  ASSUME NEW t \in Nat, NEW s, RisingTo(s, t)
  PROVE  RisingTo(Append(s, t), t) /\ RisingTo(<<t>>, t) /\ Append(s, t) # <<>>
<1> DEFINE r == Append(s, t)
<1>1. s \in Seq(Nat)
  BY DEF RisingTo
<1>2. /\ r \in Seq(Nat) /\ Len(r) = Len(s) + 1 /\ Len(s) \in Nat /\ r[Len(s) + 1] = t
      /\ \A i \in 1 .. Len(s) : r[i] = s[i]
  BY <1>1, AppendProperties
<1>3. r # <<>>
  BY <1>1, AppendProperties
<1> HIDE DEF r
<1>4. \A i \in 1 .. Len(r) : i \in 1 .. Len(s) \/ i = Len(s) + 1
  BY <1>2
<1>5. RisingTo(r, t)
  <2>1. /\ \A k, l \in 1 .. Len(s) : k <= l => s[k] <= s[l]
        /\ \A k \in 1 .. Len(s) : s[k] <= t
    BY DEF RisingTo
  <2>2. \A k \in 1 .. Len(r) : r[k] <= t
    BY <1>2, <1>4, <2>1
  <2>3. ASSUME NEW k \in 1 .. Len(r), NEW l \in 1 .. Len(r), k <= l
        PROVE  r[k] <= r[l]
    <3>1. CASE l = Len(s) + 1
      BY <1>2, <2>2, <3>1
    <3>2. CASE l # Len(s) + 1
      <4>1. l \in 1 .. Len(s) /\ k \in 1 .. Len(s)
        BY <1>2, <2>3, <3>2
      <4> QED
        BY <1>2, <2>1, <2>3, <4>1
    <3> QED
      BY <3>1, <3>2
  <2> QED
    BY <1>2, <2>2, <2>3 DEF RisingTo
<1>6. RisingTo(<<t>>, t)
  BY DEF RisingTo
<1> QED
  BY <1>3, <1>5, <1>6 DEF r

LEMMA LoginSteps ==
  ASSUME AbuseInv, NEW i \in Ips, A!write(i)
  PROVE  AbuseInv'
<1>1. /\ ~sleeping
      /\ UNCHANGED <<now, tolerance_attempts, sleeping, sleep_until, wakeups, recall, file, overslept>>
  BY DEF A!write
<1>2. AbuseType
  BY DEF AbuseInv
<1>3. now \in Nat /\ tolerance_attempts \in Nat /\ GoodBook(logbook, now)
  BY <1>2, TimesAssumption DEF AbuseType
<1> DEFINE e == logbook[i]
<1>4. i \in DOMAIN logbook => GoodEntry(e, now)
  BY <1>3 DEF GoodBook
<1>5. RisingTo(<<now>>, now)
  BY <1>3, AppendRises, EmptySeq DEF RisingTo
<1>6. GoodEntry(A!Seen(<<now>>), now)
  BY <1>3, <1>5 DEF GoodEntry, A!Seen, BookEntry
<1>7. ASSUME i \notin DOMAIN logbook \/ ~e.reported \/ A!can_rereport(e, now, tolerance_attempts)
      PROVE  \A r \in Report : Held(logbook, r) /\ r.ip = i => Passed(r, now)
  BY <1>3, <1>4, <1>7, MayRereport DEF Held
<1>8. CASE tolerance_attempts <= 1
  <2>1. A!intolerant_observer(i)
    BY <1>8 DEF A!write
  <2>2. CASE i \notin DOMAIN logbook \/ A!can_rereport(e, now, tolerance_attempts)
    <3>1. A!Report(i, <<now>>)
      BY <2>1, <2>2 DEF A!intolerant_observer
    <3>2. Len(<<now>>) >= A!MaxLen
      BY <1>3, <1>8 DEF A!MaxLen
    <3>3. \A x \in A!ToSet(<<now>>) : x + tolerance_window >= now
      BY <1>3, TimesAssumption DEF A!ToSet
    <3>4. \A r \in Report : Held(logbook, r) /\ r.ip = i => Passed(r, now)
      BY <1>7, <2>2
    <3> QED
      BY <1>1, <1>5, <3>1, <3>2, <3>3, <3>4, ReportSteps
  <2>3. CASE ~(i \notin DOMAIN logbook \/ A!can_rereport(e, now, tolerance_attempts))
    <3>1. UNCHANGED <<logbook, reports>>
      BY <2>1, <2>3 DEF A!intolerant_observer
    <3> QED
      BY <1>1, <3>1, QuietSteps
  <2> QED
    BY <2>2, <2>3
<1>9. CASE ~(tolerance_attempts <= 1)
  <2>1. A!tolerant_observer(i)
    BY <1>9 DEF A!write
  <2>2. CASE i \notin DOMAIN logbook \/ (~e.reported /\ e.times = <<>>)
    <3>1. A!Note(i, A!Seen(<<now>>))
      BY <2>1, <2>2 DEF A!tolerant_observer
    <3> QED
      BY <1>1, <1>6, <1>7, <2>2, <3>1, NoteSteps
  <2>3. CASE i \in DOMAIN logbook /\ ~e.reported /\ e.times # <<>>
    <3> DEFINE s == A!Newest(A!MaxLen, Append(e.times, now))
               more == A!clean_expired_timestamps(A!Seen(s), now)
    <3>1. IF Len(more.times) >= tolerance_attempts THEN A!Report(i, more.times) ELSE A!Note(i, more)
      BY <2>1, <2>3 DEF A!tolerant_observer
    <3>2. A!MaxLen = tolerance_attempts /\ A!MaxLen \in Nat \ {0}
      BY <1>3, <1>9 DEF A!MaxLen
    <3>3. RisingTo(s, now)
      BY <1>3, <1>4, <2>3, <3>2, AppendRises, NewestRises DEF GoodEntry
    <3> HIDE DEF s
    <3>4. GoodEntry(A!Seen(s), now) /\ ~A!Seen(s).reported
      <4>1. s \in Seq(Nat)
        BY <3>3 DEF RisingTo
      <4> QED
        BY <3>3, <4>1 DEF GoodEntry, A!Seen, BookEntry
    <3>5. GoodEntry(more, now) /\ \A k \in 1 .. Len(more.times) : more.times[k] + tolerance_window >= now
      BY <1>3, <3>4, CleanedEntry
    <3> HIDE DEF more
    <3>6. RisingTo(more.times, now) /\ more.times \in Seq(Nat)
      BY <3>5 DEF GoodEntry, RisingTo
    <3>7. \A x \in A!ToSet(more.times) : x + tolerance_window >= now
      BY <3>5, <3>6 DEF A!ToSet
    <3>8. \A r \in Report : Held(logbook, r) /\ r.ip = i => Passed(r, now)
      BY <1>7, <2>3
    <3>9. CASE Len(more.times) >= tolerance_attempts
      BY <1>1, <3>1, <3>2, <3>6, <3>7, <3>8, <3>9, ReportSteps
    <3>10. CASE ~(Len(more.times) >= tolerance_attempts)
      BY <1>1, <3>1, <3>5, <3>8, <3>10, NoteSteps
    <3> QED
      BY <3>9, <3>10
  <2>4. CASE i \in DOMAIN logbook /\ e.reported
    <3>1. CASE A!can_rereport(e, now, tolerance_attempts)
      <4>1. A!Note(i, A!Seen(<<now>>))
        BY <2>1, <2>4, <3>1 DEF A!tolerant_observer
      <4> QED
        BY <1>1, <1>6, <1>7, <3>1, <4>1, NoteSteps
    <3>2. CASE ~A!can_rereport(e, now, tolerance_attempts)
      <4>1. UNCHANGED <<logbook, reports>>
        BY <2>1, <2>4, <3>2 DEF A!tolerant_observer
      <4> QED
        BY <1>1, <4>1, QuietSteps
    <3> QED
      BY <3>1, <3>2
  <2> QED
    BY <2>2, <2>3, <2>4
<1> QED
  BY <1>8, <1>9

\* A clean-up for a time forgets only what is due at that time.
LEMMA BookCleaned ==
  ASSUME AbuseInv, NEW t \in Nat, NEW n \in Nat
  PROVE  /\ GoodBook(A!CleanedBook(logbook, t, n), now)
         /\ \A k \in 1 .. Len(reports) :
               Held(logbook, reports[k])
                  => Held(A!CleanedBook(logbook, t, n), reports[k]) \/ Passed(reports[k], t)
<1>1. /\ now \in Nat /\ GoodBook(logbook, now)
      /\ \A k \in 1 .. Len(reports) : reports[k] \in Report
  BY DEF AbuseInv, AbuseType
<1> QED
  BY <1>1, CleanedBooks

LEMMA CleanupSteps == AbuseInv /\ A!cleanup_and_dump_state => AbuseInv'
<1> SUFFICES ASSUME AbuseInv, A!cleanup_and_dump_state
             PROVE  AbuseInv'
  OBVIOUS
<1> DEFINE t == IF sleeping THEN sleep_until ELSE now
<1>1. /\ logbook' = A!CleanedBook(logbook, t, tolerance_attempts)
      /\ file' = A!Dump(logbook', sleeping, sleep_until, tolerance_attempts)
      /\ recall' = (IF sleeping THEN "cancelled" ELSE "scheduled")
      /\ UNCHANGED <<now, tolerance_attempts, sleeping, sleep_until, wakeups, reports, overslept>>
  BY DEF A!cleanup_and_dump_state
<1>2. AbuseType /\ \A k \in 1 .. Len(reports) : Grounded(reports[k])
  BY DEF AbuseInv
<1>3. t \in Nat /\ tolerance_attempts \in Nat
  BY <1>2, TimesAssumption DEF AbuseType
<1>4. /\ GoodBook(logbook', now)
      /\ \A k \in 1 .. Len(reports) :
            Held(logbook, reports[k]) => Held(logbook', reports[k]) \/ Passed(reports[k], t)
  BY <1>1, <1>3, BookCleaned
<1>5. /\ file'.book = logbook' /\ file'.sleeping = sleeping /\ file'.sleep_until = sleep_until
  BY <1>1 DEF A!Dump
<1>6. AbuseType' /\ \A k \in 1 .. Len(reports') : Grounded(reports'[k])
  BY <1>1, <1>2, <1>4, <1>5 DEF AbuseType
<1>7. ASSUME ~overslept
      PROVE  Asleep' /\ Spaced' /\ AllWatched'
  <2>1. Asleep /\ Spaced /\ \A k \in 1 .. Len(reports) : Watched(reports[k])
    BY <1>7 DEF AbuseInv, AllWatched
  <2>2. Asleep'
    <3>1. CASE sleeping
      BY <1>1, <1>5, <2>1, <3>1 DEF Asleep
    <3>2. CASE ~sleeping
      BY <1>1, <2>1, <3>2 DEF Asleep
    <3> QED
      BY <3>1, <3>2
  <2>3. Spaced'
    BY <1>1, <2>1 DEF Spaced
  <2>4. AllWatched'
    BY <1>1, <1>4, <2>1 DEF AllWatched, Watched
  <2> QED
    BY <2>2, <2>3, <2>4
<1> QED
  BY <1>1, <1>6, <1>7 DEF AbuseInv

LEMMA WakeSteps ==
  ASSUME AbuseInv, NEW t \in wakeups, A!wakeup(t)
  PROVE  AbuseInv'
<1>1. /\ t <= now /\ wakeups' = wakeups \ {t} /\ sleeping' = FALSE /\ sleep_until' = 0
      /\ recall' = "scheduled" /\ UNCHANGED <<now, tolerance_attempts, logbook, file, reports, overslept>>
  BY DEF A!wakeup
<1>2. AbuseType /\ \A k \in 1 .. Len(reports) : Grounded(reports[k])
  BY DEF AbuseInv
<1>3. AbuseType' /\ \A k \in 1 .. Len(reports') : Grounded(reports'[k])
  <2>1. sleeping' \in BOOLEAN /\ sleep_until' \in Nat
    BY <1>1
  <2> QED
    BY <1>1, <1>2, <2>1 DEF AbuseType
<1>4. ASSUME ~overslept
      PROVE  Asleep' /\ Spaced' /\ AllWatched'
  <2>1. Asleep /\ Spaced /\ \A k \in 1 .. Len(reports) : Watched(reports[k])
    BY <1>4 DEF AbuseInv, AllWatched
  <2>2. sleeping /\ t = sleep_until /\ wakeups = {sleep_until}
    BY <2>1 DEF Asleep
  <2>3. Asleep' /\ Spaced'
    BY <1>1, <2>1, <2>2 DEF Asleep, Spaced
  <2>4. ASSUME NEW k \in 1 .. Len(reports)
        PROVE  Held(logbook, reports[k]) \/ Passed(reports[k], now)
    <3>1. reports[k] \in Report /\ now \in Nat /\ sleep_until \in Nat
      BY <1>2 DEF AbuseType
    <3>2. reports[k].at \in Nat
      BY <3>1 DEF Report
    <3>3. Passed(reports[k], sleep_until) => Passed(reports[k], now)
      BY <1>1, <2>2, <3>1, <3>2, TimesAssumption DEF Passed
    <3> QED
      BY <2>1, <3>3 DEF Watched
  <2>5. AllWatched'
    BY <1>1, <2>4 DEF AllWatched, Watched
  <2> QED
    BY <2>3, <2>5
<1> QED
  BY <1>1, <1>3, <1>4 DEF AbuseInv

LEMMA LimitSteps ==
  ASSUME AbuseInv, NEW i \in Ips, NEW retry \in Retries, A!rate_limit_handler(i, retry)
  PROVE  AbuseInv'
<1>1. /\ sleeping' = TRUE /\ sleep_until' = now + retry /\ wakeups' = wakeups \cup {now + retry}
      /\ recall' = "cancelled" /\ overslept' = (overslept \/ sleeping)
      /\ UNCHANGED <<now, tolerance_attempts, reports>>
  BY DEF A!rate_limit_handler
<1>2. AbuseType /\ \A k \in 1 .. Len(reports) : Grounded(reports[k])
  BY DEF AbuseInv
<1>3. /\ now \in Nat /\ retry \in Nat /\ now + retry \in Nat /\ tolerance_attempts \in Nat
      /\ GoodBook(logbook, now) /\ GoodBook(file.book, now)
  BY <1>2, TimesAssumption DEF AbuseType
<1>4. CASE recall = "cancelled"
  <2>1. UNCHANGED <<logbook, file>>
    BY <1>4 DEF A!rate_limit_handler
  <2>2. ~overslept => sleeping
    BY <1>4 DEF AbuseInv, Asleep
  <2>3. sleeping' \in BOOLEAN /\ sleep_until' \in Nat /\ overslept' = TRUE
    BY <1>1, <1>2, <1>3, <2>2 DEF AbuseType
  <2>4. AbuseType'
    BY <1>1, <1>2, <2>1, <2>3 DEF AbuseType
  <2> QED
    BY <1>1, <1>2, <2>3, <2>4 DEF AbuseInv
<1>5. CASE recall # "cancelled"
  <2>1. /\ logbook' = A!CleanedBook(logbook, now + retry, tolerance_attempts)
        /\ file' = A!Dump(logbook', TRUE, now + retry, tolerance_attempts)
    BY <1>5 DEF A!rate_limit_handler
  <2>2. /\ file'.book = logbook' /\ file'.sleeping = TRUE /\ file'.sleep_until = now + retry
    BY <2>1 DEF A!Dump
  <2>3. /\ GoodBook(logbook', now)
        /\ \A k \in 1 .. Len(reports) :
              Held(logbook, reports[k]) => Held(logbook', reports[k]) \/ Passed(reports[k], now + retry)
    BY <1>3, <2>1, BookCleaned
  <2>4. AbuseType'
    <3>1. sleeping' \in BOOLEAN /\ sleep_until' \in Nat /\ overslept' \in BOOLEAN
      BY <1>1, <1>3
    <3>2. file'.sleeping \in BOOLEAN /\ file'.sleep_until \in Nat /\ GoodBook(file'.book, now)
      BY <1>3, <2>2, <2>3
    <3> QED
      BY <1>1, <1>2, <2>3, <3>1, <3>2 DEF AbuseType
  <2>5. ASSUME ~overslept'
        PROVE  Asleep' /\ Spaced' /\ AllWatched'
    <3>1. ~overslept /\ ~sleeping
      BY <1>1, <2>5
    <3>2. Asleep /\ Spaced /\ \A k \in 1 .. Len(reports) : Watched(reports[k])
      BY <3>1 DEF AbuseInv, AllWatched
    <3>3. Asleep'
      BY <1>1, <2>2, <3>1, <3>2 DEF Asleep
    <3>4. Spaced'
      BY <1>1, <3>2 DEF Spaced
    <3>5. AllWatched'
      BY <1>1, <2>3, <3>1, <3>2 DEF AllWatched, Watched
    <3> QED
      BY <3>3, <3>4, <3>5
  <2> QED
    BY <1>1, <1>2, <2>4, <2>5 DEF AbuseInv
<1> QED
  BY <1>4, <1>5

LEMMA TickSteps == AbuseInv /\ A!Tick => AbuseInv'
<1> SUFFICES ASSUME AbuseInv, A!Tick
             PROVE  AbuseInv'
  OBVIOUS
<1>1. /\ now' = now + 1
      /\ UNCHANGED <<tolerance_attempts, logbook, sleeping, sleep_until, wakeups, recall, file, reports,
                     overslept>>
  BY DEF A!Tick
<1>2. AbuseType /\ now \in Nat /\ now + 1 \in Nat
  BY DEF AbuseInv, AbuseType
<1>3. ASSUME NEW book, GoodBook(book, now) PROVE GoodBook(book, now + 1)
  <2>1. ASSUME NEW s, RisingTo(s, now) PROVE RisingTo(s, now + 1)
    <3>1. s \in Seq(Nat) /\ \A k \in 1 .. Len(s) : s[k] <= now
      BY <2>1 DEF RisingTo
    <3>2. \A k \in 1 .. Len(s) : s[k] \in Nat /\ s[k] <= now + 1
      BY <1>2, <3>1
    <3> QED
      BY <2>1, <3>2 DEF RisingTo
  <2> QED
    BY <1>3, <2>1 DEF GoodBook, GoodEntry
<1>4. \A k \in 1 .. Len(reports) : reports[k].at \in Nat
  <2>1. \A k \in 1 .. Len(reports) : reports[k] \in Report
    BY <1>2 DEF AbuseType
  <2> QED
    BY <2>1 DEF Report
<1>5. AbuseType'
  <2>1. GoodBook(logbook, now + 1) /\ GoodBook(file.book, now + 1)
    BY <1>2, <1>3 DEF AbuseType
  <2>2. \A k \in 1 .. Len(reports) : reports[k].at <= now + 1
    BY <1>2, <1>4 DEF AbuseType
  <2> QED
    BY <1>1, <1>2, <2>1, <2>2 DEF AbuseType
<1>6. \A k \in 1 .. Len(reports) : Passed(reports[k], now) => Passed(reports[k], now + 1)
  BY <1>2, <1>4, TimesAssumption DEF Passed
<1>7. ASSUME ~overslept
      PROVE  Asleep' /\ Spaced' /\ AllWatched'
  <2>1. Asleep /\ Spaced /\ \A k \in 1 .. Len(reports) : Watched(reports[k])
    BY <1>7 DEF AbuseInv, AllWatched
  <2>2. Asleep' /\ Spaced'
    BY <1>1, <2>1 DEF Asleep, Spaced
  <2>3. AllWatched'
    BY <1>1, <1>6, <2>1 DEF AllWatched, Watched
  <2> QED
    BY <2>2, <2>3
<1> QED
  BY <1>1, <1>5, <1>7 DEF AbuseInv

\* What stop leaves in the file holds every source that is not due.
LEMMA StoppedFile ==
  ASSUME AbuseInv
  PROVE  LET from == A!Stopped
         IN  /\ GoodBook(from.book, now) /\ from.sleeping \in BOOLEAN /\ from.sleep_until \in Nat
             /\ ~overslept =>
                   \A k \in 1 .. Len(reports) :
                      \/ Held(from.book, reports[k]) \/ Passed(reports[k], now)
                      \/ from.sleeping /\ Passed(reports[k], from.sleep_until)
<1> DEFINE from == A!Stopped
<1>1. AbuseType
  BY DEF AbuseInv
<1>2. ASSUME ~overslept
      PROVE  Asleep /\ \A k \in 1 .. Len(reports) : Watched(reports[k])
  BY <1>2 DEF AbuseInv, AllWatched
<1>3. CASE recall = "cancelled"
  <2>1. from = file
    BY <1>3 DEF A!Stopped
  <2> HIDE DEF from
  <2>2. ASSUME ~overslept, NEW k \in 1 .. Len(reports)
        PROVE  \/ Held(file.book, reports[k]) \/ Passed(reports[k], now)
               \/ file.sleeping /\ Passed(reports[k], file.sleep_until)
    BY <1>2, <1>3, <2>2 DEF Asleep, Watched
  <2>3. GoodBook(file.book, now) /\ file.sleeping \in BOOLEAN /\ file.sleep_until \in Nat
    BY <1>1 DEF AbuseType
  <2> QED
    BY <2>1, <2>2, <2>3 DEF from
<1>4. CASE recall # "cancelled"
  <2> DEFINE t == IF sleeping THEN sleep_until ELSE now
             book == A!CleanedBook(logbook, t, tolerance_attempts)
  <2>1. from = A!Dump(book, sleeping, sleep_until, tolerance_attempts)
    BY <1>4 DEF A!Stopped
  <2>2. from.book = book /\ from.sleeping = sleeping /\ from.sleep_until = sleep_until
    BY <2>1 DEF A!Dump
  <2> HIDE DEF from
  <2>3. t \in Nat /\ tolerance_attempts \in Nat
    BY <1>1, TimesAssumption DEF AbuseType
  <2>4. /\ GoodBook(book, now)
        /\ \A k \in 1 .. Len(reports) :
              Held(logbook, reports[k]) => Held(book, reports[k]) \/ Passed(reports[k], t)
    BY <2>3, BookCleaned
  <2> HIDE DEF book
  <2>5. ASSUME ~overslept, NEW k \in 1 .. Len(reports)
        PROVE  \/ Held(book, reports[k]) \/ Passed(reports[k], now)
               \/ sleeping /\ Passed(reports[k], sleep_until)
    BY <1>2, <2>4, <2>5 DEF Watched
  <2>6. sleeping \in BOOLEAN /\ sleep_until \in Nat
    BY <1>1 DEF AbuseType
  <2> QED
    BY <2>2, <2>4, <2>5, <2>6 DEF from
<1> QED
  BY <1>3, <1>4

LEMMA RestartSteps ==
  ASSUME AbuseInv, NEW n \in Tolerances, A!start(n)
  PROVE  AbuseInv'
<1> DEFINE from == A!Stopped
           asleep == from.sleeping /\ from.sleep_until > now
           until == IF asleep THEN from.sleep_until ELSE 0
           t == IF asleep THEN until ELSE now
           book == A!CleanedBook(from.book, t, n)
<1>1. /\ tolerance_attempts' = n /\ sleeping' = asleep /\ sleep_until' = until
      /\ wakeups' = (IF asleep THEN {until} ELSE {})
      /\ logbook' = book \/ logbook' = A!Resized(book, n)
      /\ recall' # "cancelled"
      /\ file' = A!Dump(book, asleep, until, n)
      /\ UNCHANGED <<now, reports, overslept>>
  BY DEF A!start
<1>2. AbuseType /\ \A k \in 1 .. Len(reports) : Grounded(reports[k])
  BY DEF AbuseInv
<1>3. /\ GoodBook(from.book, now) /\ from.sleeping \in BOOLEAN /\ from.sleep_until \in Nat
      /\ ~overslept =>
            \A k \in 1 .. Len(reports) :
               \/ Held(from.book, reports[k]) \/ Passed(reports[k], now)
               \/ from.sleeping /\ Passed(reports[k], from.sleep_until)
  BY StoppedFile
<1> HIDE DEF from
<1>4. /\ now \in Nat /\ n \in Nat /\ reports \in Seq(Report)
      /\ \A k \in 1 .. Len(reports) : reports[k] \in Report
  BY <1>2, TimesAssumption DEF AbuseType
<1>5. asleep \in BOOLEAN /\ until \in Nat /\ t \in Nat
  BY <1>3, <1>4
<1>6. \A k \in 1 .. Len(reports) : reports[k].at \in Nat
  BY <1>4 DEF Report
<1>7. ASSUME ~overslept, NEW k \in 1 .. Len(reports)
      PROVE  \/ Held(from.book, reports[k]) \/ Passed(reports[k], now)
             \/ asleep /\ Passed(reports[k], until)
  <2>1. CASE from.sleeping /\ Passed(reports[k], from.sleep_until)
    <3>1. CASE asleep
      BY <2>1, <3>1
    <3>2. CASE ~asleep
      <4>1. ~(from.sleep_until > now)
        BY <2>1, <3>2
      <4> QED
        BY <1>3, <1>4, <1>6, <2>1, <4>1, TimesAssumption DEF Passed
    <3> QED
      BY <3>1, <3>2
  <2> QED
    BY <1>3, <1>7, <2>1
<1>8. /\ GoodBook(book, now)
      /\ \A r \in Report : Held(from.book, r) => Held(book, r) \/ Passed(r, t)
  BY <1>3, <1>4, <1>5, CleanedBooks
<1>9. file'.book = book /\ file'.sleeping = asleep /\ file'.sleep_until = until
  BY <1>1 DEF A!Dump
<1>10. (asleep => t = until) /\ (~asleep => t = now)
  OBVIOUS
<1> HIDE DEF book, asleep, until, t
<1>11. /\ GoodBook(logbook', now)
       /\ \A r \in Report : Held(book, r) => Held(logbook', r)
  BY <1>1, <1>4, <1>8, ResizedBooks
<1>12. AbuseType'
  BY <1>1, <1>2, <1>5, <1>8, <1>9, <1>11 DEF AbuseType
<1>13. ASSUME ~overslept
       PROVE  Asleep' /\ Spaced' /\ AllWatched'
  <2>1. Asleep'
    BY <1>1 DEF Asleep
  <2>2. Spaced'
    BY <1>1, <1>13 DEF AbuseInv, Spaced
  <2>3. ASSUME NEW k \in 1 .. Len(reports)
        PROVE  \/ Held(logbook', reports[k]) \/ Passed(reports[k], now)
               \/ asleep /\ Passed(reports[k], until)
    <3>1. CASE Held(from.book, reports[k])
      <4>1. Held(logbook', reports[k]) \/ Passed(reports[k], t)
        BY <1>4, <1>8, <1>11, <3>1
      <4> QED
        BY <1>10, <4>1
    <3> QED
      BY <1>7, <1>13, <3>1
  <2>4. AllWatched'
    BY <1>1, <2>3 DEF AllWatched, Watched
  <2> QED
    BY <2>1, <2>2, <2>4
<1> QED
  BY <1>1, <1>2, <1>12, <1>13 DEF AbuseInv

LEMMA AbuseSteps == AbuseInv /\ [A!AbuseNext]_abuseVars => AbuseInv'
<1> SUFFICES ASSUME AbuseInv, [A!AbuseNext]_abuseVars
             PROVE  AbuseInv'
  OBVIOUS
<1>1. CASE UNCHANGED abuseVars \/ \E i \in Ips : A!http_request(i)
  <2>1. UNCHANGED <<now, tolerance_attempts, logbook, sleeping, sleep_until, wakeups, recall, file,
                    reports, overslept>>
    BY <1>1 DEF abuseVars, A!http_request
  <2> QED
    BY <2>1, QuietSteps
<1> QED
  BY <1>1, TickSteps, CleanupSteps, WakeSteps, LoginSteps, LimitSteps, RestartSteps DEF A!AbuseNext

\* For any sources, settings, times and answers of the server: a report rests on
\* as many logins within the window as the tolerance asks for, and the same
\* source is reported again only after rereport_after, whatever was cleaned,
\* dumped, loaded and slept through (tolerant_observer, can_rereport and
\* cleanup_and_dump_state, abuseipdb.py 158-302).
THEOREM ReportsStayDue == MCSpec => []ReportsAreDue
<1> DEFINE Inv == part = "abuse" => AbuseInv
<1>1. MCInit => Inv
  <2> SUFFICES ASSUME A!AbuseInit
               PROVE  AbuseInv
    BY DEF MCInit
  <2>1. /\ now = 1 /\ tolerance_attempts \in Tolerances /\ logbook = A!NoBook
        /\ sleeping = FALSE /\ sleep_until = 0 /\ wakeups = {} /\ recall = "scheduled"
        /\ file = A!Dump(A!NoBook, FALSE, 0, tolerance_attempts)
        /\ reports = <<>> /\ overslept = FALSE
    BY DEF A!AbuseInit
  <2>2. /\ file.book = A!NoBook /\ file.sleeping = FALSE /\ file.sleep_until = 0
    BY <2>1 DEF A!Dump
  <2>3. GoodBook(A!NoBook, now)
    BY DEF GoodBook, A!NoBook
  <2>4. reports \in Seq(Report) /\ 1 .. Len(reports) = {}
    BY <2>1, EmptySeq
  <2>5. AbuseType
    <3>1. /\ now \in Nat /\ sleep_until \in Nat /\ sleeping \in BOOLEAN /\ overslept \in BOOLEAN
          /\ GoodBook(logbook, now) /\ GoodBook(file.book, now)
      BY <2>1, <2>2, <2>3
    <3>2. file.sleeping \in BOOLEAN
      <4>1. file.sleeping = FALSE
        BY <2>2
      <4> QED
        BY <4>1
    <3>3. file.sleep_until \in Nat
      BY <2>2
    <3> QED
      BY <2>1, <2>4, <3>1, <3>2, <3>3 DEF AbuseType
  <2>6. Asleep /\ Spaced /\ AllWatched
    BY <2>1, <2>4 DEF Asleep, Spaced, AllWatched
  <2> QED
    BY <2>4, <2>5, <2>6 DEF AbuseInv
<1>2. Inv /\ [MCNext]_<<part, sessionVars, abuseVars, deliverVars, sqlVars, virustotalVars>> => Inv'
  <2> SUFFICES ASSUME Inv, part' = "abuse",
                      [MCNext]_<<part, sessionVars, abuseVars, deliverVars, sqlVars, virustotalVars>>
               PROVE  AbuseInv'
    OBVIOUS
  <2>1. part = "abuse" /\ [A!AbuseNext]_abuseVars
    BY DEF MCNext
  <2> QED
    BY <2>1, AbuseSteps
<1>3. Inv => ReportsAreDue
  <2> SUFFICES ASSUME AbuseInv
               PROVE  A!ReportsAreDue
    BY DEF ReportsAreDue
  <2>1. DOMAIN reports = 1 .. Len(reports)
    BY DEF AbuseInv, AbuseType
  <2> QED
    BY <2>1 DEF AbuseInv, Grounded, Spaced, A!ReportsAreDue
<1> QED
  BY <1>1, <1>2, <1>3, PTL DEF MCSpec

-----------------------------------------------------------------------------
(* SessionOutputs: what a session did and what is reported of it           *)

Opened == {c \in S!Connections : life[c] = "open"}
Closed == {c \in S!Connections : life[c] = "closed"}

LEMMA ConnectionsAre ==
  /\ \A c \in S!Connections : c[1] \in S!Protocols /\ c # S!NoSession /\ c = <<c[1], c[2]>>
  /\ \A c, d \in S!Connections : S!Sessionno(c) = S!Sessionno(d) => c = d
  /\ S!Plugins = {"misp", "hpfeeds", "prometheus"} /\ S!Protocols = {"ssh", "telnet"}
<1>1. \A c \in S!Connections : c[1] \in S!Protocols /\ c # S!NoSession /\ c = <<c[1], c[2]>>
  BY DEF S!Connections, S!Protocols, S!NoSession
<1>2. ASSUME NEW c \in S!Connections, NEW d \in S!Connections, S!Sessionno(c) = S!Sessionno(d)
      PROVE  c = d
  <2>1. c[1] = d[1] /\ c[2] = d[2]
    BY <1>1, <1>2 DEF S!Sessionno, S!Protocols
  <2> QED
    BY <1>1, <2>1
<1> QED
  BY <1>1, <1>2 DEF S!Plugins, S!Protocols

\* A plugin's table holds the sessions of who, each by its own number.
TableOf(table, who) ==
    /\ DOMAIN table = {S!Sessionno(c) : c \in who}
    /\ \A c \in who : table[S!Sessionno(c)] = c

LEMMA EmitsNew ==
  ASSUME NEW table, NEW who \in SUBSET S!Connections, TableOf(table, who),
         NEW c \in S!Connections, NEW explicit \in BOOLEAN
  PROVE  /\ S!emit(table, c, "connect", explicit).session = c
         /\ TableOf(S!emit(table, c, "connect", explicit).table, who \cup {c})
<1> DEFINE t == S!With(table, S!Sessionno(c), c)
<1>1. S!emit(table, c, "connect", explicit) = [session |-> c, table |-> t]
  BY DEF S!emit
<1>2. DOMAIN t = {S!Sessionno(d) : d \in who \cup {c}}
  BY DEF S!With, TableOf
<1>3. \A d \in who \cup {c} : t[S!Sessionno(d)] = d
  BY ConnectionsAre DEF S!With, TableOf
<1> HIDE DEF t
<1> QED
  BY <1>1, <1>2, <1>3 DEF TableOf

LEMMA Emits ==
  ASSUME NEW table, NEW who \in SUBSET S!Connections, TableOf(table, who),
         NEW c \in who, NEW kind, kind # "connect", NEW explicit \in BOOLEAN
  PROVE  S!emit(table, c, kind, explicit) = [session |-> c, table |-> table]
<1> DEFINE no == S!Sessionno(c)
           known == {n \in DOMAIN table : table[n] = c}
<1>1. no \in known /\ \A n \in known : table[n] = c
  BY DEF TableOf
<1>2. /\ known # {} /\ table[CHOOSE n \in known : TRUE] = c
      /\ no \in DOMAIN table /\ table[no] = c
  BY <1>1 DEF TableOf
<1> QED
  BY <1>2 DEF S!emit

LEMMA EmitsNothing ==
  ASSUME NEW table, NEW who \in SUBSET S!Connections, TableOf(table, who),
         NEW c \in S!Connections \ who, NEW kind, kind # "connect", NEW explicit \in BOOLEAN
  PROVE  S!emit(table, c, kind, explicit) = [session |-> S!NoSession, table |-> table]
<1> DEFINE no == S!Sessionno(c)
           known == {n \in DOMAIN table : table[n] = c}
<1>1. no \notin DOMAIN table /\ known = {}
  BY ConnectionsAre DEF TableOf
<1> QED
  BY <1>1 DEF S!emit

LEMMA Forgets ==
  ASSUME NEW table, NEW who \in SUBSET S!Connections, TableOf(table, who),
         NEW c \in S!Connections, NEW kind, NEW raises \in BOOLEAN
  PROVE  /\ kind = "closed" /\ ~raises =>
              TableOf(S!Forgotten(table, c, kind, raises), who \ {c})
         /\ kind # "closed" \/ raises => S!Forgotten(table, c, kind, raises) = table
<1>1. TableOf(S!Without(table, S!Sessionno(c)), who \ {c})
  <2>1. DOMAIN S!Without(table, S!Sessionno(c)) = {S!Sessionno(d) : d \in who \ {c}}
    BY ConnectionsAre DEF S!Without, TableOf
  <2>2. \A d \in who \ {c} : S!Without(table, S!Sessionno(c))[S!Sessionno(d)] = d
    BY ConnectionsAre DEF S!Without, TableOf
  <2> QED
    BY <2>1, <2>2 DEF TableOf
<1> QED
  BY <1>1 DEF S!Forgotten

\* What MISP and HPFeeds know and have reported; what an activity is.
Track == [activity : Seq(S!Activities), event_created : BOOLEAN]
Made == {S!create_session_event(c, a) : c \in S!Connections, a \in Seq(S!Activities)}

\* The places of MISP's reports of a session: the one of the stop, and the one
\* of its end.
ToldAt(events, c, T) ==
    IF c \in told
    THEN \E i : T = {i} /\ (c \notin failed => S!IsAccount(events[i], c))
    ELSE T = {}
DueAt(events, c, T) ==
    IF S!Due(c) THEN \E i : T = {i} /\ events[i] = S!create_session_event(c, done[c])
    ELSE T = {}
Accounted(c) ==
    \E T, U : /\ S!Of(misp_events, c) = T \cup U /\ T \cap U = {}
              /\ ToldAt(misp_events, c, T) /\ DueAt(misp_events, c, U)

TablesInv ==
    /\ sessions = [p \in S!Plugins |-> sessions[p]]
    /\ TableOf(sessions["misp"], Opened \cup failed)
    /\ TableOf(sessions["hpfeeds"], Opened) /\ TableOf(sessions["prometheus"], Opened)
\* MISP knows of every session what it did, and of those it failed to report
\* that there is something to report.
TrackInv ==
    /\ DOMAIN tracking = {c \in S!Connections : life[c] # "new"} /\ IsFiniteSet(DOMAIN tracking)
    /\ \A c \in S!Connections : life[c] # "new" =>
         /\ tracking[c] \in Track
         /\ c \notin failed => tracking[c].activity = done[c]
         /\ c \in failed => S!has_activity(tracking[c].activity)
         /\ tracking[c].event_created <=>
              life[c] = "closed" /\ c \notin failed /\ S!has_activity(done[c])
MispInv ==
    /\ misp_events \in Seq(Made)
    /\ \A c \in S!Connections : Accounted(c)
FeedsInv ==
    /\ DOMAIN meta = Opened /\ \A c \in Opened : meta[c] = done[c]
    /\ published \in Seq([session : S!Connections, activity : Seq(S!Activities)])
    /\ \A c \in S!Connections :
         IF life[c] = "closed" THEN \E i : S!Of(published, c) = {i} /\ published[i].activity = done[c]
         ELSE S!Of(published, c) = {}
GaugeInv ==
    /\ gauge \in [S!Protocols -> Nat]
    /\ \A p \in S!Protocols : gauge[p] = Cardinality({c \in S!Connections : c[1] = p /\ life[c] = "open"})
SessionType ==
    /\ life \in [S!Connections -> {"new", "open", "closed"}]
    /\ done \in [S!Connections -> Seq(S!Activities)]
    /\ \A c \in S!Connections : life[c] = "new" => done[c] = <<>>
    /\ failed \subseteq {c \in Closed : S!has_activity(done[c])}
    /\ told \subseteq owed /\ owed \subseteq S!Connections
    /\ stopped = "no" => owed = {}
    /\ stopped = "all" => told = owed
    /\ \A a \in answered : a.session = a.of
SessionInv == SessionType /\ TablesInv /\ TrackInv /\ MispInv /\ FeedsInv /\ GaugeInv

LEMMA ActivityIs ==
  /\ ~S!has_activity(<<>>)
  /\ \A a \in Seq(S!Activities) :
       S!has_activity(a) \in BOOLEAN /\ S!has_activity(Append(a, "file"))
<1>1. ~S!has_activity(<<>>)
  BY DEF S!has_activity, S!ToSet
<1>2. ASSUME NEW a \in Seq(S!Activities)
      PROVE  S!has_activity(Append(a, "file"))
  <2>1. "file" \in S!Activities
    BY DEF S!Activities
  <2>2. /\ Len(Append(a, "file")) = Len(a) + 1 /\ Append(a, "file")[Len(a) + 1] = "file"
        /\ Append(a, "file") \in Seq(S!Activities)
    BY <2>1, AppendProperties
  <2>3. Len(a) + 1 \in DOMAIN Append(a, "file")
    BY <2>2
  <2> QED
    BY <2>2, <2>3 DEF S!has_activity, S!ToSet
<1> QED
  BY <1>1, <1>2 DEF S!has_activity

\* t is s and a report more, e.
OneMore(s, t, e) ==
    /\ t[Len(s) + 1] = e
    /\ \A c : c # e.session => S!Of(t, c) = S!Of(s, c)
    /\ \A c : c = e.session /\ S!Of(s, c) = {} => S!Of(t, c) = {Len(s) + 1}
    /\ \A c : \A i \in S!Of(s, c) : t[i] = s[i]

LEMMA ReportAdded ==
  ASSUME NEW E, NEW s \in Seq(E), NEW e \in E
  PROVE  Append(s, e) \in Seq(E) /\ OneMore(s, Append(s, e), e)
<1> DEFINE t == Append(s, e)
           n == Len(s)
<1>1. /\ t \in Seq(E) /\ Len(t) = n + 1 /\ t[n + 1] = e /\ \A i \in 1 .. n : t[i] = s[i]
  BY AppendProperties
<1>2. n \in Nat /\ DOMAIN t = 1 .. n + 1 /\ DOMAIN s = 1 .. n
  BY <1>1
<1> HIDE DEF t, n
<1>3. 1 .. n + 1 = (1 .. n) \cup {n + 1} /\ n + 1 \notin 1 .. n
  BY <1>2
<1>4. \A c : S!Of(t, c) = S!Of(s, c) \cup (IF e.session = c THEN {n + 1} ELSE {})
  BY <1>1, <1>2, <1>3 DEF S!Of
<1>5. \A c : \A i \in S!Of(s, c) : t[i] = s[i]
  BY <1>1, <1>2 DEF S!Of
<1>6. /\ \A c : c # e.session => S!Of(t, c) = S!Of(s, c)
      /\ \A c : c = e.session /\ S!Of(s, c) = {} => S!Of(t, c) = {n + 1}
  BY <1>4
<1> QED
  BY <1>1, <1>4, <1>5, <1>6 DEF t, n, OneMore

\* The places of the reports of e's session, which has one more.
LEMMA OneMoreOf ==
  ASSUME NEW E, NEW s \in Seq(E), NEW e \in E
  PROVE  /\ S!Of(Append(s, e), e.session) = S!Of(s, e.session) \cup {Len(s) + 1}
         /\ Len(s) + 1 \notin S!Of(s, e.session)
<1> DEFINE t == Append(s, e)
           n == Len(s)
<1>1. /\ t \in Seq(E) /\ Len(t) = n + 1 /\ t[n + 1] = e /\ \A i \in 1 .. n : t[i] = s[i]
  BY AppendProperties
<1>2. n \in Nat /\ DOMAIN t = 1 .. n + 1 /\ DOMAIN s = 1 .. n
  BY <1>1
<1> HIDE DEF t, n
<1>3. 1 .. n + 1 = (1 .. n) \cup {n + 1} /\ n + 1 \notin 1 .. n
  BY <1>2
<1>4. S!Of(t, e.session) = S!Of(s, e.session) \cup {n + 1} /\ n + 1 \notin S!Of(s, e.session)
  BY <1>1, <1>2, <1>3 DEF S!Of
<1> QED
  BY <1>4 DEF t, n

\* What an event changes: of a connection that begins, of an open one, of one
\* that ends, and of one that has ended.
LEMMA EmittedTo ==
  ASSUME SessionInv, NEW c \in S!Connections, NEW kind, kind # "connect"
  PROVE  /\ c \in Opened \cup failed => S!emit(sessions["misp"], c, kind, FALSE).session = c
         /\ c \notin Opened \cup failed =>
              S!emit(sessions["misp"], c, kind, FALSE).session = S!NoSession
         /\ \A p \in {"hpfeeds", "prometheus"} :
              /\ c \in Opened => S!emit(sessions[p], c, kind, FALSE).session = c
              /\ c \notin Opened => S!emit(sessions[p], c, kind, FALSE).session = S!NoSession
         /\ \A p \in S!Plugins : S!emit(sessions[p], c, kind, FALSE).table = sessions[p]
<1>1. Opened \cup failed \in SUBSET S!Connections /\ Opened \in SUBSET S!Connections
      /\ FALSE \in BOOLEAN
  BY DEF SessionInv, SessionType, Opened, Closed
<1>2. \A who \in SUBSET S!Connections : \A table :
        TableOf(table, who) =>
          /\ c \in who => S!emit(table, c, kind, FALSE) = [session |-> c, table |-> table]
          /\ c \notin who => S!emit(table, c, kind, FALSE) = [session |-> S!NoSession, table |-> table]
  <2> SUFFICES ASSUME NEW who \in SUBSET S!Connections, NEW table, TableOf(table, who)
               PROVE  /\ c \in who => S!emit(table, c, kind, FALSE) = [session |-> c, table |-> table]
                      /\ c \notin who =>
                           S!emit(table, c, kind, FALSE) = [session |-> S!NoSession, table |-> table]
    OBVIOUS
  <2>1. ASSUME c \in who
        PROVE  S!emit(table, c, kind, FALSE) = [session |-> c, table |-> table]
    BY <1>1, <2>1, Emits
  <2>2. ASSUME c \notin who
        PROVE  S!emit(table, c, kind, FALSE) = [session |-> S!NoSession, table |-> table]
    BY <1>1, <2>2, EmitsNothing
  <2> QED
    BY <2>1, <2>2
<1>3. TableOf(sessions["misp"], Opened \cup failed)
  BY DEF SessionInv, SessionType, TablesInv
<1>4. \A p \in {"hpfeeds", "prometheus"} : TableOf(sessions[p], Opened)
  BY DEF SessionInv, SessionType, TablesInv
<1> DEFINE e(p) == S!emit(sessions[p], c, kind, FALSE)
<1>5. /\ c \in Opened \cup failed => e("misp") = [session |-> c, table |-> sessions["misp"]]
      /\ c \notin Opened \cup failed =>
           e("misp") = [session |-> S!NoSession, table |-> sessions["misp"]]
      /\ \A p \in {"hpfeeds", "prometheus"} :
           /\ c \in Opened => e(p) = [session |-> c, table |-> sessions[p]]
           /\ c \notin Opened => e(p) = [session |-> S!NoSession, table |-> sessions[p]]
  BY <1>1, <1>2, <1>3, <1>4
<1> HIDE DEF e
<1>6. /\ c \in Opened \cup failed => e("misp").session = c
      /\ c \notin Opened \cup failed => e("misp").session = S!NoSession
      /\ e("misp").table = sessions["misp"]
  BY <1>5
<1>7. \A p \in {"hpfeeds", "prometheus"} :
         /\ c \in Opened => e(p).session = c
         /\ c \notin Opened => e(p).session = S!NoSession
         /\ e(p).table = sessions[p]
  BY <1>5
<1>8. \A p \in S!Plugins : e(p).table = sessions[p]
  BY <1>6, <1>7, ConnectionsAre
<1> QED
  BY <1>6, <1>7, <1>8 DEF e

LEMMA TableStays ==
  ASSUME SessionInv, NEW c \in S!Connections, NEW kind, kind # "connect", kind # "closed",
         S!Emitted(c, kind, FALSE)
  PROVE  sessions' = sessions /\ failed' = failed
<1>1. \A p \in S!Plugins : S!emit(sessions[p], c, kind, FALSE).table = sessions[p]
  BY EmittedTo
<1>2. sessions' = [p \in S!Plugins |-> S!Forgotten(S!emit(sessions[p], c, kind, FALSE).table, c, kind,
                     p = "misp" /\ FALSE)]
  BY DEF S!Emitted
<1>3. sessions' = [p \in S!Plugins |-> sessions[p]]
  BY <1>1, <1>2 DEF S!Forgotten
<1>4. failed' = failed
  BY DEF S!Emitted
<1> QED
  BY <1>3, <1>4 DEF SessionInv, SessionType, TablesInv

LEMMA EmittedOpen ==
  ASSUME SessionInv, NEW c \in S!Connections, life[c] = "open", NEW kind \in S!Activities,
         S!Emitted(c, kind, FALSE)
  PROVE  /\ tracking' = S!With(tracking, c,
                          [tracking[c] EXCEPT !.activity = Append(tracking[c].activity, kind)])
         /\ meta' = [meta EXCEPT ![c] = Append(meta[c], kind)]
         /\ UNCHANGED <<misp_events, published, gauge, failed, sessions>>
<1>1. kind # "connect" /\ kind # "closed"
  BY DEF S!Activities
<1>2. /\ S!emit(sessions["misp"], c, kind, FALSE).session = c
      /\ S!emit(sessions["hpfeeds"], c, kind, FALSE).session = c
      /\ S!emit(sessions["prometheus"], c, kind, FALSE).session = c
  BY <1>1, EmittedTo DEF Opened
<1>3. c \in DOMAIN tracking /\ c \in DOMAIN meta /\ c # S!NoSession /\ gauge \in [S!Protocols -> Nat]
      /\ c[1] \in S!Protocols
  BY ConnectionsAre DEF SessionInv, SessionType, TrackInv, FeedsInv, GaugeInv, Opened
<1>4. "misp" \in S!Plugins /\ "hpfeeds" \in S!Plugins /\ "prometheus" \in S!Plugins
  BY ConnectionsAre
<1>5. /\ S!mispWrite(c, kind, FALSE) /\ S!hpfeedsWrite(c, kind) /\ S!prometheusWrite(c, kind)
  BY <1>2, <1>3, <1>4 DEF S!Emitted
<1>6. /\ tracking' = S!With(tracking, c,
                       [tracking[c] EXCEPT !.activity = Append(tracking[c].activity, kind)])
      /\ misp_events' = misp_events
  BY <1>1, <1>3, <1>5 DEF S!mispWrite, S!mispCreates, S!Tracked
<1>7. /\ meta' = [meta EXCEPT ![c] = Append(meta[c], kind)] /\ published' = published
  BY <1>1, <1>3, <1>5 DEF S!hpfeedsWrite
<1>8. gauge' = gauge
  BY <1>1, <1>3, <1>5 DEF S!prometheusWrite
<1> QED
  BY <1>1, <1>6, <1>7, <1>8, TableStays

LEMMA EmittedLate ==
  ASSUME SessionInv, NEW c \in S!Connections, life[c] = "closed", S!Emitted(c, "file", FALSE)
  PROVE  /\ tracking' = IF c \in failed
                        THEN S!With(tracking, c,
                               [tracking[c] EXCEPT !.activity = Append(tracking[c].activity, "file")])
                        ELSE tracking
         /\ UNCHANGED <<meta, misp_events, published, gauge, failed, sessions>>
<1>2. /\ S!emit(sessions["misp"], c, "file", FALSE).session = (IF c \in failed THEN c ELSE S!NoSession)
      /\ S!emit(sessions["hpfeeds"], c, "file", FALSE).session = S!NoSession
      /\ S!emit(sessions["prometheus"], c, "file", FALSE).session = S!NoSession
  BY EmittedTo DEF Opened
<1>3. c \in DOMAIN tracking /\ c # S!NoSession
  BY ConnectionsAre DEF SessionInv, SessionType, TrackInv
<1>4. "misp" \in S!Plugins /\ "hpfeeds" \in S!Plugins /\ "prometheus" \in S!Plugins
  BY ConnectionsAre
<1>5. /\ S!mispWrite(IF c \in failed THEN c ELSE S!NoSession, "file", FALSE)
      /\ UNCHANGED <<meta, published, gauge>>
  BY <1>2, <1>4 DEF S!Emitted
<1>6. /\ tracking' = (IF c \in failed
                      THEN S!With(tracking, c,
                             [tracking[c] EXCEPT !.activity = Append(tracking[c].activity, "file")])
                      ELSE tracking)
      /\ misp_events' = misp_events
  BY <1>3, <1>5 DEF S!mispWrite, S!mispCreates, S!Tracked, S!Activities
<1> QED
  BY <1>5, <1>6, TableStays

LEMMA EmittedConnect ==
  ASSUME SessionInv, NEW c \in S!Connections, life[c] = "new", S!Emitted(c, "connect", FALSE)
  PROVE  /\ tracking' = S!With(tracking, c, S!NewTrack)
         /\ meta' = S!With(meta, c, <<>>)
         /\ gauge' = [gauge EXCEPT ![c[1]] = gauge[c[1]] + 1]
         /\ UNCHANGED <<misp_events, published, failed>>
         /\ sessions' = [p \in S!Plugins |-> sessions'[p]]
         /\ TableOf(sessions'["misp"], (Opened \cup failed) \cup {c})
         /\ TableOf(sessions'["hpfeeds"], Opened \cup {c})
         /\ TableOf(sessions'["prometheus"], Opened \cup {c})
<1> DEFINE e(p) == S!emit(sessions[p], c, "connect", FALSE)
<1>1. Opened \cup failed \in SUBSET S!Connections /\ Opened \in SUBSET S!Connections
  BY DEF SessionInv, SessionType, Opened, Closed
<1>2. e("misp").session = c /\ TableOf(e("misp").table, (Opened \cup failed) \cup {c})
  <2>1. TableOf(sessions["misp"], Opened \cup failed)
    BY DEF SessionInv, SessionType, TablesInv
  <2> QED
    BY <1>1, <2>1, EmitsNew
<1>3. ASSUME NEW p \in {"hpfeeds", "prometheus"}
      PROVE  e(p).session = c /\ TableOf(e(p).table, Opened \cup {c})
  <2>1. TableOf(sessions[p], Opened)
    BY DEF SessionInv, SessionType, TablesInv
  <2> QED
    BY <1>1, <2>1, EmitsNew
<1>4. "misp" \in S!Plugins /\ "hpfeeds" \in S!Plugins /\ "prometheus" \in S!Plugins
  BY ConnectionsAre
<1>5. c \notin DOMAIN tracking /\ c # S!NoSession
  BY ConnectionsAre DEF SessionInv, SessionType, TrackInv
<1>6. /\ S!mispWrite(c, "connect", FALSE) /\ S!hpfeedsWrite(c, "connect")
      /\ S!prometheusWrite(c, "connect")
      /\ sessions' = [p \in S!Plugins |-> S!Forgotten(e(p).table, c, "connect", p = "misp" /\ FALSE)]
      /\ failed' = failed
  BY <1>2, <1>3, <1>4, <1>5 DEF S!Emitted
<1>7. sessions' = [p \in S!Plugins |-> e(p).table]
  BY <1>6 DEF S!Forgotten
<1>8. /\ tracking' = S!With(tracking, c, S!NewTrack) /\ misp_events' = misp_events
  <2>1. S!Tracked(c, "connect") = S!NewTrack
    BY <1>5 DEF S!Tracked, S!Activities, S!NewTrack
  <2> QED
    BY <1>5, <1>6, <2>1 DEF S!mispWrite, S!mispCreates
<1>9. /\ meta' = S!With(meta, c, <<>>) /\ published' = published
      /\ gauge' = [gauge EXCEPT ![c[1]] = gauge[c[1]] + 1]
  BY <1>6 DEF S!hpfeedsWrite, S!prometheusWrite
<1> HIDE DEF e
<1> QED
  BY <1>2, <1>3, <1>4, <1>6, <1>7, <1>8, <1>9

LEMMA EmittedClosed ==
  ASSUME SessionInv, NEW c \in S!Connections, life[c] = "open", NEW refused \in BOOLEAN,
         S!Emitted(c, "closed", refused)
  PROVE  /\ IF S!has_activity(done[c]) /\ ~refused
            THEN /\ misp_events' = Append(misp_events, S!create_session_event(c, done[c]))
                 /\ tracking' = S!With(tracking, c, [tracking[c] EXCEPT !.event_created = TRUE])
            ELSE misp_events' = misp_events /\ tracking' = S!With(tracking, c, tracking[c])
         /\ failed' = IF S!has_activity(done[c]) /\ refused THEN failed \cup {c} ELSE failed
         /\ meta' = S!Without(meta, c)
         /\ published' = Append(published, [session |-> c, activity |-> done[c]])
         /\ gauge' = [gauge EXCEPT ![c[1]] = gauge[c[1]] - 1]
         /\ sessions' = [p \in S!Plugins |-> sessions'[p]]
         /\ TableOf(sessions'["misp"], (Opened \ {c}) \cup failed')
         /\ TableOf(sessions'["hpfeeds"], Opened \ {c})
         /\ TableOf(sessions'["prometheus"], Opened \ {c})
<1> DEFINE raises == refused /\ S!mispCreates(c, "closed")
<1>1. /\ S!emit(sessions["misp"], c, "closed", FALSE).session = c
      /\ S!emit(sessions["hpfeeds"], c, "closed", FALSE).session = c
      /\ S!emit(sessions["prometheus"], c, "closed", FALSE).session = c
      /\ \A p \in S!Plugins : S!emit(sessions[p], c, "closed", FALSE).table = sessions[p]
  BY EmittedTo DEF Opened
<1>2. "misp" \in S!Plugins /\ "hpfeeds" \in S!Plugins /\ "prometheus" \in S!Plugins
  BY ConnectionsAre
<1>3. /\ c \in DOMAIN tracking /\ c # S!NoSession /\ c \in DOMAIN meta /\ c \notin failed
      /\ c \in Opened /\ meta[c] = done[c]
      /\ tracking[c] \in Track /\ tracking[c].activity = done[c] /\ ~tracking[c].event_created
  BY ConnectionsAre DEF SessionInv, SessionType, TrackInv, FeedsInv, Opened, Closed
<1>4. /\ S!mispWrite(c, "closed", refused) /\ S!hpfeedsWrite(c, "closed")
      /\ S!prometheusWrite(c, "closed")
      /\ sessions' = [p \in S!Plugins |->
                        S!Forgotten(S!emit(sessions[p], c, "closed", FALSE).table, c, "closed",
                                    p = "misp" /\ raises)]
      /\ failed' = IF raises THEN failed \cup {c} ELSE failed
  BY <1>1, <1>2, <1>3 DEF S!Emitted
<1>5. S!Tracked(c, "closed") = tracking[c]
  BY <1>3 DEF S!Tracked, S!Activities, Track
<1>6. S!mispCreates(c, "closed") <=> S!has_activity(done[c])
  BY <1>3, <1>5 DEF S!mispCreates
<1>7. /\ IF S!has_activity(done[c]) /\ ~refused
         THEN /\ misp_events' = Append(misp_events, S!create_session_event(c, done[c]))
              /\ tracking' = S!With(tracking, c, [tracking[c] EXCEPT !.event_created = TRUE])
         ELSE misp_events' = misp_events /\ tracking' = S!With(tracking, c, tracking[c])
  BY <1>3, <1>4, <1>5, <1>6 DEF S!mispWrite, S!MispCreated
<1>8. /\ meta' = S!Without(meta, c)
      /\ published' = Append(published, [session |-> c, activity |-> done[c]])
      /\ gauge' = [gauge EXCEPT ![c[1]] = gauge[c[1]] - 1]
  BY <1>3, <1>4 DEF S!hpfeedsWrite, S!prometheusWrite
<1>9. failed' = IF S!has_activity(done[c]) /\ refused THEN failed \cup {c} ELSE failed
  BY <1>4, <1>6
<1>10. sessions' = [p \in S!Plugins |-> S!Forgotten(sessions[p], c, "closed", p = "misp" /\ raises)]
  BY <1>1, <1>4
<1>11. Opened \cup failed \in SUBSET S!Connections /\ Opened \in SUBSET S!Connections
  BY DEF SessionInv, SessionType, Opened, Closed
<1>12. ASSUME NEW p \in {"hpfeeds", "prometheus"}
       PROVE  TableOf(sessions'[p], Opened \ {c})
  <2>1. TableOf(sessions[p], Opened)
    BY DEF SessionInv, SessionType, TablesInv
  <2>2. sessions'[p] = S!Forgotten(sessions[p], c, "closed", FALSE)
    BY <1>2, <1>10
  <2> DEFINE t == S!Forgotten(sessions[p], c, "closed", FALSE)
  <2>3. TableOf(t, Opened \ {c})
    BY <1>11, <2>1, Forgets
  <2> QED
    BY <2>2, <2>3
<1>13. TableOf(sessions'["misp"], (Opened \ {c}) \cup failed')
  <2>1. TableOf(sessions["misp"], Opened \cup failed)
    BY DEF SessionInv, SessionType, TablesInv
  <2>2. sessions'["misp"] = S!Forgotten(sessions["misp"], c, "closed", raises) /\ raises \in BOOLEAN
    BY <1>2, <1>6, <1>10, ActivityIs DEF S!has_activity
  <2> HIDE DEF raises
  <2>3. CASE raises
    <3>1. sessions'["misp"] = sessions["misp"]
      BY <1>11, <2>1, <2>2, <2>3, Forgets, Zenon
    <3>2. (Opened \ {c}) \cup failed' = Opened \cup failed
      BY <1>3, <1>4, <2>3
    <3> QED
      BY <2>1, <3>1, <3>2
  <2>4. CASE ~raises
    <3>1. TableOf(sessions'["misp"], (Opened \cup failed) \ {c})
      BY <1>11, <2>1, <2>2, <2>4, Forgets
    <3>2. (Opened \cup failed) \ {c} = (Opened \ {c}) \cup failed'
      BY <1>3, <1>4, <2>4
    <3> QED
      BY <3>1, <3>2
  <2> QED
    BY <2>3, <2>4
<1> QED
  BY <1>2, <1>7, <1>8, <1>9, <1>10, <1>12, <1>13

LEMMA CardinalityInOutputs == \A T : S!Cardinality(T) = Cardinality(T)
BY DEF S!Cardinality, Cardinality, S!IsFiniteSet, IsFiniteSet

LEMMA EventsAreMade ==
  ASSUME NEW c \in S!Connections, NEW a \in Seq(S!Activities)
  PROVE  S!create_session_event(c, a) \in Made /\ S!create_session_event(c, a).session = c
BY DEF Made, S!create_session_event

\* u is the reports of s, then those of t.
Joined(s, t, u) ==
    /\ \A c : S!Of(u, c) = S!Of(s, c) \cup {Len(s) + k : k \in S!Of(t, c)}
    /\ \A c : \A i \in S!Of(s, c) : u[i] = s[i]
    /\ \A c : \A k \in S!Of(t, c) : u[Len(s) + k] = t[k]

LEMMA ReportsAdded ==
  ASSUME NEW E, NEW s \in Seq(E), NEW t \in Seq(E)
  PROVE  s \o t \in Seq(E) /\ Joined(s, t, s \o t)
<1> DEFINE u == s \o t
           n == Len(s)
           m == Len(t)
<1>1. /\ u \in Seq(E) /\ Len(u) = n + m
      /\ \A i \in 1 .. n + m : u[i] = IF i <= n THEN s[i] ELSE t[i - n]
  BY ConcatProperties
<1>2. n \in Nat /\ m \in Nat /\ DOMAIN u = 1 .. n + m /\ DOMAIN s = 1 .. n /\ DOMAIN t = 1 .. m
  BY <1>1
<1> HIDE DEF u, n, m
<1>3. \A i \in 1 .. n : i \in 1 .. n + m /\ u[i] = s[i]
  BY <1>1, <1>2
<1>4. \A k \in 1 .. m : n + k \in 1 .. n + m /\ u[n + k] = t[k]
  <2> SUFFICES ASSUME NEW k \in 1 .. m
               PROVE  n + k \in 1 .. n + m /\ u[n + k] = t[k]
    OBVIOUS
  <2>1. n + k \in 1 .. n + m /\ ~(n + k <= n) /\ (n + k) - n = k
    BY <1>2
  <2> QED
    BY <1>1, <2>1
<1>5. \A i \in 1 .. n + m : i \in 1 .. n \/ \E k \in 1 .. m : i = n + k
  <2> SUFFICES ASSUME NEW i \in 1 .. n + m, i \notin 1 .. n
               PROVE  \E k \in 1 .. m : i = n + k
    OBVIOUS
  <2>1. i - n \in 1 .. m /\ i = n + (i - n)
    BY <1>2
  <2> QED
    BY <2>1
<1>6. \A c : S!Of(u, c) = S!Of(s, c) \cup {n + k : k \in S!Of(t, c)}
  <2> SUFFICES ASSUME NEW c
               PROVE  S!Of(u, c) = S!Of(s, c) \cup {n + k : k \in S!Of(t, c)}
    OBVIOUS
  <2>1. /\ S!Of(u, c) = {i \in 1 .. n + m : u[i].session = c}
        /\ S!Of(s, c) = {i \in 1 .. n : s[i].session = c}
        /\ S!Of(t, c) = {k \in 1 .. m : t[k].session = c}
    BY <1>2 DEF S!Of
  <2>2. \A i \in S!Of(s, c) : i \in S!Of(u, c)
    BY <1>3, <2>1
  <2>3. \A k \in S!Of(t, c) : n + k \in S!Of(u, c)
    BY <1>4, <2>1
  <2>4. ASSUME NEW i \in S!Of(u, c)
        PROVE  i \in S!Of(s, c) \/ \E k \in S!Of(t, c) : i = n + k
    <3>1. CASE i \in 1 .. n
      BY <1>3, <2>1, <3>1
    <3>2. CASE \E k \in 1 .. m : i = n + k
      <4>1. PICK k \in 1 .. m : i = n + k
        BY <3>2
      <4>2. u[i] = t[k] /\ u[i].session = c
        BY <1>4, <2>1, <4>1
      <4> QED
        BY <2>1, <4>1, <4>2
    <3> QED
      BY <1>5, <2>1, <3>1, <3>2
  <2> QED
    BY <2>2, <2>3, <2>4
<1>7. /\ \A c : \A i \in S!Of(s, c) : u[i] = s[i]
      /\ \A c : \A k \in S!Of(t, c) : u[n + k] = t[k]
  BY <1>2, <1>3, <1>4 DEF S!Of
<1> QED
  BY <1>1, <1>6, <1>7 DEF u, n, Joined

\* SetToSeq lists each element once.
LEMMA ListedOnce ==
  ASSUME NEW T, IsFiniteSet(T)
  PROVE  /\ S!SetToSeq(T) \in Seq(T)
         /\ \A x \in T : \E k : {i \in DOMAIN S!SetToSeq(T) : S!SetToSeq(T)[i] = x} = {k}
<1> DEFINE n == Cardinality(T)
           q == S!SetToSeq(T)
<1>1. n \in Nat /\ ExistsBijection(1 .. n, T)
  BY FS_CardinalityType
<1>2. PICK b \in Bijection(1 .. n, T) : TRUE
  BY <1>1 DEF ExistsBijection
<1>3. b \in [1 .. n -> T] /\ S!IsInjective(b)
  BY <1>2 DEF Bijection, Injection, IsInjective, S!IsInjective
<1>4. q \in [1 .. n -> T] /\ S!IsInjective(q)
  BY <1>3, CardinalityInOutputs DEF S!SetToSeq
<1> HIDE DEF q
<1>5. IsFiniteSet(1 .. n) /\ Cardinality(1 .. n) = n
  <2>1. IF 1 > n THEN n = 0 ELSE n - 1 + 1 = n
    BY <1>1
  <2> QED
    BY <1>1, <2>1, FS_Interval
<1>6. q \in Injection(1 .. n, T)
  BY <1>4 DEF Injection, IsInjective, S!IsInjective
<1>7. q \in Surjection(1 .. n, T)
  BY <1>5, <1>6, FS_Injection
<1>8. \A x \in T : \E k \in 1 .. n : q[k] = x
  BY <1>7 DEF Surjection
<1>9. \A i, j \in 1 .. n : q[i] = q[j] => i = j
  BY <1>4 DEF S!IsInjective
<1>10. q \in Seq(T) /\ DOMAIN q = 1 .. n
  BY <1>1, <1>4
<1>11. \A x \in T : \E k : {i \in DOMAIN q : q[i] = x} = {k}
  <2> SUFFICES ASSUME NEW x \in T
               PROVE  \E k : {i \in DOMAIN q : q[i] = x} = {k}
    OBVIOUS
  <2>1. PICK k \in 1 .. n : q[k] = x
    BY <1>8
  <2>2. {i \in DOMAIN q : q[i] = x} = {k}
    BY <1>9, <1>10, <2>1
  <2> QED
    BY <2>2
<1> QED
  BY <1>10, <1>11 DEF q

\* An account of a session stays one when the session does more.
LEMMA AccountsStay ==
  ASSUME done \in [S!Connections -> Seq(S!Activities)], NEW d \in S!Connections,
         NEW r, S!IsAccount(r, d),
         done'[d] = done[d] \/ \E k \in S!Activities : done'[d] = Append(done[d], k)
  PROVE  S!IsAccount(r, d)'
<1>1. PICK n \in 0 .. Len(done[d]) : r = S!create_session_event(d, SubSeq(done[d], 1, n))
  BY DEF S!IsAccount
<1>2. CASE done'[d] = done[d]
  BY <1>1, <1>2 DEF S!IsAccount
<1>3. CASE \E k \in S!Activities : done'[d] = Append(done[d], k)
  <2>1. PICK k \in S!Activities : done'[d] = Append(done[d], k)
    BY <1>3
  <2>2. /\ done[d] \in Seq(S!Activities) /\ Len(done'[d]) = Len(done[d]) + 1
        /\ \A i \in 1 .. Len(done[d]) : done'[d][i] = done[d][i]
    BY <2>1, AppendProperties
  <2>3. n \in 0 .. Len(done'[d])
    BY <2>2
  <2>4. SubSeq(done'[d], 1, n) = SubSeq(done[d], 1, n)
    <3>1. /\ SubSeq(done'[d], 1, n) = [i \in 1 .. n |-> done'[d][i]]
          /\ SubSeq(done[d], 1, n) = [i \in 1 .. n |-> done[d][i]]
      BY <1>1, <2>1, <2>2
    <3>2. \A i \in 1 .. n : done'[d][i] = done[d][i]
      BY <2>2
    <3> QED
      BY <3>1, <3>2, Zenon
  <2> QED
    BY <1>1, <2>3, <2>4 DEF S!IsAccount
<1> QED
  BY <1>2, <1>3

\* The reports stay right where nothing they speak of changes.
LEMMA AccountsKept ==
  ASSUME MispInv,
         UNCHANGED <<done, misp_events, told, failed>>,
         \A d \in S!Connections : S!Due(d)' <=> S!Due(d)
  PROVE  MispInv'
<1>1. ASSUME NEW d \in S!Connections
      PROVE  Accounted(d)'
  <2>1. PICK T, U : /\ S!Of(misp_events, d) = T \cup U /\ T \cap U = {}
                    /\ ToldAt(misp_events, d, T) /\ DueAt(misp_events, d, U)
    BY DEF MispInv, Accounted
  <2>2. ToldAt(misp_events, d, T)'
    BY <2>1 DEF ToldAt, S!IsAccount
  <2>3. DueAt(misp_events, d, U)'
    BY <2>1 DEF DueAt
  <2> QED
    BY <2>1, <2>2, <2>3 DEF Accounted
<1> QED
  BY <1>1 DEF MispInv

LEMMA Acts ==
  ASSUME SessionInv, NEW c \in S!Connections, NEW kind \in S!Activities, S!Act(c, kind)
  PROVE  SessionInv'
<1>1. /\ life[c] = "open" /\ done' = [done EXCEPT ![c] = Append(done[c], kind)]
      /\ S!Emitted(c, kind, FALSE)
      /\ UNCHANGED <<life, lookups, answered, late, stopped, told, owed>>
  BY DEF S!Act
<1>2. /\ tracking' = S!With(tracking, c,
                       [tracking[c] EXCEPT !.activity = Append(tracking[c].activity, kind)])
      /\ meta' = [meta EXCEPT ![c] = Append(meta[c], kind)]
      /\ UNCHANGED <<misp_events, published, gauge, failed, sessions>>
  BY <1>1, EmittedOpen
<1>3. /\ SessionType /\ TablesInv /\ TrackInv /\ MispInv /\ FeedsInv /\ GaugeInv
      /\ c \in Opened /\ c \notin failed
  BY <1>1 DEF SessionInv, SessionType, Opened, Closed
<1>4. Opened' = Opened /\ Closed' = Closed
  BY <1>1 DEF Opened, Closed
<1>5. Append(done[c], kind) \in Seq(S!Activities) /\ done \in [S!Connections -> Seq(S!Activities)]
  BY <1>3, AppendProperties DEF SessionType
<1>6. \A d \in S!Connections : done'[d] = IF d = c THEN Append(done[c], kind) ELSE done[d]
  BY <1>1, <1>5
<1>7. SessionType'
  <2>1. done' \in [S!Connections -> Seq(S!Activities)]
    BY <1>1, <1>5
  <2>2. \A d \in S!Connections : life'[d] = "new" => done'[d] = <<>>
    BY <1>1, <1>3, <1>6 DEF SessionType
  <2>3. failed' \subseteq {d \in Closed' : S!has_activity(done'[d])}
    BY <1>2, <1>3, <1>4, <1>6 DEF SessionType, Closed
  <2> QED
    BY <1>1, <1>3, <2>1, <2>2, <2>3 DEF SessionType
<1>8. TablesInv'
  BY <1>2, <1>3, <1>4 DEF TablesInv
<1>9. TrackInv'
  <2> DEFINE track == [tracking[c] EXCEPT !.activity = Append(tracking[c].activity, kind)]
  <2>1. /\ DOMAIN tracking = {d \in S!Connections : life[d] # "new"} /\ c \in DOMAIN tracking
        /\ tracking[c] \in Track /\ tracking[c].activity = done[c] /\ ~tracking[c].event_created
    BY <1>1, <1>3 DEF TrackInv
  <2>2. track \in Track /\ track.activity = Append(done[c], kind) /\ ~track.event_created
    BY <1>5, <2>1 DEF Track
  <2> HIDE DEF track
  <2>3. /\ DOMAIN tracking' = DOMAIN tracking /\ tracking'[c] = track
        /\ \A d \in DOMAIN tracking \ {c} : tracking'[d] = tracking[d]
    <3> DEFINE t == S!With(tracking, c, track)
    <3>1. tracking' = t
      BY <1>2 DEF track
    <3>2. /\ DOMAIN t = DOMAIN tracking \cup {c} /\ t[c] = track
          /\ \A d \in DOMAIN tracking \ {c} : t[d] = tracking[d]
      BY DEF S!With
    <3> HIDE DEF t
    <3> QED
      BY <2>1, <3>1, <3>2
  <2>4. ASSUME NEW d \in S!Connections, life'[d] # "new"
        PROVE  /\ tracking'[d] \in Track
               /\ d \notin failed' => tracking'[d].activity = done'[d]
               /\ d \in failed' => S!has_activity(tracking'[d].activity)
               /\ tracking'[d].event_created <=>
                    life'[d] = "closed" /\ d \notin failed' /\ S!has_activity(done'[d])
    <3>1. CASE d = c
      BY <1>1, <1>2, <1>3, <1>6, <2>2, <2>3, <3>1
    <3>2. CASE d # c
      BY <1>1, <1>2, <1>3, <1>6, <2>1, <2>3, <2>4, <3>2 DEF TrackInv
    <3> QED
      BY <3>1, <3>2
  <2> QED
    BY <1>1, <1>3, <2>1, <2>3, <2>4 DEF TrackInv
<1>10. MispInv'
  <2>1. ASSUME NEW d \in S!Connections
        PROVE  Accounted(d)'
    <3>1. PICK T, U : /\ S!Of(misp_events, d) = T \cup U /\ T \cap U = {}
                      /\ ToldAt(misp_events, d, T) /\ DueAt(misp_events, d, U)
      BY <1>3 DEF MispInv, Accounted
    <3>2. ToldAt(misp_events, d, T)'
      <4>1. \A r : S!IsAccount(r, d) => S!IsAccount(r, d)'
        BY <1>3, <1>6, AccountsStay DEF SessionType
      <4> QED
        BY <1>1, <1>2, <3>1, <4>1 DEF ToldAt
    <3>3. DueAt(misp_events, d, U)'
      BY <1>1, <1>2, <1>6, <3>1 DEF DueAt, S!Due
    <3> QED
      BY <1>2, <3>1, <3>2, <3>3 DEF Accounted
  <2> QED
    BY <1>2, <1>3, <2>1 DEF MispInv
<1>11. FeedsInv'
  <2>1. DOMAIN meta' = Opened' /\ \A d \in Opened' : meta'[d] = done'[d]
    BY <1>2, <1>3, <1>4, <1>6 DEF FeedsInv, Opened
  <2>2. \A d \in S!Connections : life[d] = "closed" => done'[d] = done[d]
    BY <1>1, <1>6
  <2> QED
    BY <1>1, <1>2, <1>3, <2>1, <2>2 DEF FeedsInv
<1>12. GaugeInv'
  BY <1>1, <1>2, <1>3 DEF GaugeInv
<1> QED
  BY <1>7, <1>8, <1>9, <1>10, <1>11, <1>12 DEF SessionInv

\* MISP learns of a session it knows, and the rest stays.
LEMMA Learns ==
  ASSUME SessionInv, NEW c \in DOMAIN tracking, NEW track \in Track,
         track.event_created = tracking[c].event_created,
         c \notin failed => track.activity = tracking[c].activity,
         c \in failed => S!has_activity(track.activity),
         tracking' = S!With(tracking, c, track),
         UNCHANGED <<life, done, sessions, misp_events, meta, published, gauge, failed, stopped,
                     told, owed>>,
         \A a \in answered' : a.session = a.of
  PROVE  SessionInv'
<1>1. /\ SessionType /\ TablesInv /\ TrackInv /\ MispInv /\ FeedsInv /\ GaugeInv
  BY DEF SessionInv
<1>2. Opened' = Opened /\ Closed' = Closed
  BY DEF Opened, Closed
<1>3. SessionType'
  BY <1>1, <1>2 DEF SessionType
<1>4. TablesInv' /\ FeedsInv' /\ GaugeInv'
  BY <1>1, <1>2 DEF TablesInv, FeedsInv, GaugeInv
<1>5. \A d : S!Due(d)' <=> S!Due(d)
  BY DEF S!Due
<1>6. MispInv'
  BY <1>1, <1>5, AccountsKept
<1>7. TrackInv'
  <2>1. /\ DOMAIN tracking' = DOMAIN tracking /\ tracking'[c] = track
        /\ \A d \in DOMAIN tracking \ {c} : tracking'[d] = tracking[d]
    <3> DEFINE t == S!With(tracking, c, track)
    <3>1. /\ DOMAIN t = DOMAIN tracking \cup {c} /\ t[c] = track
          /\ \A d \in DOMAIN tracking \ {c} : t[d] = tracking[d]
      BY DEF S!With
    <3>2. tracking' = t
      OBVIOUS
    <3> HIDE DEF t
    <3> QED
      BY <3>1, <3>2
  <2>2. ASSUME NEW d \in S!Connections, life'[d] # "new"
        PROVE  /\ tracking'[d] \in Track
               /\ d \notin failed' => tracking'[d].activity = done'[d]
               /\ d \in failed' => S!has_activity(tracking'[d].activity)
               /\ tracking'[d].event_created <=>
                    life'[d] = "closed" /\ d \notin failed' /\ S!has_activity(done'[d])
    <3>1. CASE d = c
      BY <1>1, <2>1, <2>2, <3>1 DEF TrackInv
    <3>2. CASE d # c
      BY <1>1, <2>1, <2>2, <3>2 DEF TrackInv
    <3> QED
      BY <3>1, <3>2
  <2> QED
    BY <1>1, <2>1, <2>2 DEF TrackInv
<1> QED
  BY <1>3, <1>4, <1>6, <1>7 DEF SessionInv

\* Only what concerns no report changes.
LEMMA SessionStays ==
  ASSUME SessionInv,
         UNCHANGED <<life, done, sessions, tracking, misp_events, meta, published, gauge, failed, stopped,
                     told, owed>>,
         \A a \in answered' : a.session = a.of
  PROVE  SessionInv'
<1>1. Opened' = Opened /\ Closed' = Closed
  BY DEF Opened, Closed
<1>2. SessionType' /\ TablesInv' /\ TrackInv' /\ FeedsInv' /\ GaugeInv'
  <2>1. SessionType'
    BY <1>1 DEF SessionInv, SessionType
  <2>2. TablesInv' /\ TrackInv'
    BY <1>1 DEF SessionInv, TablesInv, TrackInv
  <2>3. FeedsInv' /\ GaugeInv'
    BY <1>1 DEF SessionInv, FeedsInv, GaugeInv
  <2> QED
    BY <2>1, <2>2, <2>3
<1>3. \A d : S!Due(d)' <=> S!Due(d)
  BY DEF S!Due
<1>4. MispInv'
  BY <1>3, AccountsKept DEF SessionInv
<1> QED
  BY <1>2, <1>4 DEF SessionInv

LEMMA EndsLate ==
  ASSUME SessionInv, NEW c \in S!Connections, S!Late(c, "file")
  PROVE  SessionInv'
<1>1. /\ life[c] = "closed" /\ S!Emitted(c, "file", FALSE)
      /\ UNCHANGED <<life, done, lookups, answered, stopped, told, owed>>
  BY DEF S!Late
<1>2. /\ tracking' = IF c \in failed
                     THEN S!With(tracking, c,
                            [tracking[c] EXCEPT !.activity = Append(tracking[c].activity, "file")])
                     ELSE tracking
      /\ UNCHANGED <<meta, misp_events, published, gauge, failed, sessions>>
  BY <1>1, EmittedLate
<1>3. \A a \in answered' : a.session = a.of
  BY <1>1 DEF SessionInv, SessionType
<1>4. CASE c \in failed
  <2> DEFINE track == [tracking[c] EXCEPT !.activity = Append(tracking[c].activity, "file")]
  <2>1. c \in DOMAIN tracking /\ tracking[c] \in Track /\ tracking[c].activity \in Seq(S!Activities)
    BY <1>1 DEF SessionInv, TrackInv, Track
  <2>2. "file" \in S!Activities
    BY DEF S!Activities
  <2>3. Append(tracking[c].activity, "file") \in Seq(S!Activities)
    BY <2>1, <2>2, AppendProperties
  <2>4. /\ track \in Track /\ track.event_created = tracking[c].event_created
        /\ track.activity = Append(tracking[c].activity, "file")
    BY <2>1, <2>3 DEF Track
  <2>5. S!has_activity(track.activity)
    BY <2>1, <2>4, ActivityIs
  <2>6. tracking' = S!With(tracking, c, track)
    BY <1>2, <1>4
  <2> HIDE DEF track
  <2> QED
    BY <1>1, <1>2, <1>3, <1>4, <2>1, <2>4, <2>5, <2>6, Learns
<1>5. CASE c \notin failed
  BY <1>1, <1>2, <1>3, <1>5, SessionStays
<1> QED
  BY <1>4, <1>5

LEMMA Answers ==
  ASSUME SessionInv, NEW c \in S!Connections, S!LookupAnswers(c)
  PROVE  SessionInv'
<1> DEFINE e == S!emit(sessions["misp"], c, "result", TRUE)
           s == e.session
           who == Opened \cup failed
<1>1. /\ answered' = (IF s = S!NoSession THEN answered ELSE answered \cup {[session |-> s, of |-> c]})
      /\ S!mispWrite(s, "result", FALSE)
      /\ UNCHANGED <<life, done, sessions, meta, published, gauge, failed, late, stopped, told, owed>>
  BY DEF S!LookupAnswers
<1>2. who \in SUBSET S!Connections /\ TableOf(sessions["misp"], who) /\ TRUE \in BOOLEAN
  BY DEF SessionInv, SessionType, TablesInv, Opened, Closed
<1>3. c \in who => s = c
  <2> HIDE DEF who
  <2> SUFFICES ASSUME c \in who
               PROVE  s = c
    OBVIOUS
  <2>1. e = [session |-> c, table |-> sessions["misp"]]
    BY <1>2, Emits
  <2> HIDE DEF e
  <2> QED
    BY <2>1
<1>4. c \notin who => s = S!NoSession
  <2> HIDE DEF who
  <2> SUFFICES ASSUME c \notin who
               PROVE  s = S!NoSession
    OBVIOUS
  <2>1. e = [session |-> S!NoSession, table |-> sessions["misp"]]
    BY <1>2, EmitsNothing
  <2> HIDE DEF e
  <2> QED
    BY <2>1
<1> HIDE DEF s
<1>5. \A a \in answered : a.session = a.of
  BY DEF SessionInv, SessionType
<1>6. \A a \in answered' : a.session = a.of
  BY <1>1, <1>3, <1>4, <1>5
<1>7. CASE c \in who
  <2>1. s = c /\ c # S!NoSession /\ c \in DOMAIN tracking /\ tracking[c] \in Track
    BY <1>3, <1>7, ConnectionsAre DEF SessionInv, SessionType, TrackInv, Opened, Closed
  <2>2. S!Tracked(c, "result") = tracking[c] /\ ~S!mispCreates(c, "result")
    BY <2>1 DEF S!Tracked, S!mispCreates, S!Activities, Track
  <2>3. misp_events' = misp_events /\ tracking' = S!With(tracking, c, tracking[c])
    BY <1>1, <2>1, <2>2 DEF S!mispWrite
  <2>4. c \in failed => S!has_activity(tracking[c].activity)
    BY DEF SessionInv, SessionType, TrackInv, Closed
  <2> QED
    BY <1>1, <1>6, <2>1, <2>3, <2>4, Learns
<1>8. CASE c \notin who
  <2>1. UNCHANGED <<tracking, misp_events>>
    BY <1>1, <1>4, <1>8 DEF S!mispWrite
  <2> QED
    BY <1>1, <1>6, <2>1, SessionStays
<1> QED
  BY <1>7, <1>8

OpenOf(p) == {c \in S!Connections : c[1] = p /\ life[c] = "open"}

\* The open sessions of a protocol, counted.
LEMMA OpenCounted ==
  ASSUME SessionInv, NEW p \in S!Protocols, NEW c \in S!Connections, c[1] = p
  PROVE  /\ Cardinality(OpenOf(p)) \in Nat /\ gauge[p] = Cardinality(OpenOf(p))
         /\ life[c] # "open" => Cardinality(OpenOf(p) \cup {c}) = gauge[p] + 1
         /\ life[c] = "open" => gauge[p] > 0 /\ Cardinality(OpenOf(p) \ {c}) = gauge[p] - 1
<1>1. OpenOf(p) \in SUBSET DOMAIN tracking /\ IsFiniteSet(DOMAIN tracking)
  BY DEF OpenOf, SessionInv, TrackInv
<1>2. IsFiniteSet(OpenOf(p)) /\ gauge[p] = Cardinality(OpenOf(p))
  BY <1>1, FS_Subset DEF SessionInv, GaugeInv, OpenOf
<1>3. Cardinality(OpenOf(p)) \in Nat
  BY <1>2, FS_CardinalityType
<1>4. ASSUME life[c] # "open"
      PROVE  Cardinality(OpenOf(p) \cup {c}) = gauge[p] + 1
  <2>1. c \notin OpenOf(p)
    BY <1>4 DEF OpenOf
  <2>2. Cardinality(OpenOf(p) \cup {c}) = Cardinality(OpenOf(p)) + 1
    BY <1>2, <2>1, FS_AddElement
  <2> QED
    BY <1>2, <2>2
<1>5. ASSUME life[c] = "open"
      PROVE  gauge[p] > 0 /\ Cardinality(OpenOf(p) \ {c}) = gauge[p] - 1
  <2>1. c \in OpenOf(p)
    BY <1>5 DEF OpenOf
  <2>2. Cardinality(OpenOf(p) \ {c}) = Cardinality(OpenOf(p)) - 1
    BY <1>2, <2>1, FS_RemoveElement
  <2>3. Cardinality(OpenOf(p)) # 0
    BY <1>2, <2>1, FS_EmptySet
  <2> QED
    BY <1>2, <1>3, <2>2, <2>3
<1> QED
  BY <1>2, <1>3, <1>4, <1>5

LEMMA Connects ==
  ASSUME SessionInv, NEW c \in S!Connections, S!Connect(c)
  PROVE  SessionInv'
<1>1. /\ life[c] = "new" /\ life' = [life EXCEPT ![c] = "open"]
      /\ S!Emitted(c, "connect", FALSE)
      /\ UNCHANGED <<done, answered, late, stopped, told, owed>>
  BY DEF S!Connect
<1>2. /\ tracking' = S!With(tracking, c, S!NewTrack)
      /\ meta' = S!With(meta, c, <<>>)
      /\ gauge' = [gauge EXCEPT ![c[1]] = gauge[c[1]] + 1]
      /\ UNCHANGED <<misp_events, published, failed>>
  BY <1>1, EmittedConnect
<1>3. /\ sessions' = [p \in S!Plugins |-> sessions'[p]]
      /\ TableOf(sessions'["misp"], (Opened \cup failed) \cup {c})
      /\ TableOf(sessions'["hpfeeds"], Opened \cup {c})
      /\ TableOf(sessions'["prometheus"], Opened \cup {c})
  BY <1>1, EmittedConnect
<1>4. /\ SessionType /\ TablesInv /\ TrackInv /\ MispInv /\ FeedsInv /\ GaugeInv
      /\ done[c] = <<>> /\ c \notin failed /\ ~S!has_activity(done[c])
  BY <1>1, ActivityIs DEF SessionInv, SessionType, Closed
<1>5. /\ life' \in [S!Connections -> {"new", "open", "closed"}]
      /\ \A d \in S!Connections : life'[d] = IF d = c THEN "open" ELSE life[d]
  BY <1>1, <1>4 DEF SessionType
<1>6. Opened' = Opened \cup {c} /\ Closed' = Closed
  BY <1>1, <1>5 DEF Opened, Closed
<1>7. SessionType'
  BY <1>1, <1>2, <1>4, <1>5, <1>6 DEF SessionType
<1>8. TablesInv'
  <2>1. Opened' \cup failed' = (Opened \cup failed) \cup {c}
    BY <1>2, <1>6
  <2> QED
    BY <1>3, <1>6, <2>1 DEF TablesInv
<1>9. TrackInv'
  <2>1. /\ DOMAIN tracking' = DOMAIN tracking \cup {c} /\ tracking'[c] = S!NewTrack
        /\ \A d \in DOMAIN tracking \ {c} : tracking'[d] = tracking[d]
    BY <1>2 DEF S!With
  <2>2. S!NewTrack \in Track /\ S!NewTrack.activity = <<>> /\ ~S!NewTrack.event_created
    BY EmptySeq DEF S!NewTrack, Track
  <2>3. DOMAIN tracking' = {d \in S!Connections : life'[d] # "new"} /\ IsFiniteSet(DOMAIN tracking')
    <3>1. DOMAIN tracking = {d \in S!Connections : life[d] # "new"} /\ IsFiniteSet(DOMAIN tracking)
      BY <1>4 DEF TrackInv
    <3>2. IsFiniteSet(DOMAIN tracking \cup {c})
      BY <3>1, FS_AddElement
    <3> QED
      BY <1>5, <2>1, <3>1, <3>2
  <2>4. ASSUME NEW d \in S!Connections, life'[d] # "new"
        PROVE  /\ tracking'[d] \in Track
               /\ d \notin failed' => tracking'[d].activity = done'[d]
               /\ d \in failed' => S!has_activity(tracking'[d].activity)
               /\ tracking'[d].event_created <=>
                    life'[d] = "closed" /\ d \notin failed' /\ S!has_activity(done'[d])
    <3>1. CASE d = c
      BY <1>1, <1>2, <1>4, <1>5, <2>1, <2>2, <3>1
    <3>2. CASE d # c
      BY <1>1, <1>2, <1>4, <1>5, <2>1, <2>4, <3>2 DEF TrackInv
    <3> QED
      BY <3>1, <3>2
  <2> QED
    BY <2>3, <2>4 DEF TrackInv
<1>10. MispInv'
  <2>1. \A d \in S!Connections : S!Due(d)' <=> S!Due(d)
    BY <1>1, <1>2, <1>4, <1>5 DEF S!Due
  <2> QED
    BY <1>1, <1>2, <1>4, <2>1, AccountsKept
<1>11. FeedsInv'
  <2>1. DOMAIN meta' = Opened'
    BY <1>2, <1>4, <1>6 DEF FeedsInv, S!With
  <2>2. \A d \in Opened' : meta'[d] = done'[d]
    BY <1>1, <1>2, <1>4, <1>6 DEF FeedsInv, S!With
  <2>3. \A d \in S!Connections : life'[d] = "closed" <=> life[d] = "closed"
    BY <1>1, <1>5
  <2> QED
    BY <1>1, <1>2, <1>4, <2>1, <2>2, <2>3 DEF FeedsInv
<1>12. GaugeInv'
  <2>1. ASSUME NEW p \in S!Protocols
        PROVE  gauge'[p] \in Nat /\ gauge'[p] = Cardinality(OpenOf(p)')
    <3>1. CASE p = c[1]
      <4>1. OpenOf(p)' = OpenOf(p) \cup {c}
        BY <1>5, <3>1 DEF OpenOf
      <4>2. gauge'[p] = gauge[p] + 1
        BY <1>2, <1>4, <3>1 DEF GaugeInv
      <4>3. Cardinality(OpenOf(p) \cup {c}) = gauge[p] + 1 /\ gauge[p] \in Nat
        BY <1>1, <3>1, OpenCounted
      <4> QED
        BY <4>1, <4>2, <4>3
    <3>2. CASE p # c[1]
      <4>1. OpenOf(p)' = OpenOf(p)
        BY <1>5, <3>2 DEF OpenOf
      <4>2. gauge'[p] = gauge[p] /\ gauge[p] \in Nat /\ gauge[p] = Cardinality(OpenOf(p))
        BY <1>2, <1>4, <3>2 DEF GaugeInv, OpenOf
      <4> QED
        BY <4>1, <4>2
    <3> QED
      BY <3>1, <3>2
  <2>2. gauge' \in [S!Protocols -> Nat]
    BY <1>2, <1>4, <2>1 DEF GaugeInv
  <2> QED
    BY <2>1, <2>2 DEF GaugeInv, OpenOf
<1> QED
  BY <1>7, <1>8, <1>9, <1>10, <1>11, <1>12 DEF SessionInv

LEMMA Closes ==
  ASSUME SessionInv, NEW c \in S!Connections, S!Close(c)
  PROVE  SessionInv'
<1> DEFINE did == S!has_activity(done[c])
<1>1. PICK refused \in BOOLEAN : S!Emitted(c, "closed", refused)
  BY DEF S!Close
<1>2. /\ life[c] = "open" /\ life' = [life EXCEPT ![c] = "closed"]
      /\ UNCHANGED <<done, answered, late, stopped, told, owed>>
  BY DEF S!Close
<1>3. /\ IF did /\ ~refused
         THEN /\ misp_events' = Append(misp_events, S!create_session_event(c, done[c]))
              /\ tracking' = S!With(tracking, c, [tracking[c] EXCEPT !.event_created = TRUE])
         ELSE misp_events' = misp_events /\ tracking' = S!With(tracking, c, tracking[c])
      /\ failed' = IF did /\ refused THEN failed \cup {c} ELSE failed
  BY <1>1, <1>2, EmittedClosed
<1>4. /\ meta' = S!Without(meta, c)
      /\ published' = Append(published, [session |-> c, activity |-> done[c]])
      /\ gauge' = [gauge EXCEPT ![c[1]] = gauge[c[1]] - 1]
  BY <1>1, <1>2, EmittedClosed
<1>5. /\ sessions' = [p \in S!Plugins |-> sessions'[p]]
      /\ TableOf(sessions'["misp"], (Opened \ {c}) \cup failed')
      /\ TableOf(sessions'["hpfeeds"], Opened \ {c})
      /\ TableOf(sessions'["prometheus"], Opened \ {c})
  BY <1>1, <1>2, EmittedClosed
<1>6. /\ SessionType /\ TablesInv /\ TrackInv /\ MispInv /\ FeedsInv /\ GaugeInv
      /\ c \notin failed /\ c \in Opened /\ done[c] \in Seq(S!Activities)
  BY <1>2 DEF SessionInv, SessionType, Opened, Closed
<1>7. /\ life' \in [S!Connections -> {"new", "open", "closed"}]
      /\ \A d \in S!Connections : life'[d] = IF d = c THEN "closed" ELSE life[d]
  BY <1>2, <1>6 DEF SessionType
<1>8. Opened' = Opened \ {c} /\ Closed' = Closed \cup {c} /\ did \in BOOLEAN
  BY <1>7 DEF Opened, Closed, S!has_activity
<1> HIDE DEF did
<1>9. SessionType'
  <2>1. failed' \subseteq {d \in Closed' : S!has_activity(done'[d])}
    BY <1>2, <1>3, <1>6, <1>8 DEF SessionType, did
  <2> QED
    BY <1>2, <1>6, <1>7, <2>1 DEF SessionType
<1>10. TablesInv'
  BY <1>5, <1>8 DEF TablesInv
<1>11. TrackInv'
  <2> DEFINE track == IF did /\ ~refused THEN [tracking[c] EXCEPT !.event_created = TRUE]
                      ELSE tracking[c]
  <2>1. /\ c \in DOMAIN tracking /\ tracking[c] \in Track /\ tracking[c].activity = done[c]
        /\ ~tracking[c].event_created
    BY <1>2, <1>6 DEF TrackInv
  <2>2. /\ track \in Track /\ track.activity = done[c] /\ (track.event_created <=> did /\ ~refused)
    <3>1. CASE did /\ ~refused
      BY <2>1, <3>1 DEF Track
    <3>2. CASE ~(did /\ ~refused)
      BY <2>1, <3>2
    <3> QED
      BY <3>1, <3>2
  <2>3. tracking' = S!With(tracking, c, track)
    BY <1>3
  <2> HIDE DEF track
  <2>4. /\ DOMAIN tracking' = DOMAIN tracking /\ tracking'[c] = track
        /\ \A d \in DOMAIN tracking \ {c} : tracking'[d] = tracking[d]
    BY <2>1, <2>3 DEF S!With
  <2>5. /\ DOMAIN tracking' = {d \in S!Connections : life'[d] # "new"}
        /\ IsFiniteSet(DOMAIN tracking')
    BY <1>2, <1>6, <1>7, <2>4 DEF TrackInv
  <2>6. ASSUME NEW d \in S!Connections, life'[d] # "new"
        PROVE  /\ tracking'[d] \in Track
               /\ d \notin failed' => tracking'[d].activity = done'[d]
               /\ d \in failed' => S!has_activity(tracking'[d].activity)
               /\ tracking'[d].event_created <=>
                    life'[d] = "closed" /\ d \notin failed' /\ S!has_activity(done'[d])
    <3>1. CASE d = c
      <4>1. /\ tracking'[d] = track /\ done'[d] = done[c] /\ life'[d] = "closed"
            /\ (d \in failed' <=> did /\ refused)
        BY <1>2, <1>3, <1>6, <1>7, <2>4, <3>1
      <4> QED
        BY <2>2, <4>1 DEF did
    <3>2. CASE d # c
      <4>1. /\ tracking'[d] = tracking[d] /\ done'[d] = done[d] /\ life'[d] = life[d]
            /\ (d \in failed' <=> d \in failed)
        BY <1>2, <1>3, <1>6, <1>7, <2>4, <2>6, <3>2 DEF TrackInv
      <4> QED
        BY <1>6, <2>6, <4>1 DEF TrackInv
    <3> QED
      BY <3>1, <3>2
  <2> QED
    BY <2>5, <2>6 DEF TrackInv
<1>12. MispInv'
  <2> DEFINE e == S!create_session_event(c, done[c])
  <2>1. e \in Made /\ e.session = c
    BY <1>6, EventsAreMade
  <2>2. misp_events \in Seq(Made)
    BY <1>6 DEF MispInv
  <2>3. ~S!Due(c)
    BY <1>2 DEF S!Due
  <2>4. \A d \in S!Connections \ {c} : (S!Due(d)' <=> S!Due(d)) /\ (d \in failed' <=> d \in failed)
    BY <1>2, <1>3, <1>7 DEF S!Due
  <2>5. S!Due(c)' <=> did /\ ~refused
    BY <1>2, <1>3, <1>6, <1>7 DEF S!Due, did
  <2>6. /\ \A r, d : S!IsAccount(r, d)' <=> S!IsAccount(r, d)
        /\ \A d : d \in failed => d \in failed'
    BY <1>2, <1>3 DEF S!IsAccount
  <2>7. CASE did /\ ~refused
    <3>1. misp_events' = Append(misp_events, e)
      BY <1>3, <2>7
    <3>2. e = S!create_session_event(c, done'[c])
      BY <1>2
    <3> HIDE DEF e
    <3>3. misp_events' \in Seq(Made) /\ Len(misp_events) \in Nat
      BY <2>1, <2>2, <3>1, AppendProperties
    <3>4. /\ misp_events'[Len(misp_events) + 1] = e
          /\ S!Of(misp_events', c) = S!Of(misp_events, c) \cup {Len(misp_events) + 1}
          /\ Len(misp_events) + 1 \notin S!Of(misp_events, c)
          /\ \A d : d # c => S!Of(misp_events', d) = S!Of(misp_events, d)
          /\ \A d : \A i \in S!Of(misp_events, d) : misp_events'[i] = misp_events[i]
      <4>1. OneMore(misp_events, misp_events', e)
        BY <2>1, <2>2, <3>1, ReportAdded
      <4>2. /\ S!Of(misp_events', e.session) = S!Of(misp_events, e.session) \cup {Len(misp_events) + 1}
            /\ Len(misp_events) + 1 \notin S!Of(misp_events, e.session)
        BY <2>1, <2>2, <3>1, OneMoreOf
      <4> QED
        BY <2>1, <4>1, <4>2 DEF OneMore
    <3>5. ASSUME NEW d \in S!Connections
          PROVE  Accounted(d)'
      <4>1. PICK T, U : /\ S!Of(misp_events, d) = T \cup U /\ T \cap U = {}
                        /\ ToldAt(misp_events, d, T) /\ DueAt(misp_events, d, U)
        BY <1>6 DEF MispInv, Accounted
      <4>2. \A i \in T \cup U : misp_events'[i] = misp_events[i]
        BY <3>4, <4>1
      <4>3. ToldAt(misp_events, d, T)'
        BY <1>2, <2>6, <4>1, <4>2 DEF ToldAt
      <4>4. CASE d = c
        <5>1. U = {}
          BY <2>3, <4>1, <4>4 DEF DueAt
        <5>2. PICK k : k = Len(misp_events) + 1
          OBVIOUS
        <5>3. S!Due(c)' /\ misp_events'[k] = S!create_session_event(c, done'[c])
          BY <2>5, <2>7, <3>2, <3>4, <5>2
        <5>4. DueAt(misp_events, c, {k})'
          BY <5>3 DEF DueAt
        <5>5. S!Of(misp_events', c) = T \cup {k} /\ T \cap {k} = {}
          BY <3>4, <4>1, <4>4, <5>1, <5>2
        <5> QED
          BY <4>3, <4>4, <5>4, <5>5 DEF Accounted
      <4>5. CASE d # c
        <5>1. DueAt(misp_events, d, U)'
          BY <1>2, <2>4, <4>1, <4>2, <4>5 DEF DueAt
        <5> QED
          BY <3>4, <4>1, <4>3, <4>5, <5>1 DEF Accounted
      <4> QED
        BY <4>4, <4>5
    <3> QED
      BY <3>3, <3>5 DEF MispInv
  <2>8. CASE ~(did /\ ~refused)
    <3>1. misp_events' = misp_events
      BY <1>3, <2>8
    <3>2. ASSUME NEW d \in S!Connections
          PROVE  Accounted(d)'
      <4>1. PICK T, U : /\ S!Of(misp_events, d) = T \cup U /\ T \cap U = {}
                        /\ ToldAt(misp_events, d, T) /\ DueAt(misp_events, d, U)
        BY <1>6 DEF MispInv, Accounted
      <4>2. ToldAt(misp_events, d, T)'
        BY <1>2, <2>6, <3>1, <4>1 DEF ToldAt
      <4>3. S!Due(d)' <=> S!Due(d)
        BY <2>3, <2>4, <2>5, <2>8
      <4>4. DueAt(misp_events, d, U)'
        BY <1>2, <3>1, <4>1, <4>3 DEF DueAt
      <4> QED
        BY <3>1, <4>1, <4>2, <4>4 DEF Accounted
    <3> QED
      BY <2>2, <3>1, <3>2 DEF MispInv
  <2> QED
    BY <2>7, <2>8
<1>13. FeedsInv'
  <2> DEFINE E == [session : S!Connections, activity : Seq(S!Activities)]
             e == [session |-> c, activity |-> done[c]]
  <2>1. e \in E /\ e.session = c /\ e.activity = done[c] /\ published \in Seq(E)
    BY <1>6 DEF FeedsInv
  <2>2. S!Of(published, c) = {}
    BY <1>2, <1>6 DEF FeedsInv
  <2>3. published' = Append(published, e)
    BY <1>4
  <2> HIDE DEF e, E
  <2>4. published' \in Seq(E) /\ OneMore(published, published', e)
    BY <2>1, <2>3, ReportAdded
  <2>5. S!Of(published', c) = {Len(published) + 1} /\ published'[Len(published) + 1] = e
    BY <2>1, <2>2, <2>4 DEF OneMore
  <2>6. \A d \in S!Connections \ {c} :
          /\ S!Of(published', d) = S!Of(published, d)
          /\ \A i \in S!Of(published, d) : published'[i] = published[i]
    BY <2>1, <2>4 DEF OneMore
  <2>7. DOMAIN meta' = Opened' /\ \A d \in Opened' : meta'[d] = done'[d]
    BY <1>2, <1>4, <1>6, <1>8 DEF FeedsInv, S!Without
  <2>8. ASSUME NEW d \in S!Connections
        PROVE  IF life'[d] = "closed"
               THEN \E i : S!Of(published', d) = {i} /\ published'[i].activity = done'[d]
               ELSE S!Of(published', d) = {}
    <3>1. CASE d = c
      BY <1>2, <1>7, <2>1, <2>5, <3>1
    <3>2. CASE d # c
      <4>1. life'[d] = life[d] /\ done'[d] = done[d] /\ S!Of(published', d) = S!Of(published, d)
        BY <1>2, <1>7, <2>6, <3>2
      <4>2. IF life[d] = "closed"
            THEN \E i : S!Of(published, d) = {i} /\ published[i].activity = done[d]
            ELSE S!Of(published, d) = {}
        BY <1>6 DEF FeedsInv
      <4>3. \A i \in S!Of(published, d) : published'[i] = published[i]
        BY <2>6, <3>2
      <4> QED
        BY <4>1, <4>2, <4>3
    <3> QED
      BY <3>1, <3>2
  <2> QED
    BY <2>4, <2>7, <2>8 DEF FeedsInv, E
<1>14. GaugeInv'
  <2>1. ASSUME NEW p \in S!Protocols
        PROVE  gauge'[p] \in Nat /\ gauge'[p] = Cardinality(OpenOf(p)')
    <3>1. CASE p = c[1]
      <4>1. OpenOf(p)' = OpenOf(p) \ {c}
        BY <1>7, <3>1 DEF OpenOf
      <4>2. gauge'[p] = gauge[p] - 1
        BY <1>4, <1>6, <3>1 DEF GaugeInv
      <4>3. Cardinality(OpenOf(p) \ {c}) = gauge[p] - 1 /\ gauge[p] \in Nat /\ gauge[p] > 0
        BY <1>2, <3>1, OpenCounted
      <4> QED
        BY <4>1, <4>2, <4>3
    <3>2. CASE p # c[1]
      <4>1. OpenOf(p)' = OpenOf(p)
        BY <1>7, <3>2 DEF OpenOf
      <4>2. gauge'[p] = gauge[p] /\ gauge[p] \in Nat /\ gauge[p] = Cardinality(OpenOf(p))
        BY <1>4, <1>6, <3>2 DEF GaugeInv, OpenOf
      <4> QED
        BY <4>1, <4>2
    <3> QED
      BY <3>1, <3>2
  <2>2. gauge' \in [S!Protocols -> Nat]
    BY <1>4, <1>6, <2>1 DEF GaugeInv
  <2> QED
    BY <2>1, <2>2 DEF GaugeInv, OpenOf
<1> QED
  BY <1>9, <1>10, <1>11, <1>12, <1>13, <1>14 DEF SessionInv

LEMMA WholeSubSeq ==
  ASSUME NEW E, NEW s \in Seq(E)
  PROVE  SubSeq(s, 1, Len(s)) = s /\ Len(s) \in 0 .. Len(s)
<1>1. s = [i \in 1 .. Len(s) |-> s[i]] /\ Len(s) \in Nat
  OBVIOUS
<1>2. SubSeq(s, 1, Len(s)) = [i \in 1 .. Len(s) |-> s[i]]
  BY <1>1
<1> QED
  BY <1>1, <1>2

\* At the stop MISP reports what it has not reported, or some of it.
LEMMA Stops ==
  ASSUME SessionInv, S!stop
  PROVE  SessionInv'
<1> DEFINE left == {s \in DOMAIN tracking : ~tracking[s].event_created
                                             /\ S!has_activity(tracking[s].activity)}
           report(s) == S!create_session_event(s, tracking[s].activity)
           inOrder(s) == S!SetToSeq(s)
<1>1. PICK said \in SUBSET left :
        /\ stopped' = (IF said = left THEN "all" ELSE "cut") /\ told' = said
        /\ misp_events' = misp_events \o [i \in DOMAIN inOrder(said) |-> report(inOrder(said)[i])]
  BY DEF S!stop
<1>2. /\ stopped = "no"
      /\ owed' = {c \in S!Connections : S!has_activity(done[c]) /\ (life[c] = "open" \/ c \in failed)}
      /\ UNCHANGED <<life, done, sessions, answered, tracking, meta, published, gauge, failed>>
  BY DEF S!stop
<1>3. /\ SessionType /\ TablesInv /\ TrackInv /\ MispInv /\ FeedsInv /\ GaugeInv
      /\ told = {} /\ owed = {}
  BY <1>2 DEF SessionInv, SessionType
<1>4. Opened' = Opened /\ Closed' = Closed
  BY <1>2 DEF Opened, Closed
<1>5. /\ left \in SUBSET S!Connections /\ IsFiniteSet(left)
      /\ \A c \in left : tracking[c].activity \in Seq(S!Activities)
  <2>1. left \in SUBSET DOMAIN tracking /\ IsFiniteSet(DOMAIN tracking)
    BY <1>3 DEF TrackInv
  <2>2. IsFiniteSet(left)
    BY <2>1, FS_Subset
  <2> QED
    BY <1>3, <2>1, <2>2 DEF TrackInv, Track
<1>6. \A c \in S!Connections :
        /\ c \in left <=> S!has_activity(done[c]) /\ (life[c] = "open" \/ c \in failed)
        /\ c \in left /\ c \notin failed => tracking[c].activity = done[c]
  <2> SUFFICES ASSUME NEW c \in S!Connections
               PROVE  /\ c \in left <=> S!has_activity(done[c]) /\ (life[c] = "open" \/ c \in failed)
                      /\ c \in left /\ c \notin failed => tracking[c].activity = done[c]
    OBVIOUS
  <2>1. CASE life[c] = "new"
    <3>1. c \notin DOMAIN tracking /\ ~S!has_activity(done[c])
      BY <1>3, <2>1, ActivityIs DEF TrackInv, SessionType
    <3> QED
      BY <3>1
  <2>2. CASE life[c] # "new" /\ c \in failed
    <3>1. /\ c \in DOMAIN tracking /\ ~tracking[c].event_created
          /\ S!has_activity(tracking[c].activity) /\ S!has_activity(done[c])
      BY <1>3, <2>2 DEF TrackInv, SessionType
    <3> QED
      BY <2>2, <3>1
  <2>3. CASE life[c] # "new" /\ c \notin failed
    <3>1. /\ c \in DOMAIN tracking /\ tracking[c].activity = done[c]
          /\ (tracking[c].event_created <=> life[c] = "closed" /\ S!has_activity(done[c]))
          /\ life[c] \in {"open", "closed"}
      BY <1>3, <2>3 DEF TrackInv, SessionType
    <3> QED
      BY <2>3, <3>1
  <2> QED
    BY <2>1, <2>2, <2>3
<1> HIDE DEF left
<1>7. owed' = left
  BY <1>2, <1>5, <1>6
<1>8. SessionType' /\ TablesInv' /\ TrackInv' /\ FeedsInv' /\ GaugeInv'
  <2>1. SessionType'
    BY <1>1, <1>2, <1>3, <1>4, <1>5, <1>7 DEF SessionType
  <2>2. TablesInv' /\ TrackInv' /\ GaugeInv'
    BY <1>2, <1>3, <1>4 DEF TablesInv, TrackInv, GaugeInv
  <2>3. FeedsInv'
    BY <1>2, <1>3, <1>4 DEF FeedsInv
  <2> QED
    BY <2>1, <2>2, <2>3
<1>9. PICK order : order = inOrder(said)
  OBVIOUS
<1>10. PICK more : more = [i \in DOMAIN order |-> report(order[i])]
  OBVIOUS
<1>11. misp_events' = misp_events \o more
  BY <1>1, <1>9, <1>10
<1>12. order \in Seq(said) /\ \A x \in said : \E k : {i \in DOMAIN order : order[i] = x} = {k}
  <2>1. IsFiniteSet(said)
    BY <1>5, FS_Subset
  <2> QED
    BY <1>9, <2>1, ListedOnce
<1> HIDE DEF inOrder
<1>13. /\ DOMAIN more = DOMAIN order
       /\ \A i \in DOMAIN order : more[i] = report(order[i]) /\ order[i] \in said
  BY <1>10, <1>12
<1>14. \A i \in DOMAIN order : more[i] \in Made /\ more[i].session = order[i]
  <2> SUFFICES ASSUME NEW i \in DOMAIN order
               PROVE  more[i] \in Made /\ more[i].session = order[i]
    OBVIOUS
  <2>1. order[i] \in S!Connections /\ tracking[order[i]].activity \in Seq(S!Activities)
    BY <1>5, <1>13
  <2> QED
    BY <1>13, <2>1, EventsAreMade
<1>15. more \in Seq(Made)
  <2>1. DOMAIN order = 1 .. Len(order) /\ Len(order) \in Nat
    BY <1>12
  <2>2. more = [i \in 1 .. Len(order) |-> more[i]]
    BY <1>10, <1>13, <2>1
  <2> QED
    BY <1>13, <1>14, <2>1, <2>2
<1>16. \A c : S!Of(more, c) = {i \in DOMAIN order : order[i] = c}
  BY <1>13, <1>14 DEF S!Of
<1>17. misp_events \in Seq(Made) /\ misp_events' \in Seq(Made) /\ Joined(misp_events, more, misp_events')
  <2>1. misp_events \in Seq(Made)
    BY <1>3 DEF MispInv
  <2> QED
    BY <1>11, <1>15, <2>1, ReportsAdded
<1>18. ASSUME NEW c \in S!Connections
       PROVE  Accounted(c)'
  <2>1. /\ S!Of(misp_events', c) = S!Of(misp_events, c) \cup {Len(misp_events) + k : k \in S!Of(more, c)}
        /\ \A i \in S!Of(misp_events, c) : misp_events'[i] = misp_events[i]
        /\ \A k \in S!Of(more, c) : misp_events'[Len(misp_events) + k] = more[k]
    BY <1>17 DEF Joined
  <2>2. PICK U : U = S!Of(misp_events, c) /\ DueAt(misp_events, c, U)
    BY <1>3 DEF MispInv, Accounted, ToldAt
  <2>3. DueAt(misp_events, c, U)'
    BY <1>2, <2>1, <2>2 DEF DueAt, S!Due
  <2>4. CASE c \in said
    <3>1. PICK k : {i \in DOMAIN order : order[i] = c} = {k}
      BY <1>12, <2>4
    <3>2. S!Of(more, c) = {k} /\ k \in DOMAIN order /\ order[k] = c
      BY <1>16, <3>1
    <3>3. PICK i : i = Len(misp_events) + k
      OBVIOUS
    <3>4. i \notin U
      <4>1. k \in Nat /\ k > 0 /\ Len(misp_events) \in Nat
        BY <1>12, <1>17, <3>2
      <4>2. U \subseteq 1 .. Len(misp_events)
        BY <1>17, <2>2 DEF S!Of
      <4> QED
        BY <3>3, <4>1, <4>2
    <3>5. S!Of(misp_events', c) = {i} \cup U /\ misp_events'[i] = report(c)
      BY <1>13, <2>1, <2>2, <3>2, <3>3
    <3>6. PICK r : r = report(c)
      OBVIOUS
    <3>7. c \notin failed => S!IsAccount(r, c)'
      <4> SUFFICES ASSUME c \notin failed
                   PROVE  S!IsAccount(r, c)'
        OBVIOUS
      <4>1. tracking[c].activity = done[c] /\ done[c] \in Seq(S!Activities)
        BY <1>3, <1>6, <2>4 DEF SessionType
      <4>2. SubSeq(done[c], 1, Len(done[c])) = done[c] /\ Len(done[c]) \in 0 .. Len(done[c])
        BY <4>1, WholeSubSeq
      <4>3. r = S!create_session_event(c, SubSeq(done[c], 1, Len(done[c])))
        BY <3>6, <4>1, <4>2
      <4>4. S!IsAccount(r, c)
        BY <4>2, <4>3 DEF S!IsAccount
      <4> QED
        BY <1>2, <4>4 DEF S!IsAccount
    <3>8. ToldAt(misp_events, c, {i})'
      <4>1. misp_events'[i] = r
        BY <3>5, <3>6
      <4> QED
        BY <1>1, <1>2, <2>4, <3>7, <4>1 DEF ToldAt
    <3> QED
      BY <2>3, <3>4, <3>5, <3>8 DEF Accounted
  <2>5. CASE c \notin said
    <3>1. S!Of(misp_events', c) = {} \cup U
      BY <1>13, <1>16, <2>1, <2>2, <2>5
    <3>2. ToldAt(misp_events, c, {})'
      BY <1>1, <2>5 DEF ToldAt
    <3> QED
      BY <2>3, <3>1, <3>2 DEF Accounted
  <2> QED
    BY <2>4, <2>5
<1>19. MispInv'
  BY <1>17, <1>18 DEF MispInv
<1> QED
  BY <1>8, <1>19 DEF SessionInv

LEMMA SessionSteps ==
  ASSUME SessionInv, [S!OutputNext]_sessionVars
  PROVE  SessionInv'
<1>1. ASSUME NEW c \in S!Connections, S!LookupFails(c)
      PROVE  SessionInv'
  BY <1>1, SessionStays DEF S!LookupFails, SessionInv, SessionType
<1>2. CASE UNCHANGED sessionVars
  BY <1>2, SessionStays DEF sessionVars, SessionInv, SessionType
<1>3. CASE S!OutputNext
  BY <1>1, <1>3, Connects, Closes, Answers, Acts, EndsLate, Stops DEF S!OutputNext
<1> QED
  BY <1>2, <1>3

LEMMA SessionStarts ==
  ASSUME S!OutputInit
  PROVE  SessionInv
<1>1. /\ life = [c \in S!Connections |-> "new"] /\ done = [c \in S!Connections |-> <<>>]
      /\ sessions = [p \in S!Plugins |-> S!EmptyTable] /\ answered = {}
      /\ tracking = S!EmptyTable /\ misp_events = <<>> /\ meta = S!EmptyTable /\ published = <<>>
      /\ gauge = [p \in S!Protocols |-> 0] /\ failed = {} /\ stopped = "no" /\ told = {} /\ owed = {}
  BY DEF S!OutputInit
<1>2. Opened = {} /\ Closed = {} /\ DOMAIN S!EmptyTable = {}
  BY <1>1 DEF Opened, Closed, S!EmptyTable
<1>3. SessionType
  BY <1>1, <1>2, EmptySeq DEF SessionType
<1>4. TablesInv
  BY <1>1, <1>2, ConnectionsAre DEF TablesInv, TableOf
<1>5. TrackInv
  BY <1>1, <1>2, FS_EmptySet DEF TrackInv
<1>6. \A c : S!Of(<<>>, c) = {}
  BY DEF S!Of
<1>7. MispInv /\ FeedsInv
  <2>1. MispInv
    <3>1. \A c \in S!Connections : S!Of(misp_events, c) = {} /\ ~S!Due(c) /\ c \notin told
      BY <1>1, <1>6 DEF S!Due
    <3>2. \A c \in S!Connections : ToldAt(misp_events, c, {}) /\ DueAt(misp_events, c, {})
      BY <3>1 DEF ToldAt, DueAt
    <3>3. {} = {} \cup {} /\ {} \cap {} = {}
      OBVIOUS
    <3> QED
      BY <1>1, <3>1, <3>2, <3>3, EmptySeq DEF MispInv, Accounted
  <2>2. FeedsInv
    BY <1>1, <1>2, <1>6, EmptySeq DEF FeedsInv
  <2> QED
    BY <2>1, <2>2
<1>8. GaugeInv
  <2>1. \A p \in S!Protocols : {c \in S!Connections : c[1] = p /\ life[c] = "open"} = {}
    BY <1>1
  <2> QED
    BY <1>1, <2>1, FS_EmptySet DEF GaugeInv
<1> QED
  BY <1>3, <1>4, <1>5, <1>7, <1>8 DEF SessionInv

\* The counts of the reports.
LEMMA SessionInvImplies ==
  ASSUME SessionInv
  PROVE  S!ReportedOnce /\ S!AnswersAreOwn
<1>1. \A x : S!Cardinality({x}) = 1
  BY CardinalityInOutputs, FS_Singleton
<1>2. S!Cardinality({}) = 0 /\ \A x, y : x # y => S!Cardinality({x, y}) = 2
  <2>1. ASSUME NEW x, NEW y, x # y
        PROVE  S!Cardinality({x, y}) = 2
    <3>1. IsFiniteSet({x}) /\ Cardinality({x}) = 1 /\ y \notin {x} /\ {x, y} = {x} \cup {y}
      BY <2>1, FS_Singleton
    <3>2. Cardinality({x} \cup {y}) = 1 + 1
      BY <3>1, FS_AddElement
    <3> QED
      BY <3>1, <3>2, CardinalityInOutputs
  <2> QED
    BY <2>1, CardinalityInOutputs, FS_EmptySet
<1>3. ASSUME NEW c \in S!Connections
      PROVE  /\ S!Cardinality(S!Of(misp_events, c)) =
                  (IF S!Due(c) THEN 1 ELSE 0) + (IF c \in told THEN 1 ELSE 0)
             /\ c \notin failed => \A i \in S!Of(misp_events, c) : S!IsAccount(misp_events[i], c)
             /\ S!Due(c) => \E i \in S!Of(misp_events, c) :
                             misp_events[i] = S!create_session_event(c, done[c])
  <2>1. PICK T, U : /\ S!Of(misp_events, c) = T \cup U /\ T \cap U = {}
                    /\ ToldAt(misp_events, c, T) /\ DueAt(misp_events, c, U)
    BY DEF SessionInv, MispInv, Accounted
  <2>2. S!Cardinality(T \cup U) = (IF S!Due(c) THEN 1 ELSE 0) + (IF c \in told THEN 1 ELSE 0)
    <3>1. CASE S!Due(c) /\ c \in told
      <4>1. PICK i : T = {i}
        <5>1. \E i : T = {i}
          BY <2>1, <3>1, Zenon DEF ToldAt
        <5> QED
          BY <5>1
      <4>2. PICK k : U = {k}
        BY <2>1, <3>1 DEF DueAt
      <4>3. i # k /\ T \cup U = {i, k}
        BY <2>1, <4>1, <4>2
      <4> QED
        BY <1>2, <3>1, <4>3
    <3>2. CASE S!Due(c) /\ c \notin told
      <4>1. T = {} /\ \E k : U = {k}
        BY <2>1, <3>2 DEF ToldAt, DueAt
      <4>2. \E k : T \cup U = {k}
        BY <4>1
      <4> QED
        BY <1>1, <3>2, <4>2
    <3>3. CASE ~S!Due(c) /\ c \in told
      <4>1. U = {} /\ \E i : T = {i}
        BY <2>1, <3>3 DEF ToldAt, DueAt
      <4>2. \E i : T \cup U = {i}
        BY <4>1
      <4>3. S!Cardinality(T \cup U) = 1
        BY <1>1, <4>2
      <4> QED
        BY <3>3, <4>3
    <3>4. CASE ~S!Due(c) /\ c \notin told
      <4>1. T \cup U = {}
        BY <2>1, <3>4 DEF ToldAt, DueAt
      <4> QED
        BY <1>2, <3>4, <4>1
    <3> QED
      BY <3>1, <3>2, <3>3, <3>4
  <2>3. S!Due(c) => S!IsAccount(S!create_session_event(c, done[c]), c)
    <3>1. done[c] \in Seq(S!Activities)
      BY DEF SessionInv, SessionType
    <3>2. SubSeq(done[c], 1, Len(done[c])) = done[c] /\ Len(done[c]) \in 0 .. Len(done[c])
      BY <3>1, WholeSubSeq
    <3> QED
      BY <3>2 DEF S!IsAccount
  <2>4. c \notin failed => \A i \in T \cup U : S!IsAccount(misp_events[i], c)
    <3>1. c \notin failed => \A i \in T : S!IsAccount(misp_events[i], c)
      BY <2>1 DEF ToldAt
    <3>2. \A i \in U : S!IsAccount(misp_events[i], c)
      BY <2>1, <2>3 DEF DueAt
    <3> QED
      BY <3>1, <3>2
  <2>5. S!Due(c) => \E i \in U : misp_events[i] = S!create_session_event(c, done[c])
    BY <2>1 DEF DueAt
  <2> QED
    BY <2>1, <2>2, <2>4, <2>5
<1>4. ASSUME NEW c \in S!Connections
      PROVE  /\ S!Cardinality(S!Of(published, c)) = IF life[c] = "closed" THEN 1 ELSE 0
             /\ \A i \in S!Of(published, c) : published[i].activity = done[c]
  <2>1. IF life[c] = "closed"
        THEN \E i : S!Of(published, c) = {i} /\ published[i].activity = done[c]
        ELSE S!Of(published, c) = {}
    BY DEF SessionInv, FeedsInv
  <2> QED
    BY <1>1, <1>2, <2>1
<1>5. S!ReportedOnce
  <2>1. told \subseteq owed /\ (stopped = "all" => told = owed)
    BY DEF SessionInv, SessionType
  <2> QED
    BY <1>3, <1>4, <2>1 DEF S!ReportedOnce
<1>6. S!AnswersAreOwn
  BY CardinalityInOutputs DEF S!AnswersAreOwn, SessionInv, SessionType, GaugeInv
<1> QED
  BY <1>5, <1>6

\* A session that did something is reported to MISP once at its end and at the
\* stop if it was left then, and to HPFeeds once, with what it did and nothing
\* of another session, a late answer is written
\* with the session that asked, and sessions_active counts the open ones
\* (emit of core/output.py, misp.py, hpfeeds3.py and prometheus.py).
THEOREM ReportsAreOnce == MCSpec => []ReportedOnce
<1> DEFINE Inv == part = "session" => SessionInv
<1>1. MCInit => Inv
  BY SessionStarts DEF MCInit
<1>2. Inv /\ [MCNext]_<<part, sessionVars, abuseVars, deliverVars, sqlVars, virustotalVars>> => Inv'
  <2> SUFFICES ASSUME Inv, part' = "session",
                      [MCNext]_<<part, sessionVars, abuseVars, deliverVars, sqlVars, virustotalVars>>
               PROVE  SessionInv'
    OBVIOUS
  <2>1. part = "session" /\ [S!OutputNext]_sessionVars
    BY DEF MCNext
  <2> QED
    BY <2>1, SessionSteps
<1>3. Inv => ReportedOnce
  BY SessionInvImplies DEF ReportedOnce
<1> QED
  BY <1>1, <1>2, <1>3, PTL DEF MCSpec
=============================================================================
