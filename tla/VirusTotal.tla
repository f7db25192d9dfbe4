----------------------------- MODULE VirusTotal -----------------------------
(***************************************************************************)
(* output/virustotal.py: downloads and uploads are looked up, what is not  *)
(* known is submitted, and what was submitted gets a comment and a place in*)
(* a collection.  Every step is a request answered later, in any order;    *)
(* what was answered is remembered only for URLs, and files by their age.  *)
(*                                                                         *)
(* CachedFound is a seeded fault, used only to show that the property can  *)
(* fail.                                                                   *)
(***************************************************************************)
EXTENDS Naturals, FiniteSets, Bags

CONSTANTS Shasums, Urls,
          MaxFiles      \* bound: downloads and uploads

VARIABLES
    arrivals,     \* downloads and uploads so far
    old,          \* files first stored more than a minute ago
    url_cache,    \* URLs VirusTotal has answered about
    collection,   \* "none", "asked", "ready"
    requests,     \* a bag, not answered: [op, item]
    replied,      \* history: URLs about which there was an answer
    submitted,    \* history: what was submitted and accepted
    listed        \* history: what the collection was asked to take

Ask(op, x) == SetToBag({[op |-> op, item |-> x]})

-----------------------------------------------------------------------------
(* The requests.                                                           *)

\* scanurl, unless the URL is in the cache.
scanurl(u) == IF u \in url_cache THEN EmptyBag ELSE Ask("scanurl", u)
\* scanfile, of a file that came less than a minute ago.
_is_new_shasum(f) == f \notin old
scanfile(f) == IF _is_new_shasum(f) THEN Ask("scanfile", f) ELSE EmptyBag

postfile(f) == Ask("postfile", f)
submiturl(u) == Ask("submiturl", u)
_post_comment(x) == Ask("comment", x)
\* Only when the collection has its id.
_add_to_collection(x) == IF collection = "ready" THEN Ask("collect", x) ELSE EmptyBag
_init_collection == Ask("collection", "collection")

-----------------------------------------------------------------------------
(* What arrives.                                                           *)

\* write, of a download from a URL and of an upload.
writeDownload(f, u) ==
    /\ arrivals < MaxFiles
    /\ arrivals' = arrivals + 1
    /\ requests' = requests (+) scanurl(u) (+) scanfile(f)
    /\ UNCHANGED <<old, url_cache, collection, replied, submitted, listed>>
writeUpload(f) ==
    /\ arrivals < MaxFiles
    /\ arrivals' = arrivals + 1
    /\ requests' = requests (+) scanfile(f)
    /\ UNCHANGED <<old, url_cache, collection, replied, submitted, listed>>

\* A minute passes for a file that is stored; storing it again does not renew
\* it.  A file may have been stored before the plugin started.
Ages(f) ==
    /\ f \notin old
    /\ old' = old \cup {f}
    /\ UNCHANGED <<arrivals, url_cache, collection, requests, replied, submitted, listed>>

-----------------------------------------------------------------------------
(* The answers.                                                            *)

\* _make_request: no answer, or a status that is not expected, ends it.
valid_codes(op) == IF op = "scanfile" THEN {200, 404} ELSE {200}
Codes == {200, 404}
\* An answer is data (with an id, or a report), a NotFoundError, another error
\* or something else, which for scanurl ends before the cache.
Bodies == {"data", "NotFoundError", "error", "empty"}

\* process_response of each request.
Follows(r, body) ==
    CASE r.op = "scanfile" -> IF body = "NotFoundError" THEN postfile(r.item) ELSE EmptyBag
      [] r.op = "scanurl" -> IF body = "NotFoundError" THEN submiturl(r.item) ELSE EmptyBag
      [] r.op \in {"postfile", "submiturl"} ->
           IF body = "data" THEN _add_to_collection(r.item) (+) _post_comment(r.item) ELSE EmptyBag
      [] r.op \in {"comment", "collect", "collection"} -> EmptyBag

CachedFound(r, body) == IF r.op = "scanurl" /\ body = "data" THEN url_cache \cup {r.item} ELSE url_cache
Cached(r, body) == IF r.op = "scanurl" /\ body # "empty" THEN url_cache \cup {r.item} ELSE url_cache

process_response(r, code, body) ==
    LET more == Follows(r, body)
    IN /\ code \in valid_codes(r.op)
       /\ requests' = (requests (-) SetToBag({r})) (+) more
       /\ url_cache' = Cached(r, body)
       /\ collection' = IF r.op = "collection" /\ body = "data" THEN "ready" ELSE collection
       /\ replied' = IF r.op = "scanurl" /\ body # "empty" THEN replied \cup {r.item} ELSE replied
       /\ submitted' = IF r.op \in {"postfile", "submiturl"} /\ body = "data"
                       THEN submitted \cup {r.item} ELSE submitted
       /\ listed' = listed \cup {m.item : m \in {n \in BagToSet(more) : n.op = "collect"}}
       /\ UNCHANGED <<arrivals, old>>

cbError(r, code) ==
    /\ code \notin valid_codes(r.op)
    /\ requests' = (requests (-) SetToBag({r}))
    /\ UNCHANGED <<arrivals, old, url_cache, collection, replied, submitted, listed>>

\* start, with or without a collection.
VtInit ==
    /\ arrivals = 0 /\ old = {} /\ url_cache = {} /\ replied = {} /\ submitted = {} /\ listed = {}
    /\ collection \in {"none", "asked"}
    /\ requests = IF collection = "asked" THEN _init_collection ELSE EmptyBag

VtNext ==
    \/ \E f \in Shasums : \/ writeUpload(f) \/ Ages(f)
                          \/ \E u \in Urls : writeDownload(f, u)
    \/ \E r \in BagToSet(requests), code \in Codes :
          \/ \E body \in Bodies : process_response(r, code, body)
          \/ cbError(r, code)

-----------------------------------------------------------------------------
(* Properties.                                                             *)

Outstanding(x) == \E r \in BagToSet(requests) : r.item = x
IsSettled(x) == ~Outstanding(x) /\ (x \in replied \/ x \in old)

\* A URL VirusTotal has answered about and a file older than a minute, once
\* no request about them is on its way, are settled: nothing is asked,
\* submitted or commented again, although the cache is filled by answers that
\* come in any order (scanurl, submiturl and _is_new_shasum, virustotal.py
\* 152-169 and 382-527); and the collection holds nothing VirusTotal has not
\* accepted before (postfile and submiturl).
StaysSettled == \A x \in Shasums \cup Urls : IsSettled(x) => IsSettled(x)'
ListedIsAccepted == listed \subseteq submitted
=============================================================================
