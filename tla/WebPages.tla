-------------------------------- MODULE WebPages --------------------------------
(***************************************************************************)
(* Reading the web pages that a message links to: website.go with the cache *)
(* of fetched pages (tinyfish_fetch_cache.go, its copy in Redis in redis.go)*)
(* and the rotation of API keys (api_keys.go).                              *)
(*                                                                         *)
(* Several replies read pages at a time.  TinyFish reads them in batches    *)
(* when it comes first in extraction_order; otherwise each page is asked of *)
(* one extractor after the other, and of each with one key after the other. *)
(* A page is named by the URL that its link redirects to.                   *)
(***************************************************************************)
EXTENDS Integers, Sequences, FiniteSets, Functions

CONSTANTS
    Replies,     \* the replies being prepared
    Requests,    \* what a message may link to: sequences of links
    Final,       \* the page that a link redirects to
    Unsafe,      \* links that validateWebsiteHost rejects
    Orders,      \* the extraction orders that config.yaml may have
    KeysOf,      \* the API keys of each extractor
    BatchSize,   \* URLs in one Fetch request
    MaxEntries,  \* tinyFishFetchCacheMaxEntries
    TTL,         \* tinyFishFetchCacheTTL
    Shared,      \* whether Redis is configured
    MaxClock,    \* bound: how long to watch
    MaxReads,    \* bound: messages with links
    MaxFailures  \* bound: requests that fail

\* A page that a link redirects to redirects no further; parseWebExtractionOrder
\* never leaves an order empty, and normalizeAPIKeys never a key twice.
ASSUME PagesAssumption ==
    /\ \A l \in DOMAIN Final : Final[l] \in DOMAIN Final /\ Final[Final[l]] = Final[l]
    /\ Requests \subseteq Seq(DOMAIN Final)
    /\ Orders # {} /\ Orders \subseteq Seq(DOMAIN KeysOf) \ {<<>>}
    /\ \A x \in DOMAIN KeysOf :
          KeysOf[x] \in Seq(Range(KeysOf[x])) /\ IsInjective(KeysOf[x])
    /\ TTL \in Nat /\ MaxClock \in Nat /\ MaxReads \in Nat /\ MaxFailures \in Nat
    /\ BatchSize \in Nat /\ MaxEntries \in Nat /\ Shared \in BOOLEAN

VARIABLES
    now,       \* the clock
    memory,    \* the cache: an entry per URL
    redis,     \* its copy, which other instances and a restarted one share
    next,      \* per extractor: nextIndexes, where the next rotation starts
    starts,    \* per extractor and key: the requests that started with it
    reader,    \* per reply: where it is
    order,     \* per reply: the extraction order it read
    links,     \* per reply: the links it was asked for
    todo,      \* per reply: the links still to look up, fetch or store
    batches,   \* per reply: the batches not answered yet
    pages,     \* per reply: the pages it has
    served,    \* per reply: those of them that a cache served, with their age
    warned,    \* per reply: whether a fetch failed
    tried,     \* per reply: the keys a link was tried with
    reads, failures

cacheVars == <<memory, redis>>
keyVars == <<next, starts>>
readerVars == <<reader, order, links, todo, batches, pages, served, warned, tried>>
pagesVars == <<now, cacheVars, keyVars, readerVars, reads, failures>>

Extractors == DOMAIN KeysOf
Valid(ls) == Range(ls) \ Unsafe

-----------------------------------------------------------------------------
(* The cache.                                                              *)

\* The entries that have not expired.
Alive(entries) == {url \in DOMAIN entries : now < entries[url].expires}

\* storeMemory: what has expired goes, and then as many of the oldest as the
\* new keys need room for.
StoreMemory(keys, entry) ==
    LET live == Alive(memory)
        new == keys \ live
        excess == Cardinality(live) + Cardinality(new) - MaxEntries
    IN  \E out \in SUBSET live :
          /\ Cardinality(out) = IF excess <= 0 THEN 0
                                ELSE IF excess > Cardinality(live) THEN Cardinality(live)
                                ELSE excess
          /\ \A o \in out, k \in live \ out : memory[o].expires <= memory[k].expires
          /\ memory' = [url \in (live \ out) \cup keys |->
                           IF url \in keys THEN entry ELSE memory[url]]

\* storeRedis, when Redis works.
StoreRedis(keys, entry) ==
    redis' = IF ~Shared THEN redis
             ELSE [url \in DOMAIN redis \cup keys |->
                      IF url \in keys THEN entry ELSE redis[url]]

\* lookup: the memory's entry if it is not too old, or else that of Redis, which
\* the memory then keeps as if it had just been fetched.
Found(url) == IF url \in Alive(memory) THEN {memory[url]}
              ELSE IF Shared /\ url \in Alive(redis) THEN {redis[url]} ELSE {}
LookUp(url) ==
    \/ url \in Alive(memory) /\ UNCHANGED memory
    \/ /\ url \notin Alive(memory) /\ Shared /\ url \in Alive(redis)
       /\ StoreMemory({url}, [redis[url] EXCEPT !.expires = now + TTL])
    \/ /\ Found(url) = {}
       /\ memory' = [u \in DOMAIN memory \ {url} |-> memory[u]]

\* store: under the URL asked for and the one it redirects to.
Keep(l) ==
    LET entry == [page |-> Final[l], fetched |-> now, expires |-> now + TTL]
    IN  StoreMemory({l, Final[l]}, entry) /\ StoreRedis({l, Final[l]}, entry)

-----------------------------------------------------------------------------
(* Keys.                                                                   *)

\* rotate: the keys of x, the first of which is the one whose turn it is.
Rotated(x) == SubSeq(KeysOf[x], next[x] + 1, Len(KeysOf[x])) \o SubSeq(KeysOf[x], 1, next[x])

\* rotate: the extractors of xs are each asked once, and the next request to
\* any of them starts with its next key.
TakeTurns(xs) ==
    /\ next' = [x \in Extractors |->
                   IF x \in xs THEN (next[x] + 1) % Len(KeysOf[x]) ELSE next[x]]
    /\ starts' = [x \in Extractors |-> IF x \notin xs THEN starts[x] ELSE
                      [starts[x] EXCEPT ![Rotated(x)[1]] = @ + 1]]

\* tryAllAPIKeys: the rotated keys that an extractor was tried with when it failed.
AllKeys(x) == DOMAIN KeysOf[x]

-----------------------------------------------------------------------------
PagesInit ==
    /\ now = 0 /\ memory = <<>> /\ redis = <<>>
    /\ next = [x \in Extractors |-> 0]
    /\ starts = [x \in Extractors |-> [k \in Range(KeysOf[x]) |-> 0]]
    /\ reader = [r \in Replies |-> "idle"]
    /\ order = [r \in Replies |-> CHOOSE o \in Orders : TRUE]
    /\ links = [r \in Replies |-> <<>>] /\ todo = [r \in Replies |-> {}]
    /\ batches = [r \in Replies |-> {}] /\ pages = [r \in Replies |-> {}]
    /\ served = [r \in Replies |-> {}]
    /\ warned = [r \in Replies |-> FALSE] /\ tried = [r \in Replies |-> {}]
    /\ reads = 0 /\ failures = 0

Put(f, r, v) == f' = [f EXCEPT ![r] = v]
Losses(n) == failures' = failures + n /\ failures' \in 0..MaxFailures

Tick == now < MaxClock /\ now' = now + 1
    /\ UNCHANGED <<cacheVars, keyVars, readerVars, reads, failures>>

\* The bot restarts: what was in memory is gone.
Reboot ==
    /\ \A r \in Replies : reader[r] = "idle"
    /\ memory # <<>> /\ memory' = <<>>
    /\ next' = [x \in Extractors |-> 0]
    /\ starts' = [x \in Extractors |-> [k \in Range(KeysOf[x]) |-> 0]]
    /\ UNCHANGED <<now, redis, readerVars, reads, failures>>

\* prepareWebsiteAugmentation, as far as validating the links.  A link is read
\* once, however often the message has it (extractWebsiteURLs).
ReadLinks(r) ==
    /\ reader[r] = "idle" /\ reads < MaxReads /\ reads' = reads + 1
    /\ \E ls \in Requests, o \in Orders :
         /\ Put(links, r, ls) /\ Put(order, r, o)
         /\ Put(todo, r, Valid(ls))
         /\ Put(warned, r, Valid(ls) # Range(ls))
         /\ Put(reader, r, IF Head(o) = "tinyfish" /\ KeysOf["tinyfish"] # <<>>
                           THEN "lookup" ELSE "each")
    /\ Put(pages, r, {}) /\ Put(served, r, {}) /\ Put(tried, r, {})
    /\ UNCHANGED <<now, cacheVars, keyVars, batches, failures>>

\* prepareTinyFishWebsiteAugmentationBatch: one link after the other is looked
\* up, and those not found are fetched in batches.
Age(entry) == now - entry.fetched
Earlier(r, i) == {links[r][j] : j \in 1..i - 1}
LookUpNext(r) ==
    /\ reader[r] = "lookup"
    /\ \E i \in DOMAIN links[r] :
         LET l == links[r][i]
         IN  /\ l \in todo[r] /\ Earlier(r, i) \cap todo[r] = {}
             /\ LookUp(l)
             /\ Put(pages, r, pages[r] \cup {e.page : e \in Found(l)})
             /\ Put(served, r,
                    served[r] \cup {[page |-> e.page, age |-> Age(e)] : e \in Found(l)})
             /\ Put(batches, r, IF Found(l) = {} THEN batches[r] \cup {l} ELSE batches[r])
             /\ Put(todo, r, todo[r] \ {l})
    /\ UNCHANGED <<now, redis, keyVars, reader, order, links, warned, tried, reads, failures>>

\* The first of the links that the cache did not have, as many as a request takes.
Batch(r) == {links[r][i] : i \in {j \in DOMAIN links[r] :
    links[r][j] \in batches[r] /\ Cardinality(batches[r] \cap Earlier(r, j)) < BatchSize}}

\* Mutant: a request that fails leaves no warning.
FetchBatch_Quiet(r) ==
    /\ reader[r] = "lookup" /\ todo[r] = {} /\ batches[r] # {}
    /\ \E bad \in SUBSET Batch(r), won \in BOOLEAN :
         LET good == {l \in Batch(r) : won /\ {l, Final[l]} \cap bad = {}}
         IN  /\ won \/ bad = {}
             /\ Losses(Cardinality(bad) + (IF won THEN 0 ELSE 1))
             /\ Put(tried, r, IF won THEN tried[r]
                              ELSE tried[r] \cup (Batch(r) \X {"tinyfish"} \X AllKeys("tinyfish")))
             /\ Put(todo, r, good)
             /\ Put(pages, r, pages[r] \cup {Final[l] : l \in good})
             /\ Put(warned, r, warned[r] \/ bad # {})
    /\ TakeTurns({"tinyfish"})
    /\ Put(batches, r, batches[r] \ Batch(r)) /\ Put(reader, r, "store")
    /\ UNCHANGED <<now, cacheVars, order, links, served, reads>>

\* A Fetch request is answered for every URL, with a page or an error, or fails
\* with every key.  A page that redirects to a URL with an error is left out.
FetchBatch(r) ==
    /\ reader[r] = "lookup" /\ todo[r] = {} /\ batches[r] # {}
    /\ \E bad \in SUBSET Batch(r), won \in BOOLEAN :
         LET good == {l \in Batch(r) : won /\ {l, Final[l]} \cap bad = {}}
         IN  /\ won \/ bad = {}
             /\ Losses(Cardinality(bad) + (IF won THEN 0 ELSE 1))
             /\ Put(tried, r, IF won THEN tried[r]
                              ELSE tried[r] \cup (Batch(r) \X {"tinyfish"} \X AllKeys("tinyfish")))
             /\ Put(todo, r, good)
             /\ Put(pages, r, pages[r] \cup {Final[l] : l \in good})
             /\ Put(warned, r, warned[r] \/ good # Batch(r))
    /\ TakeTurns({"tinyfish"})
    /\ Put(batches, r, batches[r] \ Batch(r)) /\ Put(reader, r, "store")
    /\ UNCHANGED <<now, cacheVars, order, links, served, reads>>

\* The results of a batch are stored one by one, in the order of the answer.
StoreNext(r) ==
    /\ reader[r] = "store"
    /\ \E l \in todo[r] : Keep(l) /\ Put(todo, r, todo[r] \ {l})
    /\ UNCHANGED <<now, keyVars, reader, order, links, batches, pages, served, warned, tried,
                   reads, failures>>

EndBatch(r) ==
    /\ reader[r] = "store" /\ todo[r] = {} /\ Put(reader, r, "lookup")
    /\ UNCHANGED <<now, cacheVars, keyVars, order, links, todo, batches, pages, served, warned,
                   tried, reads, failures>>

\* websiteClient.fetch for one of the links, in a task of its own: the extractors
\* that have keys, in order, until the n-th has read it or all have failed.
FetchEach(r) ==
    /\ reader[r] = "each"
    /\ \E l \in todo[r], n \in 1..Len(order[r]) + 1 :
         LET won == n <= Len(order[r])
             before == {x \in {order[r][i] : i \in 1..n - 1} : KeysOf[x] # <<>>}
             winner == IF won THEN {order[r][n]} ELSE {}
             cached == "tinyfish" \in winner /\ Found(l) # {}
         IN  /\ \A x \in winner : KeysOf[x] # <<>>
             /\ "tinyfish" \in before => Found(l) = {}
             /\ Losses(Cardinality(before)) /\ TakeTurns(before \cup winner)
             /\ Put(tried, r, tried[r] \cup UNION {{l} \X {x} \X AllKeys(x) : x \in before})
             /\ Put(warned, r, warned[r] \/ ~won)
             /\ Put(pages, r, pages[r] \cup {Final[l] : x \in winner})
             /\ \/ "tinyfish" \notin winner /\ UNCHANGED cacheVars
                \/ "tinyfish" \in winner /\ Found(l) = {} /\ Keep(l)
                \/ cached /\ LookUp(l) /\ UNCHANGED redis
             /\ Put(served, r, served[r] \cup
                    {[page |-> e.page, age |-> Age(e)] : e \in IF cached THEN Found(l) ELSE {}})
             /\ Put(todo, r, todo[r] \ {l})
    /\ UNCHANGED <<now, reader, order, links, batches, reads>>

\* The pages, or a warning, or both, are the stage's result.
EndReading(r) ==
    /\ reader[r] \in {"lookup", "each"} /\ todo[r] = {} /\ batches[r] = {}
    /\ Put(reader, r, "done")
    /\ UNCHANGED <<now, cacheVars, keyVars, order, links, todo, batches, pages, served, warned,
                   tried, reads, failures>>

\* The reply goes on, and another may be prepared.
ReplyLeaves(r) ==
    /\ reader[r] = "done" /\ Put(reader, r, "idle")
    /\ Put(pages, r, {}) /\ Put(served, r, {}) /\ Put(tried, r, {}) /\ Put(links, r, <<>>)
    /\ Put(warned, r, FALSE)
    /\ UNCHANGED <<now, cacheVars, keyVars, order, todo, batches, reads, failures>>

PagesNext ==
    \/ Tick \/ Reboot
    \/ \E r \in Replies :
          \/ ReadLinks(r) \/ LookUpNext(r) \/ FetchBatch(r) \/ StoreNext(r) \/ EndBatch(r)
          \/ FetchEach(r) \/ EndReading(r) \/ ReplyLeaves(r)

PagesSpec == PagesInit /\ [][PagesNext]_pagesVars

-----------------------------------------------------------------------------
Entries == [page : DOMAIN Final, fetched : 0..MaxClock, expires : 0..MaxClock + TTL]

\* Every variable has its type, and every cached page is filed under its own URL
\* or under a link that redirects to it.
PagesTypes ==
    /\ now \in 0..MaxClock /\ reads \in 0..MaxReads /\ failures \in 0..MaxFailures
    /\ \A entries \in {memory, redis} : \A url \in DOMAIN entries :
          entries[url] \in Entries /\ entries[url].page = Final[url]
    /\ \A x \in Extractors : next[x] = 0 \/ next[x] \in 0..Len(KeysOf[x]) - 1
    /\ reader \in [Replies -> {"idle", "lookup", "store", "each", "done"}]
    /\ order \in [Replies -> Orders] /\ warned \in [Replies -> BOOLEAN]
    /\ \A r \in Replies :
          /\ todo[r] \cup batches[r] \cup pages[r] \subseteq DOMAIN Final
          /\ \A s \in served[r] : s.page \in pages[r]
          /\ \A t \in tried[r] : t[2] \in Extractors

\* A link is never dropped without a word: its page is among those given to the
\* model, or the reply shows a warning.
LinkReadOrWarned ==
    \A r \in Replies : reader[r] = "done" /\ ~warned[r] =>
        \A i \in DOMAIN links[r] : Final[links[r][i]] \in pages[r]

\* The keys of an extractor share its requests: none starts with a key twice
\* before the others had their turn, however replies interleave.
KeysShareRequests ==
    \A x \in Extractors : \A j, k \in Range(KeysOf[x]) : starts[x][j] <= starts[x][k] + 1

\* README.md:109 and 121: extraction follows extraction_order, so that a link is
\* given up only when every extractor in it was asked with all of its keys.
OrderFollowed ==
    \A r \in Replies : reader[r] = "done" =>
        \A l \in Valid(links[r]) : Final[l] \notin pages[r] =>
            \A x \in Range(order[r]) : {l} \X {x} \X AllKeys(x) \subseteq tried[r]

\* constants.go:176: the TTL bounds how long a fetched page is served from the
\* cache without being fetched again.
PagesAreFresh == \A r \in Replies : \A s \in served[r] : s.age < TTL

\* Every link is read or warned about, the keys of an extractor take turns, and
\* without Redis no page is served that is older than its TTL (website.go,
\* api_keys.go, tinyfish_fetch_cache.go).
LinksServed == PagesTypes /\ LinkReadOrWarned /\ KeysShareRequests /\ (~Shared => PagesAreFresh)

\* tinyfish_fetch_cache.go:141: adding keys cannot exceed the maximum.
CacheBounded == Cardinality(DOMAIN memory) <= MaxEntries
=============================================================================
