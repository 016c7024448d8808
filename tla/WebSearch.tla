------------------------------- MODULE WebSearch -------------------------------
(***************************************************************************)
(* The web_search tool: search.go with the prefetch of search_fetchers.go. *)
(*                                                                         *)
(* The queries of a tool round go, all at once, to one search provider      *)
(* after the other until one of them answers them all.  While TinyFish is   *)
(* still searching and reading pages, a worker in the background fetches    *)
(* the YouTube and Reddit URLs found so far; when the search is over it is  *)
(* stopped, and a tail fetches what it missed.                              *)
(*                                                                         *)
(* A result's text is a sequence of blocks, one for each URL: whether the   *)
(* page's text is in it, and how many times the specialist's content is.    *)
(***************************************************************************)
EXTENDS Integers, Sequences, FiniteSets, SequencesExt

CONSTANTS
    Rounds,      \* what the model may ask in a round: sequences of calls
    Order,       \* web_search.order
    Keyed,       \* the providers of it that are configured with a key
    Found,       \* per provider and query: the URLs it answers, best first
    Fold,        \* queries and URLs, in lower case
    Kind,        \* per URL: "page", "youtube" or "reddit"
    Fetchers,    \* the kinds that have a specialist fetcher
    MaxURLs,     \* web_search.max_urls
    Limit,       \* externalRequestConcurrency
    QueueSize,   \* specialistEnrichPrefetchQueueSize
    MaxRounds,   \* bound: tool rounds
    MaxFailures  \* bound: requests that fail or miss their deadline

VARIABLES
    pc,        \* the round: where runWebSearchToolPhase is
    calls,     \* the calls of the round
    wanted,     \* their queries
    left,      \* the providers not tried yet
    query,     \* per query: where its task is
    ended,     \* whether the context of the queries is cancelled
    pushing,   \* per task: the URLs it still has to queue
    marked,    \* per task: the URL it has marked as seen and not queued yet
    texts,     \* per query: the text of its result
    outputs,   \* the answers to the calls
    tail,      \* the URLs that the tail could not fetch
    open,      \* the prefetch takes URLs: its tasks field is not nil
    closed,    \* the channel of the queue is closed
    seen,      \* the URLs that were marked
    queue,     \* the URLs in the channel
    worker,    \* where the worker is
    batch,     \* the URLs it fetches
    enriched,  \* the URLs it has fetched
    dropped,   \* the URLs that were in the queue when the worker left it
    panicked,  \* something was sent on the closed channel
    rounds, failures

roundVars == <<pc, calls, wanted, left, query, ended, texts, outputs, tail>>
callbackVars == <<pushing, marked>>
prefetchVars == <<open, closed, seen, queue, worker, batch, enriched, dropped, panicked>>
searchVars == <<roundVars, callbackVars, prefetchVars, rounds, failures>>

Fail(n) == failures' = failures + n /\ failures' \in 0..MaxFailures
Unique(s) == FoldLeft(LAMBDA acc, x : IF x \in ToSet(acc) THEN acc ELSE Append(acc, x), <<>>, s)
FirstOf(s, n) == SubSeq(s, 1, IF Len(s) < n THEN Len(s) ELSE n)

-----------------------------------------------------------------------------
(* The calls of a round and the answers to them.                           *)

\* webSearchToolCallQueries: the queries of a call, and why it has none.
QueriesOf(call) ==
    IF call.tool # "web_search" \/ call.malformed THEN <<>>
    ELSE Unique(SelectSeq(call.queries, LAMBDA q : q # ""))
ErrorOf(call) ==
    CASE call.tool # "web_search" -> "unknown tool"
      [] call.malformed           -> "invalid arguments"
      [] OTHER                    -> IF QueriesOf(call) = <<>> THEN "no queries" ELSE ""

\* parseWebSearchToolCalls: the queries of all the calls, in order and as a set.
Queries(cs) == Unique(FlattenSeq([i \in DOMAIN cs |-> QueriesOf(cs[i])]))
Asked(cs) == UNION {ToSet(QueriesOf(cs[i])) : i \in DOMAIN cs}

\* webSearchResultsForQueries: what is answered for a query, the others that
\* differ from it in case only included.
ResultsFor(qs) ==
    [i \in DOMAIN qs |-> {q \in DOMAIN texts : Fold[q] = Fold[qs[i]]}]

\* webSearchToolOutputs: every call is answered, in order.
ToolOutputs(error) ==
    [i \in DOMAIN calls |->
        IF ErrorOf(calls[i]) # "" THEN [error |-> ErrorOf(calls[i]), of |-> <<>>]
        ELSE IF error # "" THEN [error |-> error, of |-> <<>>]
        ELSE [error |-> "", of |-> ResultsFor(QueriesOf(calls[i]))]]

-----------------------------------------------------------------------------
(* Blocks and their specialist content.                                    *)

Special(url) == Kind[url] \in Fetchers

\* The blocks of a provider's answer, cut to max_urls.
Blocks(x, q) ==
    [i \in DOMAIN FirstOf(Found[x][q], MaxURLs) |->
        [url |-> Found[x][q][i], page |-> FALSE, copies |-> 0]]

\* mergeSpecialistContent with insertSearchSpecialistContent.
Merge(ts, urls) ==
    [q \in DOMAIN ts |->
        [i \in DOMAIN ts[q] |->
            IF ts[q][i].url \in urls THEN [ts[q][i] EXCEPT !.copies = @ + 1] ELSE ts[q][i]]]

\* collectSearchSpecialistURLs: those that occur in the texts.
SpecialURLs(ts) ==
    {u \in UNION {{ts[q][i].url : i \in DOMAIN ts[q]} : q \in DOMAIN ts} : Special(u)}

\* Mutant: the tail fetches again what the worker has fetched.
Unenriched_All(ts, done) == SpecialURLs(ts)

\* collectUnenrichedSpecialistURLs.
Unenriched(ts, done) == SpecialURLs(ts) \ done

\* supportsSpecialistPrefetch.
SupportsPrefetch == Fetchers # {} /\ "tinyfish" \in Keyed /\ "tinyfish" \in ToSet(Order)

-----------------------------------------------------------------------------
URLs == DOMAIN Kind
ASSUME SearchAssumption ==
    /\ MaxURLs \in Nat /\ QueueSize \in Nat
    /\ MaxRounds \in Nat /\ MaxFailures \in Nat
    /\ \A cs \in Rounds : cs \in Seq([tool : STRING, malformed : BOOLEAN, queries : Seq(STRING)])
    /\ \A x \in Keyed, cs \in Rounds : \A q \in Asked(cs) : Found[x][q] \in Seq(URLs)

Tasks == DOMAIN query
Caller == "caller"

SearchInit ==
    /\ pc = "idle" /\ calls = <<>> /\ wanted = <<>> /\ left = <<>> /\ query = <<>> /\ ended = FALSE
    /\ pushing = <<>> /\ marked = <<>> /\ texts = <<>> /\ outputs = <<>> /\ tail = {}
    /\ open = FALSE /\ closed = FALSE /\ seen = {} /\ queue = <<>> /\ worker = "none"
    /\ batch = {} /\ enriched = {} /\ dropped = {} /\ panicked = FALSE
    /\ rounds = 0 /\ failures = 0

\* runWebSearchToolPhase and newSpecialistEnrichPrefetch: a round without a query
\* is answered at once.
StartRound ==
    /\ pc \in {"idle", "done", "failed"} /\ rounds < MaxRounds /\ rounds' = rounds + 1
    /\ \E cs \in Rounds :
         /\ calls' = cs /\ wanted' = Queries(cs)
         /\ texts' = [q \in {} |-> <<>>] /\ tail' = {} /\ seen' = {} /\ queue' = <<>>
         /\ batch' = {} /\ enriched' = {} /\ dropped' = {} /\ ended' = FALSE
         /\ IF \A i \in DOMAIN cs : QueriesOf(cs[i]) = <<>>
            THEN /\ pc' = "done" /\ left' = <<>> /\ query' = <<>>
                 /\ outputs' = [i \in DOMAIN cs |-> [error |-> ErrorOf(cs[i]), of |-> <<>>]]
                 /\ open' = FALSE /\ closed' = FALSE /\ worker' = "none"
                 /\ pushing' = <<>> /\ marked' = <<>>
            ELSE /\ pc' = "chain" /\ left' = Order /\ outputs' = <<>>
                 /\ query' = [q \in Asked(cs) |-> "none"]
                 /\ pushing' = [t \in Asked(cs) \cup {Caller} |-> <<>>]
                 /\ marked' = [t \in Asked(cs) \cup {Caller} |-> {}]
                 /\ open' = SupportsPrefetch /\ closed' = FALSE
                 /\ worker' = IF SupportsPrefetch THEN "top" ELSE "none"
    /\ UNCHANGED <<panicked, failures>>

provider == Head(left)

\* routedWebSearchClient: the next provider that has a key is asked, or there is
\* none and the search has failed.
AskProvider ==
    /\ pc = "chain" /\ left # <<>>
    /\ IF provider \in Keyed
       THEN /\ pc' = "queries" /\ query' = [q \in Tasks |-> "waiting"] /\ UNCHANGED left
       ELSE left' = Tail(left) /\ UNCHANGED <<pc, query>>
    /\ ended' = FALSE
    /\ UNCHANGED <<calls, wanted, texts, outputs, tail, callbackVars, prefetchVars, rounds, failures>>

\* searchQueriesConcurrently: the tasks are claimed in order, Limit at a time, and
\* one claimed after the context is cancelled fails at once.
Running == {q \in Tasks : query[q] \in {"running", "pushing"}}
ClaimQuery(i) ==
    LET q == wanted[i] IN
    /\ pc = "queries" /\ query[q] = "waiting" /\ Cardinality(Running) < Limit
    /\ \A j \in 1..i - 1 : query[wanted[j]] # "waiting"
    /\ query' = [query EXCEPT ![q] = IF ended THEN "failed" ELSE "running"]
    /\ UNCHANGED <<pc, calls, wanted, left, ended, texts, outputs, tail, callbackVars, prefetchVars,
                   rounds, failures>>

\* The provider answers a query; TinyFish's URLs go to the prefetch from here.
QueryAnswered(q) ==
    /\ pc = "queries" /\ query[q] = "running"
    /\ LET push == provider = "tinyfish" /\ worker # "none"
       IN  /\ query' = [query EXCEPT ![q] = IF push THEN "pushing" ELSE "ok"]
           /\ pushing' = [pushing EXCEPT ![q] =
                 IF push /\ open THEN Unique(FirstOf(Found[provider][q], MaxURLs)) ELSE <<>>]
    /\ UNCHANGED <<pc, calls, wanted, left, ended, texts, outputs, tail, marked, prefetchVars,
                   rounds, failures>>

\* Every key failed, or the context was cancelled: the first error cancels the
\* other queries.
QueryFailed(q) ==
    /\ pc = "queries" /\ query[q] = "running"
    /\ Fail(IF ended THEN 0 ELSE 1)
    /\ query' = [query EXCEPT ![q] = "failed"] /\ ended' = TRUE
    /\ UNCHANGED <<pc, calls, wanted, left, texts, outputs, tail, callbackVars, prefetchVars, rounds>>

\* prefetchURLs, of a task or of the caller: a specialist URL is marked with the
\* lock, and queued without it.
MarkURL(t) ==
    /\ pushing # <<>> /\ pushing[t] # <<>> /\ marked[t] = {}
    /\ LET u == Head(pushing[t])
           new == Special(u) /\ u \notin seen
       IN  /\ seen' = IF new THEN seen \cup {u} ELSE seen
           /\ marked' = [marked EXCEPT ![t] = IF new /\ open THEN {u} ELSE {}]
           /\ pushing' = [pushing EXCEPT ![t] = IF new /\ ~open THEN <<>> ELSE Tail(@)]
    /\ UNCHANGED <<roundVars, open, closed, queue, worker, batch, enriched, dropped, panicked,
                   rounds, failures>>
QueueURL(t) ==
    /\ marked # <<>> /\ marked[t] # {}
    /\ panicked' = (panicked \/ closed)
    /\ IF Len(queue) < QueueSize
       THEN /\ \E u \in marked[t] : queue' = Append(queue, u)
            /\ UNCHANGED pushing
       ELSE pushing' = [pushing EXCEPT ![t] = <<>>] /\ UNCHANGED queue
    /\ marked' = [marked EXCEPT ![t] = {}]
    /\ UNCHANGED <<roundVars, open, closed, seen, worker, batch, enriched, dropped, rounds, failures>>
Queued(t) == pushing[t] = <<>> /\ marked[t] = {}
PushDone(q) ==
    /\ pc = "queries" /\ query[q] = "pushing" /\ Queued(q)
    /\ query' = [query EXCEPT ![q] = "ok"]
    /\ UNCHANGED <<pc, calls, wanted, left, ended, texts, outputs, tail, callbackVars, prefetchVars,
                   rounds, failures>>

Texts(seenPages) ==
    [q \in Tasks |-> [i \in DOMAIN Blocks(provider, q) |->
        [Blocks(provider, q)[i] EXCEPT !.page = Blocks(provider, q)[i].url \in seenPages]]]
\* prefetchResultURLs: the URLs of all the results.
ResultURLs(ts) == Unique(FlattenSeq([i \in DOMAIN wanted |->
                     [j \in DOMAIN ts[wanted[i]] |-> ts[wanted[i]][j].url]]))
AllTasksDone == \A q \in Tasks : query[q] \in {"ok", "failed"}

\* All tasks have returned: one that failed fails the provider.
QueriesReturn ==
    /\ pc = "queries" /\ AllTasksDone
    /\ IF \E q \in Tasks : query[q] = "failed"
       THEN pc' = "chain" /\ left' = Tail(left) /\ UNCHANGED <<texts, pushing>>
       ELSE IF provider = "tinyfish" THEN pc' = "pages" /\ UNCHANGED <<left, texts, pushing>>
       ELSE /\ texts' = Texts({}) /\ pc' = "queue" /\ UNCHANGED left
            /\ pushing' = [pushing EXCEPT ![Caller] = IF open THEN ResultURLs(texts') ELSE <<>>]
    /\ UNCHANGED <<calls, wanted, query, ended, outputs, tail, marked, prefetchVars, rounds, failures>>

\* enrichTinyFishOutcomes: each page is read in a request of its own, and one that
\* fails or misses the deadline leaves the snippet.
FetchPages ==
    /\ pc = "pages"
    /\ LET urls == UNION {ToSet(FirstOf(Found[provider][q], MaxURLs)) : q \in Tasks}
       IN  \E bad \in SUBSET urls : Fail(Cardinality(bad)) /\ texts' = Texts(urls \ bad)
    /\ pc' = "queue"
    /\ UNCHANGED <<calls, wanted, left, query, ended, outputs, tail, callbackVars, prefetchVars, rounds>>

\* What drain and cancel begin with.
Close == open' = FALSE /\ closed' = open

\* drain, or no prefetch to drain.
Drain ==
    /\ pc = "queue" /\ Queued(Caller)
    /\ Close /\ pc' = "draining"
    /\ UNCHANGED <<calls, wanted, left, query, ended, texts, outputs, tail, callbackVars, seen, queue,
                   worker, batch, enriched, dropped, panicked, rounds, failures>>

\* finish: what the worker has fetched is merged once it has stopped.
FinishPrefetch ==
    /\ pc = "draining" /\ worker \in {"none", "stopped"}
    /\ texts' = Merge(texts, enriched) /\ pc' = "tail"
    /\ UNCHANGED <<calls, wanted, left, query, ended, outputs, tail, callbackVars, prefetchVars,
                   rounds, failures>>

\* enrichRemainingSpecialistURLs, and the answers to the calls.
FetchTail ==
    /\ pc = "tail"
    /\ LET missing == Unenriched(texts, enriched)
       IN  \E bad \in SUBSET missing :
             /\ Fail(Cardinality(bad)) /\ tail' = bad
             /\ texts' = Merge(texts, missing \ bad)
    /\ outputs' = ToolOutputs("") /\ pc' = "done"
    /\ UNCHANGED <<calls, wanted, left, query, ended, callbackVars, prefetchVars, rounds>>

\* No provider is left: the prefetch is cancelled, and the calls are told.
CancelPrefetch ==
    /\ pc = "chain" /\ left = <<>>
    /\ Close /\ pc' = "cancelling"
    /\ UNCHANGED <<calls, wanted, left, query, ended, texts, outputs, tail, callbackVars, seen, queue,
                   worker, batch, enriched, dropped, panicked, rounds, failures>>
SearchFailed ==
    /\ pc = "cancelling" /\ worker \in {"none", "stopped"}
    /\ outputs' = ToolOutputs("search failed") /\ pc' = "failed"
    /\ UNCHANGED <<calls, wanted, left, query, ended, texts, tail, callbackVars, prefetchVars,
                   rounds, failures>>

-----------------------------------------------------------------------------
(* The worker.                                                             *)

Stop == worker' = "stopped" /\ dropped' = ToSet(queue)

\* The top of its loop: it stops once the prefetch takes no more URLs.
WorkerLoops ==
    /\ worker = "top"
    /\ IF open THEN worker' = "select" /\ UNCHANGED dropped ELSE Stop
    /\ UNCHANGED <<roundVars, callbackVars, open, closed, seen, queue, batch, enriched, panicked,
                   rounds, failures>>

\* nextSpecialistEnrichBatch: it waits for a URL, or for the channel to close, and
\* takes all that are queued.
WorkerTakes ==
    /\ worker = "select" /\ (queue # <<>> \/ closed)
    /\ IF queue = <<>>
       THEN Stop /\ UNCHANGED <<batch, queue>>
       ELSE /\ worker' = "fetch" /\ batch' = ToSet(queue) /\ queue' = <<>>
            /\ UNCHANGED dropped
    /\ UNCHANGED <<roundVars, callbackVars, open, closed, seen, enriched, panicked, rounds, failures>>

\* fetchSearchSpecialistContent: those that fail or miss the deadline are left out.
WorkerFetched ==
    /\ worker = "fetch"
    /\ \E bad \in SUBSET batch :
         /\ Fail(Cardinality(bad)) /\ enriched' = enriched \cup (batch \ bad)
    /\ worker' = "top" /\ batch' = {}
    /\ UNCHANGED <<roundVars, callbackVars, open, closed, seen, queue, dropped, panicked, rounds>>

\* lifetimeContext: the worker gives up after specialistEnrichPrefetchLifetime.
WorkerExpires ==
    /\ worker \in {"top", "select"} /\ Fail(1) /\ Stop
    /\ UNCHANGED <<roundVars, callbackVars, open, closed, seen, queue, batch, enriched, panicked, rounds>>

-----------------------------------------------------------------------------
Progress ==
    \/ AskProvider \/ QueriesReturn \/ FetchPages \/ Drain \/ FinishPrefetch \/ FetchTail
    \/ CancelPrefetch \/ SearchFailed
    \/ \E i \in DOMAIN wanted : ClaimQuery(i)
    \/ \E q \in Tasks : QueryAnswered(q) \/ QueryFailed(q) \/ PushDone(q)
    \/ \E t \in DOMAIN pushing : MarkURL(t) \/ QueueURL(t)
    \/ WorkerLoops \/ WorkerTakes \/ WorkerFetched

SearchNext == StartRound \/ Progress \/ WorkerExpires

SearchSpec == SearchInit /\ [][SearchNext]_searchVars

\* Requests end: each has a deadline.
SearchFair == SearchSpec /\ WF_searchVars(Progress)

-----------------------------------------------------------------------------
SearchTypes ==
    /\ pc \in {"idle", "chain", "queries", "pages", "queue", "draining", "tail", "cancelling",
               "done", "failed"}
    /\ \A q \in Tasks : query[q] \in {"none", "waiting", "running", "pushing", "ok", "failed"}
    /\ {ended, open, closed, panicked} \subseteq BOOLEAN
    /\ ToSet(queue) \cup batch \cup enriched \cup tail \cup dropped \subseteq seen \cup URLs
    /\ Len(queue) <= QueueSize
    /\ worker \in {"none", "top", "select", "fetch", "stopped"}
    /\ failures \in 0..MaxFailures /\ rounds \in 0..MaxRounds

\* However the worker and the queries interleave, the content of a YouTube or
\* Reddit URL is in each block that names it once, unless the tail tried too and
\* failed: nothing is merged twice, and nothing queued too late is lost.
SpecialistOnce ==
    pc = "done" => \A q \in DOMAIN texts : \A i \in DOMAIN texts[q] :
        LET b == texts[q][i]
        IN  b.copies = IF Special(b.url) /\ b.url \notin tail THEN 1 ELSE 0

\* No URL is queued after the queue is closed, which would end the process.
NeverSentOnClosed == ~panicked

\* Every call is answered, with what was found for each of its queries or with the
\* reason why there is nothing, and the search fails only when every provider did.
CallsAnswered ==
    pc \in {"done", "failed"} =>
        /\ Len(outputs) = Len(calls)
        /\ pc = "failed" => left = <<>>
        /\ \A i \in DOMAIN calls :
              IF QueriesOf(calls[i]) = <<>> THEN outputs[i].error \notin {"", "search failed"}
              ELSE IF pc = "failed" THEN outputs[i].error = "search failed"
              ELSE \A j \in DOMAIN QueriesOf(calls[i]) :
                      QueriesOf(calls[i])[j] \in outputs[i].of[j]

\* A round of searches answers each of its calls, with what was found once in
\* it, and never sends on a queue that is closed (search.go, search_fetchers.go).
SearchAnswers == SearchTypes /\ CallsAnswered /\ SpecialistOnce /\ NeverSentOnClosed

\* search_fetchers.go:403: the worker is stopped after it drained the queue.
DrainFetchesQueued == pc = "tail" /\ failures = 0 => dropped = {}

\* search_fetchers.go:451: cancel drops queued URLs without fetching.
CancelFetchesNothing == [][pc = "cancelling" => batch' \subseteq batch]_searchVars
=============================================================================
