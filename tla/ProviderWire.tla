----------------------------- MODULE ProviderWire -----------------------------
(***************************************************************************)
(* What a conversation becomes on the wire of each of the four APIs, over  *)
(* several turns of it, and what the model reads of it.                    *)
(*                                                                         *)
(* A turn asks once with tools.  If the model calls them, the answer is    *)
(* asked for with their outputs, the tools forbidden; if that yields no    *)
(* answer, once more without tools, the outputs as text.  The Responses    *)
(* API may keep what was sent and said, and a request may then name a      *)
(* response instead of repeating what came before it.                      *)
(***************************************************************************)
EXTENDS Integers, Sequences, FiniteSets, SequencesExt

CONSTANTS
    Contents,   \* "chat", "responses", "claude" or "gemini" -> what users may
                \* send: sets of parts
    MaxCalls,   \* bound: calls of a response
    Caching,    \* context_caching: "auto"
    MaxTurns    \* bound

APIs == {"chat", "responses", "claude", "gemini"}
ASSUME WireAssumption ==
    /\ DOMAIN Contents \subseteq APIs /\ MaxCalls \in Nat /\ MaxTurns \in Nat
    /\ \A a \in DOMAIN Contents : \A content \in Contents[a] : "results" \notin content

VARIABLES
    api,
    gives,      \* whether the backend gives its responses an id
    stores,     \* whether it keeps them: not if extra_body says store: false
    messages,   \* request.Messages: [role, of, parts]; of is the turn's number
    chain,      \* PreviousResponseID, or None
    phase,      \* "first", "forced" or "toolFree"
    rounds,     \* ToolRounds: at most one, [id, items, calls]
    found,      \* the turn's search results are retained in the history
    files,      \* Gemini: the state of each file that the request needs
    asked,      \* the items of the last request
    heard,      \* what the model reads for it
    kept,       \* the server: id of a response that can still be named ->
                \* what was said up to and with it
    nextID,     \* the id of the next response
    last,       \* providerResponseID of the turn before, or None
    step        \* "idle", "building", "waiting", "rejected" or "failed"

backend == <<api, gives, stores>>
turn == <<messages, chain, phase, rounds, found>>
wire == <<asked, heard>>
server == <<kept, nextID>>
wireVars == <<backend, turn, files, wire, server, last, step>>

None == 0
Item(kind, role, of, parts) == [kind |-> kind, role |-> role, of |-> of, parts |-> parts]
TurnNumber == IF messages = <<>> THEN 0 ELSE messages[Len(messages)].of
Message(role, of, parts) == [role |-> role, of |-> of, parts |-> parts]

WireInit ==
    /\ api \in DOMAIN Contents /\ gives \in BOOLEAN /\ stores \in BOOLEAN
    /\ api # "responses" => ~gives /\ ~stores
    /\ messages \in {<<>>, <<Message("system", 0, {"text"})>>}
    /\ chain = None /\ phase = "first" /\ rounds = <<>> /\ found = FALSE
    /\ files = <<>> /\ asked = <<>> /\ heard = <<>>
    /\ kept = [i \in {} |-> <<>>] /\ nextID = 1 /\ last = None
    /\ step = "idle"

-----------------------------------------------------------------------------
(* Messages.                                                               *)

\* messageContentWithFileOrImageOnlyQueryPlaceholder: a query that has no
\* words gets some.
WithQuery(m) ==
    IF m.role # "user" \/ m.parts \cap {"text", "results"} # {} THEN m.parts
    ELSE {"query"} \cup (m.parts \ {"blank"})

\* The forms in which an API takes a part.  The Messages API has none for
\* audio, video and files: a note stands for them.  The Gemini API refers to
\* files that were uploaded before.
ChatForm(p) ==
    CASE p = "video" -> "video_url" [] p = "audio" -> "input_audio" [] OTHER -> "inline"
ResponsesForm(p) ==
    CASE p = "video" -> "video_url" [] p = "audio" -> "input_audio"
      [] p \in {"pdf", "zip"} -> "input_file" [] OTHER -> "inline"
ClaudeForm(p) == IF p \in {"audio", "video", "zip"} THEN "note" ELSE "inline"
GeminiForm(p) == IF p \in {"text", "results", "query", "image"} THEN "inline" ELSE "file"

Form(p) == CASE api = "chat"      -> ChatForm(p)   [] api = "claude" -> ClaudeForm(p)
             [] api = "responses" -> ResponsesForm(p) [] api = "gemini" -> GeminiForm(p)

\* openAIReplaceSystemRoleWithDeveloper, claudeSplitSystemMessages and
\* geminiSystemInstructionText: where the prompt goes.
RoleOf(m) == IF m.role = "system" /\ api \in {"claude", "gemini"} THEN "instruction" ELSE m.role

Converted(m) ==
    Item("message", RoleOf(m), m.of, {<<p, Form(p)>> : p \in WithQuery(m)})

\* Mutant: what is stored is counted from one too early.
Unstored_Early(ms) == SubSeq(ms, Len(ms) - 1, Len(ms))

\* responsesChainedInput: PreviousResponseCount is all but the query.
Unstored(ms) == <<ms[Len(ms)]>>

-----------------------------------------------------------------------------
(* Tool rounds.                                                            *)

\* outputFor: each call of the response is answered.
OutputItems(round) ==
    [i \in DOMAIN round.calls |-> Item("output", "tool", round.calls[i], {})]
CallItems(calls) == [i \in DOMAIN calls |-> Item("call", "assistant", calls[i], {})]

\* openAIToolCallMessage, claudeToolUseBlocks and responsesToolCallItems: the
\* response as it came, or its calls alone when its items were not captured.
ResponseItems(round) == IF round.items # <<>> THEN round.items ELSE CallItems(round.calls)

RoundItems ==
    IF rounds = <<>> THEN <<>> ELSE ResponseItems(rounds[1]) \o OutputItems(rounds[1])

-----------------------------------------------------------------------------
(* Requests.                                                               *)

\* Mutant: a follow-up with outputs names the parent that the turn named.
Previous_Parent == IF api = "responses" THEN chain ELSE None

\* responsesToolRoundChain and responsesInputMessages: the response that a
\* request names.
Previous ==
    IF api # "responses" \/ chain = None THEN None
    ELSE IF rounds = <<>> THEN chain
    ELSE IF stores THEN rounds[1].id ELSE None

Conversation == [i \in DOMAIN messages |-> Converted(messages[i])]

\* buildChatCompletionRequestBody and claudeMessageParams.
ChatRequest == Conversation \o RoundItems
ClaudeRequest == Conversation \o RoundItems

\* buildResponsesRequestBody: all of it, or what the named response lacks.
ResponsesRequest ==
    IF Previous = None THEN Conversation \o RoundItems
    ELSE IF rounds = <<>> THEN [i \in DOMAIN Unstored(messages) |-> Converted(Unstored(messages)[i])]
    ELSE OutputItems(rounds[1])

\* BuildGeminiGenerateContentRequest: the bot offers this API no tools.
GeminiRequest == Conversation

Request == CASE api = "chat"      -> ChatRequest      [] api = "claude" -> ClaudeRequest
             [] api = "responses" -> ResponsesRequest [] api = "gemini" -> GeminiRequest

\* geminiCachePrefixContents: the contents before the last of the user.
CachePrefix == SelectSeq(Front(Conversation), LAMBDA m : m.role # "instruction")

\* The server reads a request after what it names: the response that is kept
\* and the content that is cached.
Read(cached) ==
    (IF Previous = None THEN <<>> ELSE kept[Previous]) \o (IF cached THEN CachePrefix ELSE <<>>) \o Request

\* The files that the request refers to.
NeededFiles == UNION {
    {<<i, b[1]>> : b \in {c \in Converted(messages[i]).parts : c[2] = "file"}} :
        i \in DOMAIN messages}

-----------------------------------------------------------------------------
(* Actions.                                                                *)

\* A turn begins.  chainableResponsesPreviousResponse: it names the response
\* of the turn before if that is known and the query replies to it.
Begin(content) ==
    /\ step = "idle" /\ TurnNumber < MaxTurns
    /\ messages' = Append(messages, Message("user", TurnNumber + 1, content))
    /\ chain' \in (IF api = "responses" THEN {None, last} ELSE {None})
    /\ phase' = "first" /\ rounds' = <<>> /\ found' = FALSE
    /\ files' = <<>>
    /\ kept' = Restrict(kept, DOMAIN kept \cap {last})
    /\ step' = "building"
    /\ UNCHANGED <<backend, wire, nextID, last>>

\* geminiUploadedReaderPart: one file after the other.
Upload ==
    /\ step = "building" /\ Len(files) < Cardinality(NeededFiles)
    /\ \A i \in DOMAIN files : files[i] = "active"
    /\ \E state \in {"processing", "active", "failed"} :
        /\ files' = Append(files, state)
        /\ step' = IF state = "failed" THEN "failed" ELSE step
    /\ UNCHANGED <<backend, turn, wire, server, last>>

\* geminiWaitForFileActive: a tick of the ticker, or the end of the context.
Poll ==
    /\ step = "building" /\ files # <<>> /\ Last(files) = "processing"
    /\ \/ \E state \in {"active", "failed"} :
            /\ files' = [files EXCEPT ![Len(files)] = state]
            /\ step' = IF state = "failed" THEN "failed" ELSE step
       \/ step' = "failed" /\ UNCHANGED files
    /\ UNCHANGED <<backend, turn, wire, server, last>>

\* A request is sent.  A server that does not know the response it names
\* rejects it.  geminiEnsureCachedContent may fail; the request is sent then
\* without a cache.
Submit ==
    /\ step = "building"
    /\ Len(files) = Cardinality(NeededFiles) /\ \A i \in DOMAIN files : files[i] = "active"
    /\ asked' = Request
    /\ IF Previous # None /\ Previous \notin DOMAIN kept
         THEN step' = "rejected" /\ UNCHANGED heard
         ELSE /\ step' = "waiting"
              /\ \E cached \in {FALSE, Caching /\ api = "gemini" /\ CachePrefix # <<>>} :
                    heard' = Read(cached)
    /\ UNCHANGED <<backend, turn, files, server, last>>

\* The server keeps what it read and said, if it stores anything.
Respond(items) ==
    /\ kept' = IF stores /\ gives
               THEN [id \in DOMAIN kept \cup {nextID} |->
                        IF id = nextID THEN heard \o items ELSE kept[id]]
               ELSE kept
    /\ nextID' = nextID + 1
ResponseID == IF gives THEN nextID ELSE None

\* The model calls tools: the search runs, its results are retained, and the
\* answer is asked for with them (generateResponseWithWebSearchTool).
CallTools(n) ==
    /\ step = "waiting" /\ phase = "first" /\ api # "gemini"
    /\ \E captured \in (IF api = "claude" THEN {FALSE} ELSE BOOLEAN) :
        LET calls == [k \in 1 .. n |-> <<TurnNumber, k>>]
            items == <<Item("reasoning", "assistant", TurnNumber, {})>> \o CallItems(calls)
        IN /\ Respond(items)
           /\ rounds' = <<[id |-> ResponseID, calls |-> calls,
                           items |-> IF captured THEN items ELSE <<>>]>>
    /\ phase' = "forced" /\ found' = TRUE
    /\ step' = "building"
    /\ UNCHANGED <<backend, messages, chain, files, wire, last>>

\* toolFreeFinalAnswerRequest: at once if the backend ignores tool_choice
\* "none", or after an answer that is empty or calls tools again.
WithoutTools ==
    /\ phase = "forced" /\ step \in {"building", "waiting"}
    /\ phase' = "toolFree" /\ rounds' = <<>>
    /\ messages' = [messages EXCEPT ![Len(messages)].parts = @ \cup {"results"}]
    /\ step' = "building"
    /\ UNCHANGED <<backend, chain, found, files, wire, server, last>>

\* An answer: the turn is over.  retainWebSearchResults and release have put
\* what was found, the answer and its id into the history.
Answer ==
    /\ step = "waiting"
    /\ LET answer == Message("assistant", TurnNumber, {"text"})
           retained == IF found /\ phase # "toolFree" THEN {"results"} ELSE {}
       IN /\ Respond(<<Converted(answer)>>)
          /\ messages' = Append([messages EXCEPT ![Len(messages)].parts = @ \cup retained], answer)
    /\ last' = ResponseID
    /\ step' = "idle"
    /\ UNCHANGED <<backend, chain, phase, rounds, found, files, wire>>

\* isInvalidPreviousResponseError: the attempt is made again from the start,
\* without chaining.
RetryStateless ==
    /\ step = "rejected" /\ chain # None
    /\ chain' = None /\ phase' = "first" /\ rounds' = <<>>
    /\ messages' = [messages EXCEPT ![Len(messages)].parts = @ \ {"results"}]
    /\ step' = "building"
    /\ UNCHANGED <<backend, found, files, wire, server, last>>

\* A stored response expires before it is named.
Expire(id) ==
    /\ step = "building" /\ id = Previous
    /\ kept' = Restrict(kept, DOMAIN kept \ {id})
    /\ UNCHANGED <<backend, turn, files, wire, nextID, last, step>>

WireNext ==
    \/ \E content \in Contents[api] : Begin(content)
    \/ Upload \/ Poll \/ Submit
    \/ \E n \in 1 .. MaxCalls : CallTools(n)
    \/ WithoutTools \/ Answer \/ RetryStateless
    \/ \E id \in DOMAIN kept : Expire(id)

WireSpec == WireInit /\ [][WireNext]_wireVars

-----------------------------------------------------------------------------
(* Properties.                                                             *)

WireTypes ==
    /\ api \in DOMAIN Contents /\ gives \in BOOLEAN /\ stores \in BOOLEAN /\ found \in BOOLEAN
    /\ phase \in {"first", "forced", "toolFree"} /\ Len(rounds) <= 1
    /\ chain \in 0 .. nextID - 1 /\ last \in 0 .. nextID - 1
    /\ DOMAIN kept \subseteq 1 .. nextID - 1
    /\ ToSet(files) \subseteq {"processing", "active", "failed"}
    /\ step \in {"idle", "building", "waiting", "rejected", "failed"}

Parts(item) == {b[1] : b \in item.parts}

\* The number of messages among the first j items.
Spoken(items, j) == Cardinality({k \in 1 .. j : items[k].kind = "message"})
IsOf(item, m) ==
    /\ item.of = m.of /\ item.role = RoleOf(m)
    /\ m.parts \ {"blank", "results"} \subseteq Parts(item)

\* Whatever a request names instead of repeating it, the model reads every
\* message of the conversation once, in order and with all of its parts, and
\* the files among them are ready (responses.go:406, 430; gemini.go:1434).
HeardWhole == step = "waiting" =>
    /\ Spoken(heard, Len(heard)) = Len(messages)
    /\ \A j \in DOMAIN heard :
          heard[j].kind = "message" => IsOf(heard[j], messages[Spoken(heard, j)])
    /\ Len(files) = Cardinality(NeededFiles) /\ \A i \in DOMAIN files : files[i] = "active"

\* Every call that the model reads is answered once, right after the calls
\* of its response, and nothing is answered that was not called
\* (tool_rounds.go:79, 200).
CallsPaired == step = "waiting" =>
    /\ \A i \in DOMAIN heard : heard[i].kind = "call" =>
        Cardinality({j \in DOMAIN heard : heard[j].kind = "output" /\ heard[j].of = heard[i].of}) = 1
    /\ \A j \in DOMAIN heard : heard[j].kind = "output" =>
        \E i \in 1 .. j - 1 :
            /\ heard[i].kind = "call" /\ heard[i].of = heard[j].of
            /\ \A k \in i .. j : heard[k].kind \in {"call", "output"}

\* How often the model reads what the search of turn t found.
TimesRead(t) ==
    Cardinality({i \in DOMAIN heard :
        \/ heard[i].kind = "message" /\ heard[i].of = t /\ "results" \in Parts(heard[i])
        \/ heard[i].kind = "output" /\ heard[i].of = <<t, 1>>})

\* The results of a search reach the model in one form only, as outputs or
\* as text, in its own turn and in every later one (response.go:845;
\* search.go:985).
ResultsReadOnce == step = "waiting" =>
    /\ \A t \in 1 .. TurnNumber : TimesRead(t) <= 1
    /\ phase # "first" => TimesRead(TurnNumber) = 1

\* The model reads the whole conversation once, whatever a request names
\* instead of repeating it (responses.go:406): every call in it is answered
\* once, and what was found is read in one form (tool_rounds.go:79; response.go:845).
ReadOnce == WireTypes /\ HeardWhole /\ CallsPaired /\ ResultsReadOnce

\* The request that brings the outputs only adds to the one that asked for
\* them, "so the follow-up extends a byte-identical prefix" (response.go:674).
PrefixStep == step = "building" /\ step' = "waiting" /\ phase = "forced" => IsPrefix(heard, heard')
PrefixKept == [][PrefixStep]_wireVars

\* "Gemini treats cached content as a strict prefix of the prompt"
\* (gemini_cache.go:89): what is cached is not sent again.
CachedNotRepeated == step = "waiting" => \A i, j \in DOMAIN heard :
    heard[i].kind = "message" /\ heard[i] = heard[j] => i = j
=============================================================================
