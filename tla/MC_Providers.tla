----------------------------- MODULE MC_Providers -----------------------------
(***************************************************************************)
(* What happens between a message and the reply: the conversation that is  *)
(* prepared from it, the requests on the wire, the router that sends them, *)
(* the stream of each of the four APIs, and the two filters that the text  *)
(* passes.  They are checked as one specification whose initial states     *)
(* choose the part that runs.  The router and the wire stay in an initial  *)
(* state while another part runs, the variables of the other parts at      *)
(* <<>>.  Parts other than these two that name a variable alike share it.  *)
(***************************************************************************)
EXTENDS ChatRouter, ProviderWire

VARIABLES
    part,
    message, known, model, prepared, conv, warned, chained, losses,
    evictions, stage, requests,                         \* conversation; the last two: pc, sent
    result,                                             \* splitter, appendix: outcome
    reason,                                             \* chat, claude: finish
    added, streamed, settled, done, summaries, seen,    \* responses; overheard: shown
    overheard,
    inProgress, toolCalls, items,
    reported, ended,                                    \* responses, chat, claude
    handed,                                             \* chat, claude
    omitsDone, written, opened, calls, order,           \* chat
    text,                                               \* chat, appendix
    blocks, block, ids, buffers, stop, sawContent,      \* claude
    whole, inThinking, pending, thinking, answer, finishSeen,  \* splitter
    rendered, final                                     \* appendix

OnlyConversation == <<message, known, model, prepared, conv, warned, chained, losses,
    evictions, stage, requests>>
OnlyResponses == <<added, streamed, settled, done, summaries, seen, overheard, inProgress, toolCalls, items>>
OnlyChat == <<omitsDone, written, opened, calls, order>>
OnlyClaude == <<blocks, block, ids, buffers, stop, sawContent>>
OnlySplitter == <<whole, inThinking, pending, thinking, answer, finishSeen>>
OnlyAppendix == <<rendered, final>>

SomeBudget == [o \in {"clean", "broken", "queueFull"} |-> 2]
SomeOutput == <<"sum", "img", "c1", "c2">>
SomeTypes == [i \in {"sum", "img", "c1", "c2"} |->
    CASE i = "sum" -> "summary" [] i = "img" -> "image" [] OTHER -> "call"]

\* Two kinds of messages, between them with words, every kind of attachment
\* that is treated in a way of its own and the links of two stages.
SomePosts == {{"words", "image", "pdf", "audio"},
              {"video", "text", "docx", "zip", "tiktok", "website"}}
Asking == INSTANCE Preparation WITH
    node <- known, results <- prepared, pc <- stage, sent <- requests,
    Posts <- SomePosts, Models <- {"gemini", "openai", "opencode"},
    Vision <- {"gemini", "openai", "claude"}, Suffixed <- {"openai", "opencode"},
    Unprompted <- {"openai"}, Chaining <- {"openai"}, Fallback <- "openai", MediaModel <- TRUE,
    Stages <- {"tiktok", "website"}, MaxMessages <- 3, MaxImages <- 1, LastMessage <- 3,
    MaxLosses <- 1, MaxEvictions <- 1

SomeContents == [a \in {"chat", "responses", "claude", "gemini"} |->
    CASE a = "chat"      -> {{"image"}, {"text", "video"}}
      [] a = "responses" -> {{"image"}, {"text", "audio"}}
      [] a = "claude"    -> {{"blank"}, {"text", "pdf", "zip"}}
      [] a = "gemini"    -> {{"image"}, {"bigImage"}, {"text", "video", "pdf"}}]

Responses == INSTANCE ResponsesStream WITH shown <- overheard, Output <- SomeOutput, TypeOf <- SomeTypes, Chunks <- 2
Chat == INSTANCE ChatStream WITH finish <- reason, Indexes <- {0, 1}, Fragments <- 2, MaxText <- 2
Claude == INSTANCE ClaudeStream WITH finish <- reason, MaxBlocks <- 4, MaxDeltas <- 2
Splitter == INSTANCE ThoughtSplitter WITH outcome <- result, MaxText <- 7, MaxChunk <- 2
Appendix == INSTANCE SourceAppendix WITH outcome <- result, MaxText <- 6

ASSUME Responses!OutputAssumption /\ Chat!BoundsAssumption
ASSUME Claude!BoundsAssumption /\ Splitter!BoundsAssumption /\ Appendix!MaxTextAssumption

\* The variables of a part that does not run.
NoConversation == message = <<>> /\ known = <<>> /\ model = <<>> /\ prepared = <<>> /\ conv = <<>>
    /\ warned = <<>> /\ chained = <<>> /\ losses = <<>> /\ evictions = <<>> /\ stage = <<>> /\ requests = <<>>
NoResponses == overheard = <<>> /\ added = <<>> /\ streamed = <<>> /\ settled = <<>> /\ done = <<>>
    /\ summaries = <<>> /\ seen = <<>> /\ inProgress = <<>> /\ toolCalls = <<>> /\ items = <<>>
NoChat == omitsDone = <<>> /\ written = <<>> /\ opened = <<>> /\ calls = <<>> /\ order = <<>>
NoClaude == blocks = <<>> /\ block = <<>> /\ ids = <<>> /\ buffers = <<>> /\ stop = <<>>
    /\ sawContent = <<>>
NoSplitter == whole = <<>> /\ inThinking = <<>> /\ pending = <<>> /\ thinking = <<>>
    /\ answer = <<>> /\ finishSeen = <<>>
NoAppendix == rendered = <<>> /\ final = <<>>
NoStream == reported = <<>> /\ ended = <<>>

Resting == RouterInit /\ nextIndex = 0 /\ kind = [p \in Prompts |-> "openai"]
           /\ shrinks = [p \in Prompts |-> 0]
NoWire == WireInit /\ api = "chat" /\ messages = <<>>

Init ==
    \/ /\ part = "conversation" /\ Asking!Init /\ Resting
       /\ NoWire /\ NoResponses /\ NoChat /\ NoClaude /\ NoSplitter /\ NoAppendix /\ NoStream
       /\ result = <<>> /\ reason = <<>> /\ handed = <<>> /\ text = <<>>
    \/ /\ part = "router" /\ RouterInit
       /\ NoConversation
       /\ NoWire /\ NoResponses /\ NoChat /\ NoClaude /\ NoSplitter /\ NoAppendix /\ NoStream
       /\ result = <<>> /\ reason = <<>> /\ handed = <<>> /\ text = <<>>
    \/ /\ part = "responses" /\ Responses!Init /\ Resting
       /\ NoConversation
       /\ NoWire /\ NoChat /\ NoClaude /\ NoSplitter /\ NoAppendix
       /\ result = <<>> /\ reason = <<>> /\ handed = <<>> /\ text = <<>>
    \/ /\ part = "chat" /\ Chat!Init /\ Resting
       /\ NoConversation
       /\ NoWire /\ NoResponses /\ NoClaude /\ NoSplitter /\ NoAppendix
       /\ result = <<>>
    \/ /\ part = "claude" /\ Claude!Init /\ Resting
       /\ NoConversation
       /\ NoWire /\ NoResponses /\ NoChat /\ NoSplitter /\ NoAppendix
       /\ result = <<>> /\ text = <<>>
    \/ /\ part = "splitter" /\ Splitter!Init /\ Resting
       /\ NoConversation
       /\ NoWire /\ NoResponses /\ NoChat /\ NoClaude /\ NoAppendix /\ NoStream
       /\ reason = <<>> /\ handed = <<>> /\ text = <<>>
    \/ /\ part = "appendix" /\ Appendix!Init /\ Resting
       /\ NoConversation
       /\ NoWire /\ NoResponses /\ NoChat /\ NoClaude /\ NoSplitter /\ NoStream
       /\ reason = <<>> /\ handed = <<>>
    \/ /\ part = "wire" /\ WireInit /\ Resting
       /\ NoConversation
       /\ NoResponses /\ NoChat /\ NoClaude /\ NoSplitter /\ NoAppendix /\ NoStream
       /\ result = <<>> /\ reason = <<>> /\ handed = <<>> /\ text = <<>>

ConversationNext == part = "conversation" /\ Asking!Next /\ UNCHANGED
    <<part, routerVars, wireVars, OnlyResponses, OnlyChat, OnlyClaude, OnlySplitter,
      OnlyAppendix, reported, ended, result, reason, handed, text>>
RouterStep == part = "router" /\ RouterNext /\ UNCHANGED
    <<part, OnlyConversation, wireVars, OnlyResponses, OnlyChat, OnlyClaude,
      OnlySplitter, OnlyAppendix, reported, ended, result, reason, handed, text>>
ResponsesNext == part = "responses" /\ Responses!Next /\ UNCHANGED
    <<part, OnlyConversation, routerVars, wireVars, OnlyChat, OnlyClaude,
      OnlySplitter, OnlyAppendix, result, reason, handed, text>>
ChatNext == part = "chat" /\ Chat!Next /\ UNCHANGED
    <<part, OnlyConversation, routerVars, wireVars, OnlyResponses, OnlyClaude,
      OnlySplitter, OnlyAppendix, result>>
ClaudeNext == part = "claude" /\ Claude!Next /\ UNCHANGED
    <<part, OnlyConversation, routerVars, wireVars, OnlyResponses, OnlyChat,
      OnlySplitter, OnlyAppendix, result, text>>
SplitterNext == part = "splitter" /\ Splitter!Next /\ UNCHANGED
    <<part, OnlyConversation, routerVars, wireVars, OnlyResponses, OnlyChat,
      OnlyClaude, OnlyAppendix, reported, ended, reason, handed, text>>
AppendixNext == part = "appendix" /\ Appendix!Next /\ UNCHANGED
    <<part, OnlyConversation, routerVars, wireVars, OnlyResponses, OnlyChat,
      OnlyClaude, OnlySplitter, reported, ended, reason, handed>>
WireStep == part = "wire" /\ WireNext /\ UNCHANGED
    <<part, OnlyConversation, routerVars, OnlyResponses, OnlyChat, OnlyClaude,
      OnlySplitter, OnlyAppendix, reported, ended, result, reason, handed, text>>

Next == ConversationNext \/ RouterStep \/ ResponsesNext \/ ChatNext \/ ClaudeNext \/ SplitterNext \/ AppendixNext
        \/ WireStep

vars == <<part, OnlyConversation, routerVars, wireVars, OnlyResponses, OnlyChat,
          OnlyClaude, OnlySplitter, OnlyAppendix, result, reason, reported, ended, handed, text>>
Spec == Init /\ [][Next]_vars

-----------------------------------------------------------------------------
(* Properties: those of the part that runs, with its type invariant.       *)
(* OneStreamShown and AllKeysTried are checked as ChatRouter states them,   *)
(* ReadOnce and PrefixKept as ProviderWire does.                            *)

\* The model is asked what the user said, all of it or with a warning shown,
\* and with its own phrases and prompt only (conversation.go, messages.go).
RequestIsFaithful == part = "conversation" =>
    Asking!TypeOK /\ Asking!SourceRepresented /\ Asking!PromptsDoNotLeak

\* The calls that a model makes reach the follow-up as it made them, once
\* each and in its order, whatever the API and however its events interleave.
CallsReachFollowUp ==
    /\ part = "responses" => Responses!TypeOK /\ Responses!EachItemOnce /\ Responses!ReplayedInOrder
    /\ part = "chat" => Chat!TypeOK /\ Chat!CallsMerged
    /\ part = "claude" => Claude!TypeOK /\ Claude!BlocksKept /\ Claude!CutIsUnfinished

\* The filters that the text of an answer passes depend on the text alone,
\* not on the chunks in which it arrives.
TextShownWhole ==
    /\ part = "splitter" => Splitter!TypeOK /\ Splitter!SplitAsWhole
    /\ part = "appendix" => Appendix!TypeOK /\ Appendix!ShownIsKept
=============================================================================
