------------------------------ MODULE Preparation ------------------------------
(***************************************************************************)
(* How a reply is prepared (internal/app/messages.go, conversation.go,     *)
(* augmentation.go, media_analysis.go, pdf.go): the reply chain is read    *)
(* back from the nodes, cut down to what the reply model takes, augmented  *)
(* in stages with what it cannot take or look up itself, kept on the       *)
(* source message's node for later turns, and sent, once more if a         *)
(* fallback model has to answer.                                           *)
(*                                                                         *)
(* Messages are numbered as they are posted.  A text is the set of the     *)
(* things it says, an attachment is <<kind, message>>.                     *)
(***************************************************************************)
EXTENDS Integers, Sequences, FiniteSets, SequencesExt

CONSTANTS
    Posts,         \* the messages a user may post: sets of attachment kinds,
                   \* with "words" and the links of Stages
    Models,        \* the models a user may select, ContentOptions' domain
    Vision,        \* those that isVisionModel accepts
    Suffixed,      \* those whose provider has auto_append phrases
    Unprompted,    \* those whose provider has dont_send_system_prompt
    Chaining,      \* those that answer through the Responses API and chain
    Fallback,      \* fallback_model
    MediaModel,    \* whether configuredGeminiMediaModel finds one
    Stages,        \* the augmentation stages to explore
    MaxMessages, MaxImages, \* max_messages and max_images
    LastMessage,   \* bound: messages posted, the bot's included
    MaxLosses,     \* bound: downloads, fetches and analyses that fail
    MaxEvictions   \* bound: nodes evicted

VARIABLES
    message,  \* Discord's messages: author, the one replied to, attachments
    node,     \* per message: what its node keeps, NoNode when not in the map
    pc,       \* where the preparation is
    model,    \* the model that answers
    results,  \* per stage: its prepared augmentation, once it has one
    conv,     \* the conversation being built, oldest first
    warned,   \* the warnings so far
    sent,     \* the requests of this turn: the conversation each one carries
    chained,  \* the messages that previous_response_id stands for, 0 for none
    losses, evictions

vars == <<message, node, pc, model, results, conv, warned, sent, chained,
          losses, evictions>>

NoNode == [role |-> "none"]
NoMessage == 0
Source == Len(message)
Nothing == [text |-> {}, media |-> {}]
Videos == {"tiktok", "facebook", "youtube shorts"}
Says(what, of) == <<what, of>>
Attached(kinds) == kinds \ (Stages \cup {"words"})
Take(s, n) == SubSeq(s, 1, IF n < Len(s) THEN n ELSE Len(s))

-----------------------------------------------------------------------------
(* What a model takes (messageContentOptionsForModel). *)

ContentOptions(m) ==
    [images |-> IF m \in Vision THEN MaxImages ELSE 0,
     kinds |-> CASE m = "gemini"   -> {"audio", "video", "pdf", "text", "zip"}
                 [] m = "claude"   -> {"pdf", "text", "zip"}
                 [] m = "openai"   -> {"audio"}
                 [] m = "mimo"     -> {"audio", "video"}
                 [] m = "opencode" -> {}]

Images == {"image", "page"}
Kind(item) == item[1]

\* selectMessageMedia: what the model takes, and no more than its images.
SelectMedia(media, opt) ==
    LET images == SelectSeq(media, LAMBDA item : Kind(item) \in Images)
        kept == ToSet(Take(images, opt.images))
    IN  SelectSeq(media, LAMBDA item : item \in kept \/ Kind(item) \in opt.kinds)

\* inlineTextAttachmentContent: a text file is read out to a model that does
\* not take files.
Inlined(media, opt) ==
    {Says("reads", item) : item \in
        {i \in ToSet(media) : Kind(i) = "text" /\ "text" \notin opt.kinds}}

\* buildMessageContent.
Content(k, n, opt) ==
    [of |-> k, role |-> n.role, media |-> SelectMedia(n.media, opt),
     text |-> n.text \cup Inlined(n.media, opt)]

Empty(c) == c.text = {} /\ c.media = <<>>

ImagesOf(c) == Len(SelectSeq(c.media, LAMBDA item : Kind(item) \in Images))
ImageCount(cs) ==
    LET upTo[i \in 0..Len(cs)] == IF i = 0 THEN 0 ELSE upTo[i - 1] + ImagesOf(cs[i])
    IN  upTo[Len(cs)]

\* capConversationImages: the oldest go first.
CapImages(cs, max) ==
    LET budget(i) == max - ImageCount(SubSeq(cs, i + 1, Len(cs)))
        dropped(i) == IF ImagesOf(cs[i]) <= budget(i) THEN 0
                      ELSE IF budget(i) <= 0 THEN ImagesOf(cs[i])
                      ELSE ImagesOf(cs[i]) - budget(i)
        first(i) == Take(SelectSeq(cs[i].media, LAMBDA x : Kind(x) \in Images), dropped(i))
    IN  IF max = 0 THEN cs
        ELSE [i \in DOMAIN cs |-> [cs[i] EXCEPT !.media =
                 SelectSeq(@, LAMBDA x : x \notin ToSet(first(i)))]]

-----------------------------------------------------------------------------
(* Nodes.  initializeNode downloads the attachments and finds the parent.   *)

\* attachmentSummaryText: what is said of attachments that are neither media
\* nor text.
Summary(k, kinds) == {Says("lists", <<kind, k>>) : kind \in kinds \cap {"zip"}}

\* buildMessageText: the words of a message, its components' and the summary.
Words(k, kinds) ==
    {Says("words", <<word, k>>) : word \in kinds \cap (Stages \cup {"words"})} \cup Summary(k, kinds)

\* buildMediaParts: a part for each attachment that was downloaded.
MediaParts(k, kinds) ==
    FoldSet(LAMBDA kind, parts : Append(parts, <<kind, k>>), <<>>, Attached(kinds))

\* resolveParentMessage: the message replied to, or the one before it in the
\* channel or its thread's first, if it can be looked up.
ParentOf(k, orphan) == IF orphan THEN NoMessage ELSE message[k].re

\* lost: what could not be downloaded, or is an image that no provider takes.
\* orphan: whether looking the parent up failed.
InitNode(k, lost, orphan) ==
    LET kinds == message[k].kinds \ lost
        media == MediaParts(k, kinds)
        text == Words(k, kinds)
    IN  [role |-> message[k].author, media |-> media,
         failed |-> lost # {}, orphan |-> orphan,
         re |-> ParentOf(k, orphan),
         text |-> IF lost # {} /\ text = {} /\ media = <<>>
                  THEN {Says("apology", <<"words", k>>)} ELSE text,
         by |-> "nobody", stored |-> Nothing]

\* The nodes with those of the given messages initialized, where the source's
\* attachments or one parent may be lost.
Initialized(ks, lost, orphans) ==
    [k \in DOMAIN node |->
        IF k \in ks /\ node[k] = NoNode
        THEN InitNode(k, IF k = Source THEN lost ELSE {}, k \in orphans) ELSE node[k]]

\* stopsAtDirectReplyTarget, and otherwise the parent that a node has.
ParentIn(nodes, k) ==
    IF k = nodes[Source].re /\ nodes[k].role = "user" THEN NoMessage ELSE nodes[k].re

\* The messages that buildConversation visits, newest first, if it does not
\* stop for having enough.
Path(nodes) ==
    LET walk[n \in Nat] ==
            IF n = 0 THEN <<Source>>
            ELSE LET newer == walk[n - 1]
                     parent == ParentIn(nodes, Last(newer))
                 IN  IF parent = NoMessage THEN newer ELSE Append(newer, parent)
    IN  walk[Source]

\* attachmentAugmentationMessages: the source, the message it replies to and,
\* if that is an answer, the message it answers.
Scope(nodes) ==
    LET target == nodes[Source].re
        answered == IF target # NoMessage /\ nodes[target].role = "assistant"
                    THEN nodes[target].re ELSE NoMessage
    IN  {Source, target, answered} \ {NoMessage}

-----------------------------------------------------------------------------
Pending == "pending"

Init ==
    /\ message = <<>> /\ node = <<>> /\ pc = "idle"
    /\ model = Fallback
    /\ results = [s \in Stages |-> Pending]
    /\ conv = <<>> /\ warned = {} /\ sent = <<>> /\ chained = 0
    /\ losses = 0 /\ evictions = 0

Goto(label) == pc' = label
KeepTurn == UNCHANGED <<message, model, results, sent, chained, evictions>>
Lose == losses < MaxLosses /\ losses' = losses + 1

\* What is local to respondToMessage ends with it.
EndTurn ==
    /\ Goto("idle")
    /\ model' = Fallback /\ results' = [s \in Stages |-> Pending]
    /\ conv' = <<>> /\ warned' = {} /\ sent' = <<>> /\ chained' = 0

\* A message is posted, in reply to any earlier one or to none; the bot answers
\* it with the model selected now, or it is not addressed to the bot.
Post ==
    /\ pc = "idle" /\ Len(message) < LastMessage
    /\ \E kinds \in Posts, re \in 0..Len(message) :
          message' = Append(message, [author |-> "user", re |-> re, kinds |-> kinds])
    /\ \/ Goto("build") /\ model' \in Models
       \/ UNCHANGED <<pc, model>>
    /\ node' = Append(node, NoNode)
    /\ UNCHANGED <<results, conv, warned, sent, chained, losses, evictions>>

\* evictExcess takes a node between two turns: it is read anew from Discord.
Evict ==
    /\ pc = "idle" /\ Len(message) < LastMessage
    /\ evictions < MaxEvictions /\ evictions' = evictions + 1
    /\ \E k \in DOMAIN node : node[k] # NoNode /\ node' = [node EXCEPT ![k] = NoNode]
    /\ UNCHANGED <<message, pc, model, results, conv, warned, sent, chained, losses>>

\* appendConversationWarnings.
WarningsOf(n, opt, count) ==
    {w \in {"images", "download", "older"} :
        \/ w = "images" /\ Len(SelectSeq(n.media, LAMBDA i : Kind(i) \in Images)) > opt.images
        \/ w = "download" /\ n.failed
        \/ w = "older" /\ (n.orphan \/ (n.re # NoMessage /\ count = MaxMessages))}

\* buildMessageConversation: buildConversation, then the budget of images.
BuildConversation ==
    /\ pc = "build"
    /\ \E lost \in {{}} \cup {{kind} : kind \in Attached(message[Source].kinds)},
          orphans \in {{}} \cup {{k} : k \in {j \in DOMAIN node :
                                  node[j] = NoNode /\ message[j].re # NoMessage}} :
         LET all == Initialized(DOMAIN node, lost, orphans)
             opt == ContentOptions(model)
             whole(k) == Content(k, all[k], opt)
             content(k) == IF Empty(whole(k)) /\ k = Source
                           THEN [whole(k) EXCEPT !.text = {Says("placeholder", <<"words", k>>)}]
                           ELSE whole(k)
             shown == Take(SelectSeq(Path(all), LAMBDA k : ~Empty(content(k))), MaxMessages)
             enough == Len(shown) = MaxMessages
             visited == {k \in ToSet(Path(all)) : ~enough \/ k >= Last(shown)}
             count(k) == Cardinality({j \in ToSet(shown) : j >= k})
             built == [i \in DOMAIN shown |-> content(shown[Len(shown) + 1 - i])]
             capped == CapImages(built, opt.images)
         IN  /\ IF lost = {} /\ orphans = {} THEN UNCHANGED losses
                ELSE Lose /\ (lost = {} \/ orphans = {})
             /\ node' = [k \in DOMAIN node |->
                            IF k \in visited \cup Scope(all) THEN all[k] ELSE node[k]]
             /\ orphans \subseteq visited \cup Scope(all)
             /\ conv' = capped
             /\ warned' = UNION {WarningsOf(all[k], opt, count(k)) : k \in visited}
                          \cup (IF capped # built THEN {"conversation images"} ELSE {})
    /\ Goto("videos") /\ KeepTurn

\* The latest user message of the conversation with something added to it
\* (appendContextToConversation, appendMediaPartsToConversation).
Latest == CHOOSE i \in DOMAIN conv : /\ conv[i].role = "user"
                                     /\ \A j \in DOMAIN conv : conv[j].role = "user" => j <= i
Augmented(words, media) ==
    [conv EXCEPT ![Latest].text = @ \cup words, ![Latest].media = @ \o media]

\* The stages of a phase run as tasks side by side; each ends on its own.
Phase == IF pc = "videos" THEN Stages \cap Videos ELSE Stages \ Videos

\* sourceMessageURLExtractionText: the links in the source and in the user's
\* message it replies to.
Linked(s) == \/ s \in message[Source].kinds
             \/ LET target == node[Source].re
                IN  /\ target # NoMessage /\ message[target].author = "user"
                    /\ s \in message[target].kinds

\* What a stage may come back with: nothing, content, a warning, or an error,
\* which only a video's analysis for a model that cannot watch it gives.
Outcomes(s) ==
    IF ~Linked(s) THEN {"nothing"} ELSE {"content", "warning"}
    \cup (IF s \in Videos /\ model # "gemini" /\ MediaModel THEN {"error"} ELSE {})

PrepareStage(s) ==
    /\ pc \in {"videos", "stages"} /\ s \in Phase /\ results[s] = Pending
    /\ \E o \in Outcomes(s) :
          /\ results' = [results EXCEPT ![s] = o]
          /\ IF o \in {"warning", "error"} THEN Lose ELSE UNCHANGED losses
    /\ UNCHANGED <<message, node, pc, model, conv, warned, sent, chained, evictions>>

\* What a stage's content adds: a section of the prompt; for a video its media
\* part, to a model of Gemini's, and else its analysis, if there is a model for it.
Clip(s) == <<"video", Source, s>>
\* analyzeMediaWithGemini: what each clip is about, in words.
Analyses(items) == {Says("hears", item) : item \in items}
AddedWords(s) ==
    IF s \notin Videos THEN {Says("section", <<s, Source>>)}
    ELSE IF model = "gemini" \/ ~MediaModel THEN {} ELSE Analyses({Clip(s)})
AddedMedia(s) == IF s \in Videos /\ model = "gemini" THEN <<Clip(s)>> ELSE <<>>

\* applyAugmentationStages: once all are back, in the order of the stages.
ApplyStages(next) ==
    LET with == {s \in Phase : results[s] = "content"}
        unheard == {s \in with \cap Videos : model # "gemini" /\ ~MediaModel}
        bad == {s \in Phase : results[s] = "warning"} \cup unheard
    IN  /\ \A s \in Phase : results[s] # Pending
        /\ IF \E s \in Phase : results[s] = "error"
           THEN Goto("failed") /\ UNCHANGED <<conv, warned>>
           ELSE /\ conv' = Augmented(UNION {AddedWords(s) : s \in with},
                                     FlattenSeq(SetToSeq({AddedMedia(s) : s \in with})))
                /\ warned' = warned \cup bad
                /\ Goto(next)
        /\ UNCHANGED losses

ApplyVideos == pc = "videos" /\ ApplyStages("documents") /\ UNCHANGED node /\ KeepTurn
ApplyLinks == pc = "stages" /\ ApplyStages("persist") /\ UNCHANGED node /\ KeepTurn

ItemsIn(ks) == UNION {ToSet(node[k].media) : k \in {j \in ks : node[j] # NoNode}}

\* maybeAugmentConversationWithPDFContents: documents that the model's API does
\* not read are read here, with as many of their pages as the latest message
\* still has room for.
Documents ==
    {item \in ItemsIn(Scope(node)) :
        \/ Kind(item) = "docx"
        \/ Kind(item) = "pdf" /\ "pdf" \notin ContentOptions(model).kinds}
\* remainingImageSlotsForConversation.
Slots == ContentOptions(model).images - ImagesOf(conv[Latest])
\* extractPDFContent: the text of a document, and its images, a page here.
Reading(ds) == {Says("reads", d) : d \in ds}
Pages(ds) == SetToSeq({<<"page", d>> : d \in ds})

ExtractDocuments ==
    /\ pc = "documents"
    /\ \/ /\ conv' = Augmented(Reading(Documents), Take(Pages(Documents), Slots))
          /\ Goto("media") /\ UNCHANGED losses
       \/ /\ Documents # {} /\ Lose
          /\ Goto("failed") /\ UNCHANGED conv
    /\ UNCHANGED <<node, warned>> /\ KeepTurn

\* historyAudioPartsForModel: for a model that hears nothing, the clips kept on
\* the messages before the source, as far back as there are nodes.
Before ==
    LET back[n \in Nat] ==
            IF n = 0 THEN {Source}
            ELSE LET newer == back[n - 1]
                     known == {k \in newer : node[k] # NoNode /\ node[k].re # NoMessage}
                 IN  newer \cup {node[k].re : k \in known}
    IN  back[Source] \ {Source}
HistoryAudio ==
    IF "audio" \in ContentOptions(model).kinds THEN {}
    ELSE {item \in ItemsIn(Before) : Kind(item) = "audio"}

\* mediaPartsForPreprocessing, and maybeAugmentConversationWithGeminiMedia: all
\* that the model can neither hear nor see is described to it, or the reply fails.
Unheard ==
    HistoryAudio \cup
    {item \in ItemsIn(Scope(node)) :
        Kind(item) \in {"audio", "video"} \ ContentOptions(model).kinds}
AnalyzeMedia ==
    /\ pc = "media"
    /\ IF model = "gemini" \/ Unheard = {}
       THEN Goto("stages") /\ UNCHANGED <<conv, losses>>
       ELSE \/ /\ MediaModel
               /\ conv' = Augmented(Analyses(Unheard), <<>>)
               /\ Goto("stages") /\ UNCHANGED losses
            \/ /\ IF MediaModel THEN Lose ELSE UNCHANGED losses
               /\ Goto("failed") /\ UNCHANGED conv
    /\ UNCHANGED <<node, warned>> /\ KeepTurn

\* retainedHistoryMedia: a clip that was described to a model that cannot hear
\* it is not kept.
Retained(c) ==
    IF \/ "audio" \in ContentOptions(model).kinds
       \/ \A w \in c.text : w[1] # "hears"
    THEN c.media ELSE SelectSeq(c.media, LAMBDA item : Kind(item) # "audio")

\* applyAutoAppend and prependSystemPrompt, for the model m.
System == [of |-> NoMessage, role |-> "system", media |-> <<>>,
           text |-> {Says("system", <<"words", NoMessage>>)}]
Suffix == Says("suffix", <<"words", NoMessage>>)
AutoAppend(cs, m) ==
    IF m \notin Suffixed THEN cs
    ELSE [cs EXCEPT ![Len(cs)].text = @ \cup {Suffix}]
Prompted(cs, m) == IF m \in Unprompted THEN cs ELSE <<System>> \o cs

\* Mutant: what is kept on the node is what is sent.
PersistSource_Suffixed ==
    /\ pc = "persist"
    /\ node' = [node EXCEPT ![Source].text = Last(AutoAppend(conv, model)).text,
                            ![Source].media = Retained(conv[Latest])]
    /\ Goto("request")
    /\ UNCHANGED <<conv, warned, losses>> /\ KeepTurn

\* persistAugmentedSourceMessage.
PersistSource ==
    /\ pc = "persist"
    /\ node' = [node EXCEPT ![Source].text = conv[Latest].text,
                            ![Source].media = Retained(conv[Latest])]
    /\ Goto("request")
    /\ UNCHANGED <<conv, warned, losses>> /\ KeepTurn

\* chainableResponsesPreviousResponse: how many messages previous_response_id
\* stands for, in a reply to an answer of this model's that is stored.
Chainable(cs) ==
    LET parent == node[Source].re
    IN  IF /\ model \in Chaining /\ Len(cs) >= 2
           /\ Last(cs).role = "user" /\ cs[Len(cs) - 1].role = "assistant"
           /\ parent # NoMessage /\ node[parent] # NoNode
           /\ node[parent].role = "assistant" /\ node[parent].by = model
        THEN Len(cs) - 1 ELSE 0

\* The end of prepareMessageResponse.
Request ==
    /\ pc = "request"
    /\ LET cs == Prompted(AutoAppend(conv, model), model)
       IN  sent' = <<[by |-> model, conv |-> cs]>> /\ chained' = Chainable(cs)
    /\ Goto("generate")
    /\ UNCHANGED <<message, node, model, results, conv, warned, losses, evictions>>

\* buildFallbackRequest: the model failed, and the fallback gets the
\* conversation as it was before the model's own phrases and prompt.
RequestFallback ==
    /\ pc = "generate" /\ Len(sent) = 1 /\ Fallback \in Models \ {model} /\ Lose
    /\ sent' = Append(sent, [by |-> Fallback, conv |->
                   Prompted(AutoAppend(conv, Fallback), Fallback)])
    /\ chained' = 0
    /\ UNCHANGED <<message, node, pc, model, results, conv, warned, evictions>>

\* The last request is answered: the answer is a message with a node, and a
\* provider that chains has stored the conversation it belongs to.
TextOf(cs) == UNION {cs[i].text : i \in DOMAIN cs}
MediaOf(cs) == UNION {ToSet(cs[i].media) : i \in DOMAIN cs}
Answer ==
    /\ pc = "generate" /\ Len(message) < LastMessage
    /\ LET r == Last(sent)
           k == Source + 1
           own == {Says("words", <<"words", k>>)}
           tail == SubSeq(r.conv, chained + 1, Len(r.conv))
           before == IF chained = 0 THEN Nothing
                     ELSE node[node[Source].re].stored
       IN  /\ message' = Append(message,
                    [author |-> "assistant", re |-> Source, kinds |-> {"words"}])
           /\ node' = Append(node,
                 [role |-> "assistant", media |-> <<>>, failed |-> FALSE, orphan |-> FALSE,
                  re |-> Source, text |-> own,
                  by |-> IF r.by \in Chaining THEN r.by ELSE "nobody",
                  stored |-> [text |-> before.text \cup TextOf(tail) \cup own,
                              media |-> before.media \cup MediaOf(tail)]])
    /\ EndTurn /\ UNCHANGED <<losses, evictions>>

\* No answer: an error is shown on the progress card, or in the answer's place.
GiveUp ==
    /\ pc = "failed" \/ (pc = "generate" /\ losses = MaxLosses)
    /\ EndTurn /\ UNCHANGED <<message, node, losses, evictions>>

Next ==
    \/ Post \/ Evict \/ BuildConversation
    \/ \E s \in Stages : PrepareStage(s)
    \/ ApplyVideos \/ ExtractDocuments \/ AnalyzeMedia \/ ApplyLinks
    \/ PersistSource \/ Request \/ RequestFallback \/ Answer \/ GiveUp

Spec == Init /\ [][Next]_vars

-----------------------------------------------------------------------------
\* The type invariant; every message has a place for its node.
TypeOK ==
    /\ Len(node) = Len(message) /\ Len(message) <= LastMessage
    /\ pc \in {"idle", "build", "videos", "documents", "media", "stages",
              "persist", "request", "generate", "failed"}
    /\ model \in Models
    /\ results \in [Stages -> {Pending, "nothing", "content", "warning", "error"}]
    /\ chained \in 0..(LastMessage + 1)
    /\ losses \in 0..MaxLosses /\ evictions \in 0..MaxEvictions

ReplyChain ==
    LET up[n \in Nat] ==
            IF n = 0 THEN {Source}
            ELSE LET newer == up[n - 1]
                     direct == {k \in newer : k = message[Source].re /\ message[k].author = "user"}
                 IN  newer \cup ({message[k].re : k \in newer \ direct} \ {NoMessage})
    IN  up[Source]

\* What a user says is never dropped without a word: each attachment of the
\* message is in the request as it is or in words, and so is each message with
\* words up the replies, down to the first that a user is answering directly,
\* or a warning is shown; whatever the model takes, could be downloaded, looked
\* up, read or fitted in.
SourceRepresented ==
    pc = "generate" /\ warned = {} =>
        /\ \A kind \in Attached(message[Source].kinds) :
               \/ \E w \in TextOf(sent[1].conv) : w[2] = <<kind, Source>>
               \/ <<kind, Source>> \in MediaOf(sent[1].conv)
        /\ \A k \in ReplyChain : \E i \in DOMAIN sent[1].conv : sent[1].conv[i].of = k

\* The phrases and the prompt of a model reach that model only: a request has
\* the system prompt once and in front, the phrases on its last message, and
\* neither a fallback's request nor a later turn repeats them.
PromptsDoNotLeak ==
    /\ pc = "generate" => \A i \in DOMAIN sent :
          LET r == sent[i]
          IN  /\ Last(r.conv).of = Source
              /\ \A j \in DOMAIN r.conv :
                    /\ r.conv[j].role = "system" <=> j = 1 /\ r.by \notin Unprompted
                    /\ Suffix \in r.conv[j].text <=>
                           j = Len(r.conv) /\ r.by \in Suffixed
    /\ \A k \in DOMAIN node : node[k] # NoNode => Suffix \notin node[k].text

\* README.md:68: max_images is the number of images kept per conversation.
ImagesWithinBudget ==
    pc = "generate" => \A i \in DOMAIN sent : ImageCount(sent[i].conv) <= MaxImages

\* providers/types.go:43: the messages that previous_response_id stands for are
\* already stored under it.
ChainedPrefixStored ==
    pc = "generate" /\ chained > 0 =>
        LET prefix == SubSeq(sent[1].conv, 1, chained)
            stored == node[node[Source].re].stored
        IN  TextOf(prefix) \subseteq stored.text /\ MediaOf(prefix) \subseteq stored.media
=============================================================================
