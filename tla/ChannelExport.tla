----------------------------- MODULE ChannelExport -----------------------------
(***************************************************************************)
(* /export-non-agent (internal/app/export_channel.go): a channel's history *)
(* is read page by page, newest first, until the token budget is used up;  *)
(* while it is read users post and delete, pages fail, and the token with  *)
(* which the command can be answered expires.                              *)
(***************************************************************************)
EXTENDS Integers, Sequences, FiniteSets, Functions

CONSTANTS
    Histories,    \* what the channel may hold: per message, oldest first, its
                  \* tokens, 0 for a bot's or a webhook's
    PageSize,     \* exportChannelPageSize
    Limits,       \* token limits that may be asked for
    Header,       \* exportChannelPayloadHeaderTokens
    Attempts,     \* exportChannelRetryMaxAttempts
    MaxChanges,   \* bound: messages posted or deleted meanwhile
    MaxLosses     \* bound: calls that fail

\* A page is asked for with a limit of at least one message, and at least once.
ASSUME ExportAssumption ==
    /\ Histories \subseteq Seq(Nat) /\ PageSize \in Nat \ {0} /\ Attempts \in Nat \ {0}
    /\ MaxChanges \in Nat /\ MaxLosses \in Nat

VARIABLES
    history,   \* Discord: the tokens of every message, in the order of their ids
    deleted,   \* Discord: ids that are gone
    budget,    \* the token limit asked for
    stage,     \* of the command: where it is
    last,      \* the newest id when the first page was read, or 0
    before,    \* beforeID, above all ids at first
    attempt,   \* of loadExportChannelPage
    page,      \* the ids of the page that are still to be appended
    full,      \* done: a message did not fit
    kept,      \* the ids kept, newest first
    tokens,    \* the running estimate
    dead,      \* tokenDead
    outcome,   \* what the user was told: a set of "file", "text", or nothing
    losses, changes

reading == <<last, before, attempt, page, full, kept, tokens>>
exportVars == <<history, deleted, budget, stage, reading, dead, outcome, losses, changes>>

ExportInit ==
    /\ history \in Histories /\ deleted = {}
    /\ budget \in Limits /\ stage = "validate"
    /\ last = 0 /\ before = 0 /\ attempt = 0 /\ page = {} /\ full = FALSE
    /\ kept = <<>> /\ tokens = Header
    /\ dead = FALSE /\ outcome = {} /\ losses = 0 /\ changes = 0

GoOn(label) == stage' = label
Loses == losses < MaxLosses /\ losses' = losses + 1
LosesNone == UNCHANGED losses

\* Others use the channel.
Change ==
    /\ stage # "done" /\ changes < MaxChanges /\ changes' = changes + 1
    /\ \/ \E t \in {0, 1} : history' = Append(history, t) /\ UNCHANGED deleted
       \/ \E id \in DOMAIN history \ deleted :
             deleted' = deleted \cup {id} /\ UNCHANGED history
    /\ UNCHANGED <<budget, stage, reading, dead, outcome, losses>>

\* handleExportChannelCommand, validateExportChannel: the owner only, and a
\* channel that can be loaded and has a history.
Validate ==
    /\ stage = "validate"
    /\ \/ GoOn("page") /\ LosesNone
       \/ GoOn("text") /\ Loses
    /\ UNCHANGED <<history, deleted, budget, reading, dead, outcome, changes>>

-----------------------------------------------------------------------------
(* Reading the history.                                                     *)

\* loadExportChannelPageOnce: the newest messages before an id.
Newest ==
    LET ids == {id \in DOMAIN history \ deleted : before = 0 \/ id < before}
    IN  {id \in ids : Cardinality({j \in ids : j > id}) < PageSize}

\* fetchExportChannelMessages with a page that came.
ReadPage ==
    /\ stage = "page"
    /\ last' = IF before = 0 THEN Len(history) ELSE last
    /\ page' = Newest
    /\ \/ Newest = {} /\ GoOn("render") /\ UNCHANGED before
       \/ /\ before' \in Newest /\ \A id \in Newest : before' <= id
          /\ GoOn("append")
    /\ attempt' = 0 /\ LosesNone
    /\ UNCHANGED <<history, deleted, budget, full, kept, tokens, dead, outcome, changes>>

\* Mutant: a message that does not fit is left out, and reading goes on.
AppendEntry_Skipping ==
    /\ stage = "append"
    /\ \E id \in page :
          LET isUsers == history[id] > 0
              fits == tokens + history[id] <= budget
          IN  /\ \A j \in page : j <= id
              /\ page' = page \ {id} /\ UNCHANGED full
              /\ kept' = IF isUsers /\ fits THEN Append(kept, id) ELSE kept
              /\ tokens' = IF isUsers /\ fits THEN tokens + history[id] ELSE tokens
    /\ UNCHANGED <<history, deleted, budget, stage, last, before, attempt, dead, outcome,
                   losses, changes>>

\* appendExportChannelPage: the newest message of the page, unless it is a bot's
\* or a webhook's (exportChannelEntry), until one does not fit.
AppendEntry ==
    /\ stage = "append"
    /\ \E id \in page :
          LET isUsers == history[id] > 0
              fits == tokens + history[id] <= budget
          IN  /\ \A j \in page : j <= id
              /\ page' = IF isUsers /\ ~fits THEN {} ELSE page \ {id}
              /\ full' = (isUsers /\ ~fits)
              /\ kept' = IF isUsers /\ fits THEN Append(kept, id) ELSE kept
              /\ tokens' = IF isUsers /\ fits THEN tokens + history[id] ELSE tokens
    /\ UNCHANGED <<history, deleted, budget, stage, last, before, attempt, dead, outcome,
                   losses, changes>>

\* onPage: progress is edited now and then; only the expired token is noted.
Progress ==
    /\ stage = "append" /\ page = {} /\ GoOn(IF full THEN "render" ELSE "page")
    /\ \/ UNCHANGED dead /\ LosesNone
       \/ ~dead /\ Loses /\ (dead' = TRUE \/ UNCHANGED dead)
    /\ UNCHANGED <<history, deleted, budget, reading, outcome, changes>>

\* loadExportChannelPage: a transient failure is tried again; any other, and
\* the last attempt's, ends the reading with what there is.
PageFails ==
    /\ stage = "page" /\ Loses
    /\ last' = IF before = 0 THEN Len(history) ELSE last
    /\ \/ attempt + 1 < Attempts /\ attempt' = attempt + 1 /\ UNCHANGED stage
       \/ attempt' = 0 /\ GoOn(IF kept = <<>> THEN "text" ELSE "render")
    /\ UNCHANGED <<history, deleted, budget, before, page, full, kept, tokens, dead, outcome,
                   changes>>

\* isExportChannelStalled, between two pages.
Stall ==
    /\ stage = "page" /\ before # 0 /\ GoOn("render")
    /\ UNCHANGED <<history, deleted, budget, reading, dead, outcome, losses, changes>>

-----------------------------------------------------------------------------
(* The answer.                                                              *)

\* marshalExportChannelPayload: the file's own size, which may be a token more
\* than the estimate.
Size(ids, slack) ==
    Header + slack + FoldFunction(LAMBDA t, sum : sum + t, 0, [i \in DOMAIN ids |-> history[ids[i]]])

\* trimExportChannelPayload: the oldest go until the file fits, all but n.
TrimmedTo(n, slack) ==
    LET fits(k) == Size(SubSeq(kept, 1, k), slack) <= budget
    IN  (n = 0 \/ fits(n)) /\ \A k \in n + 1 .. Len(kept) : ~fits(k)

\* The rest of runExportChannel.
Render ==
    /\ stage = "render"
    /\ \E slack \in {0, 1}, n \in 0 .. Len(kept) :
          /\ TrimmedTo(n, slack)
          /\ kept' = SubSeq(kept, 1, n) /\ tokens' = Size(kept', slack)
          /\ GoOn(IF n = 0 THEN "text" ELSE "file")
    /\ UNCHANGED <<history, deleted, budget, last, before, attempt, page, full, dead, outcome,
                   losses, changes>>

Delivered(what) == outcome' = outcome \cup {what} /\ GoOn("done")

\* sendExportChannelFile, finishExportChannelReply: the interaction's response
\* is edited; if it has expired the channel gets a message, and a file that is
\* refused otherwise is given up for a text.
EditAnswer ==
    /\ stage \in {"file", "text"} /\ ~dead
    /\ \/ Delivered(stage) /\ UNCHANGED dead /\ LosesNone
       \/ Loses /\ dead' = TRUE /\ UNCHANGED <<stage, outcome>>
       \/ /\ Loses /\ UNCHANGED <<dead, outcome>>
          /\ GoOn(IF stage = "file" THEN "text" ELSE "done")
    /\ UNCHANGED <<history, deleted, budget, reading, changes>>

\* sendExportChannelMessage.
SendAnswer ==
    /\ stage \in {"file", "text"} /\ dead
    /\ \/ Delivered(stage) /\ LosesNone
       \/ Loses /\ GoOn("done") /\ UNCHANGED outcome
    /\ UNCHANGED <<history, deleted, budget, reading, dead, changes>>

ExportNext ==
    \/ Change \/ Validate \/ ReadPage \/ AppendEntry \/ Progress \/ PageFails \/ Stall
    \/ Render \/ EditAnswer \/ SendAnswer

ExportSpec == ExportInit /\ [][ExportNext]_exportVars

-----------------------------------------------------------------------------
\* The type invariant.
ExportTypes ==
    /\ deleted \subseteq DOMAIN history /\ Range(kept) \cup page \subseteq DOMAIN history
    /\ attempt \in 0 .. Attempts - 1 /\ outcome \subseteq {"file", "text"}
    /\ losses \in 0 .. MaxLosses /\ changes \in 0 .. MaxChanges

\* An exported file is the newest of the history, whatever is posted and
\* deleted meanwhile: users' messages only, none twice, newest first, none
\* that was there from the start missing between the newest and the oldest of
\* them, and the file is within the limit.
NewestExported ==
    "file" \in outcome =>
        /\ kept # <<>> /\ tokens <= budget
        /\ \A i, j \in DOMAIN kept : i < j => kept[i] > kept[j]
        /\ \A id \in 1 .. last :
              history[id] > 0 /\ id \notin deleted /\ id > kept[Len(kept)] => id \in Range(kept)
        /\ \A id \in Range(kept) : history[id] > 0

\* The user is told one outcome; one failing call, the expiry of the token
\* among them, never leaves a history that was read without any.
OutcomeDelivered ==
    /\ Cardinality(outcome) <= 1
    /\ stage = "done" /\ outcome = {} /\ kept # <<>> => losses >= 2

\* Who asks for an export gets one, of the newest messages and without a gap
\* (export_channel.go).
ExportIsNewest == ExportTypes /\ NewestExported /\ OutcomeDelivered
=============================================================================
