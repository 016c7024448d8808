----------------------------- MODULE ClaudeStream -----------------------------
(***************************************************************************)
(* One stream of the Messages API as providers/claude_stream.go reads it:  *)
(* blocks one after the other, each opened, extended by deltas and closed, *)
(* then the stop reason and the end of the message.  Proxies leave out the *)
(* opening of text and thinking blocks and the end of the message.         *)
(***************************************************************************)
EXTENDS Integers, Sequences, SequencesExt

CONSTANTS
    MaxBlocks,  \* bound: blocks of the message
    MaxDeltas   \* bound: deltas of a block

BoundsAssumption == MaxBlocks \in Nat \ {0} /\ MaxDeltas \in Nat

VARIABLES
    blocks,    \* the server: its blocks, [kind, deltas]
    block,     \* the server: the kind of the open block, or "none"
    ids,       \* per kind: textIDs, thinkingIDs, toolOrder, as block numbers
    buffers,   \* per kind: textBuf, thinkingBuf, toolJSONBuf, along its ids
    handed,    \* per channel: the deltas handed over
    stop,      \* stopReason, or ""
    sawContent,
    finish,    \* the finish reason handed over, or ""
    reported,  \* the calls handed over, and what is replayed with them
    ended      \* "no", "complete", "closed" (without error), "error", "EOF"

vars == <<blocks, block, ids, buffers, handed, stop, sawContent, finish, reported, ended>>

Kinds == {"text", "thinking", "tool_use"}
NoReport == [calls |-> <<>>, text |-> <<>>, thinking |-> <<>>]
Deltas(kind) ==
    LET mine == SelectSeq(blocks, LAMBDA b : b.kind = kind)
    IN [k \in DOMAIN mine |-> [d \in 1 .. mine[k].deltas |-> <<mine[k].n, d>>]]

Init ==
    /\ blocks = <<>> /\ block = "none"
    /\ ids = [k \in Kinds |-> <<>>] /\ buffers = [k \in Kinds |-> <<>>]
    /\ handed = [k \in {"text", "thinking"} |-> <<>>]
    /\ stop = "" /\ sawContent = FALSE /\ finish = "" /\ reported = NoReport
    /\ ended = "no"

\* blockStart: trackText, trackThinking or a new call.  A proxy that leaves
\* the opening out (silent) has the reader track nothing yet.
BlockStart(kind, silent) ==
    /\ ended = "no" /\ stop = "" /\ block = "none" /\ Len(blocks) < MaxBlocks
    /\ silent => kind # "tool_use"
    /\ blocks' = Append(blocks, [kind |-> kind, n |-> Len(blocks) + 1, deltas |-> 0])
    /\ block' = kind
    /\ ids' = IF silent THEN ids ELSE [ids EXCEPT ![kind] = Append(@, Len(blocks'))]
    /\ buffers' = IF silent THEN buffers ELSE [buffers EXCEPT ![kind] = Append(@, <<>>)]
    /\ UNCHANGED <<handed, stop, sawContent, finish, reported, ended>>

\* latestTextKey, latestThinkingKey, latestToolCall: the block a delta is
\* added to is the last one tracked of its kind, whatever its index says.
Latest(kind) == Len(ids[kind])

\* blockDelta: text and thinking are handed over, arguments are kept.
BlockDelta ==
    /\ ended = "no" /\ block # "none" /\ Last(blocks).deltas < MaxDeltas
    /\ LET n == Len(blocks)
           d == <<n, blocks[n].deltas + 1>>
       IN /\ blocks' = [blocks EXCEPT ![n].deltas = @ + 1]
          /\ IF ids[block] = <<>>
               THEN /\ ids' = [ids EXCEPT ![block] = <<n>>]
                    /\ buffers' = [buffers EXCEPT ![block] = <<<<d>>>>]
               ELSE /\ buffers' = [buffers EXCEPT ![block][Latest(block)] = Append(@, d)]
                    /\ UNCHANGED ids
          /\ handed' = IF block = "tool_use" THEN handed
                       ELSE [handed EXCEPT ![block] = Append(@, d)]
    /\ sawContent' = (sawContent \/ block # "tool_use")
    /\ UNCHANGED <<block, stop, finish, reported, ended>>

BlockStop ==
    /\ ended = "no" /\ block # "none"
    /\ block' = "none"
    /\ UNCHANGED <<blocks, ids, buffers, handed, stop, sawContent, finish, reported, ended>>

\* messageDelta: the stop reason, once every block is closed.
MessageDelta(reason) ==
    /\ ended = "no" /\ block = "none" /\ stop = ""
    /\ stop' = reason
    /\ UNCHANGED <<blocks, block, ids, buffers, handed, sawContent, finish, reported, ended>>

\* messageStop: the finish reason, and the calls with the text and thinking
\* to replay.  claudeFinishReasonError: a refusal is an error even so.
Stopped ==
    /\ finish' = IF stop # "" THEN stop
                 ELSE IF ids["tool_use"] # <<>> THEN "tool_use" ELSE "stop"
    /\ reported' = IF ids["tool_use"] = <<>> THEN NoReport
         ELSE [calls |-> buffers["tool_use"],
               text |-> FlattenSeq(buffers["text"]),
               thinking |-> FlattenSeq(buffers["thinking"])]
    /\ ended' = IF stop = "refusal" THEN "error" ELSE "complete"

\* message_stop; or the stream closes and finish completes it: a message
\* with a stop reason is whole, one with content ends without a reason, and
\* one with neither never came.
MessageStop ==
    /\ ended = "no" /\ block = "none"
    /\ Stopped
    /\ UNCHANGED <<blocks, block, ids, buffers, handed, stop, sawContent>>

Close ==
    /\ ended = "no"
    /\ IF stop # "" THEN Stopped
       ELSE /\ ended' = IF sawContent THEN "closed" ELSE "EOF"
            /\ UNCHANGED <<finish, reported>>
    /\ UNCHANGED <<blocks, block, ids, buffers, handed, stop, sawContent>>

\* claudeStreamError: the connection or the server fails.
Fail ==
    /\ ended = "no"
    /\ ended' = "error"
    /\ UNCHANGED <<blocks, block, ids, buffers, handed, stop, sawContent, finish, reported>>

Next ==
    \/ \E k \in Kinds, silent \in BOOLEAN : BlockStart(k, silent)
    \/ BlockDelta \/ BlockStop
    \/ \E r \in {"stop", "tool_use", "refusal"} : MessageDelta(r)
    \/ MessageStop \/ Close \/ Fail

Spec == Init /\ [][Next]_vars

-----------------------------------------------------------------------------
(* Properties.                                                             *)

TypeOK ==
    /\ block \in Kinds \cup {"none"} /\ Len(blocks) <= MaxBlocks
    /\ \A k \in Kinds : Len(ids[k]) = Len(buffers[k])
    /\ sawContent \in BOOLEAN
    /\ ended \in {"no", "complete", "closed", "error", "EOF"}

\* The calls reported are the tool_use blocks, each with its own arguments,
\* and the text and thinking that the follow-up replays before them are those
\* handed over, also when blocks were not announced (claude_stream.go:325).
BlocksKept == reported # NoReport =>
    /\ reported.calls = Deltas("tool_use")
    /\ reported.text = handed["text"] /\ reported.thinking = handed["thinking"]

\* A stream cut inside its message never passes for a finished one: no finish
\* reason, and no calls, of a message that still had a block open.
CutIsUnfinished == block # "none" => finish = "" /\ reported = NoReport
=============================================================================
