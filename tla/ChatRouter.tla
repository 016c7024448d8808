------------------------------ MODULE ChatRouter ------------------------------
(***************************************************************************)
(* One completion asked of a provider (providers/chat_client.go): the API  *)
(* keys taken in turn, the failures that are tried again with another key, *)
(* the request repeated with smaller images after a 413, and, around it,   *)
(* the rounds of generation that the bot repeats when a stream breaks off  *)
(* (response.go).  Several prompts share the rotation of the keys.         *)
(*                                                                         *)
(* A stream delivers deltas and then ends in one of Outcomes.  A request   *)
(* is identified by its attempt and by how often its images were shrunk.   *)
(***************************************************************************)
EXTENDS Integers, Sequences, FiniteSets, FiniteSetsExt

CONSTANTS
    Prompts,     \* the completions asked for
    NumKeys,     \* API keys of the provider
    Budget,      \* per outcome tried again after a delay: its *RetryMaxAttempts
    MaxRounds,   \* prematureStreamRetryMaxAttempts
    MaxShrinks   \* bound: how often the images of a request can shrink

ASSUME RouterAssumption ==
    /\ NumKeys \in Nat /\ MaxRounds \in Nat \ {0} /\ MaxShrinks \in Nat
    /\ Budget \in [{"clean", "broken", "queueFull"} -> Nat]

VARIABLES
    nextIndex,  \* nextIndexes of the rotator
    pc,         \* per prompt: where it is
    kind,       \* per prompt: the API of its provider
    shrinks,    \* per prompt: how often its images can still shrink
    first,      \* per prompt: the key that its rotation starts with
    round,      \* per prompt: the round of generation
    attempt,    \* per prompt: the attempt of the router
    shrunk,     \* per prompt: compressed repetitions of this attempt's request
    tried,      \* per prompt: keys that this call of the router used
    sent,       \* per prompt: contentSent
    shown,      \* per prompt: requests whose content the round has taken
    finish,     \* per prompt: requests whose finish reason the round has taken
    outcome     \* per prompt: how the last stream ended

progress == <<kind, shrinks, first, round, attempt, shrunk, tried>>
taken == <<sent, shown, finish>>
routerVars == <<nextIndex, pc, progress, taken, outcome>>

Keys == 0 .. (NumKeys - 1)
Kinds == {"openai", "claude"}
Ends == {"clean", "broken", "queueFull", "tooLarge", "refused"}
DeltaKinds == {"thinking", "content", "search", "toolCalls"}
Ask(p) == <<attempt[p], shrunk[p]>>

-----------------------------------------------------------------------------
(* Which request comes next.                                               *)

\* Rotate: the keys from the next one on, and the one after it next time.
Rotated == IF NumKeys <= 1 THEN nextIndex ELSE (nextIndex + 1) % NumKeys

\* setProviderKeysForAttempt: attempt n uses the n-th key of the rotation.
KeyOf(p) == (first[p] + attempt[p] - 1) % NumKeys

\* Mutant: failures that will not pass by themselves are not tried elsewhere.
Attempts_Once(o) == IF o \in DOMAIN Budget THEN Max({Budget[o], NumKeys}) ELSE 1

\* streamRetryAction: the attempts an outcome is worth; every key gets one.
Attempts(o) ==
    IF o \in DOMAIN Budget THEN Max({Budget[o], NumKeys}) ELSE Max({NumKeys, 1})

\* Mutant: reasoning is not content.
ReferencesContent_Quiet(d) == d \in {"content", "search", "toolCalls"}

\* deltaReferencesContent; a finish reason or a response id is none.
ReferencesContent(d) == d \in DeltaKinds

\* compressedRequestWithSmallerImages; the OpenAI clients do it once.
CanShrink(p) ==
    /\ shrinks[p] > 0
    /\ kind[p] = "claude" \/ shrunk[p] = 0

\* streamChatCompletion sends a request rejected with 413 again, smaller.
Compresses(p, o) == o = "tooLarge" /\ ~sent[p] /\ CanShrink(p)

-----------------------------------------------------------------------------
RouterInit ==
    /\ nextIndex \in Keys \cup {0}   \* earlier prompts rotated the keys
    /\ pc = [p \in Prompts |-> "round"]
    /\ kind \in [Prompts -> Kinds]
    /\ shrinks \in [Prompts -> 0 .. MaxShrinks]
    /\ first = [p \in Prompts |-> 0]
    /\ round = [p \in Prompts |-> 1]
    /\ attempt = [p \in Prompts |-> 1]
    /\ shrunk = [p \in Prompts |-> 0]
    /\ tried = [p \in Prompts |-> {}]
    /\ sent = [p \in Prompts |-> FALSE]
    /\ shown = [p \in Prompts |-> {}]
    /\ finish = [p \in Prompts |-> {}]
    /\ outcome = [p \in Prompts |-> "none"]

\* runGenerationRound: fresh accumulators, and the router rotates the keys.
StartRound(p) ==
    /\ pc[p] = "round"
    /\ nextIndex' = Rotated
    /\ first' = [first EXCEPT ![p] = nextIndex]
    /\ attempt' = [attempt EXCEPT ![p] = 1]
    /\ shrunk' = [shrunk EXCEPT ![p] = 0]
    /\ tried' = [tried EXCEPT ![p] = {}]
    /\ sent' = [sent EXCEPT ![p] = FALSE]
    /\ shown' = [shown EXCEPT ![p] = {}]
    /\ finish' = [finish EXCEPT ![p] = {}]
    /\ pc' = [pc EXCEPT ![p] = "send"]
    /\ UNCHANGED <<kind, shrinks, round, outcome>>

\* The request goes out with the first of its keys, if there is one.
Send(p) ==
    /\ pc[p] = "send"
    /\ tried' = [tried EXCEPT ![p] = @ \cup (IF NumKeys = 0 THEN {} ELSE {KeyOf(p)})]
    /\ pc' = [pc EXCEPT ![p] = "stream"]
    /\ UNCHANGED <<nextIndex, kind, shrinks, first, round, attempt, shrunk, taken, outcome>>

\* A delta reaches the round; HandleFails is its consumer failing on it.
Deliver(p, d) ==
    /\ pc[p] = "stream"
    /\ sent' = [sent EXCEPT ![p] = @ \/ ReferencesContent(d)]
    /\ shown' = [shown EXCEPT ![p] = @ \cup {Ask(p)}]
    /\ \/ UNCHANGED <<pc, outcome>>
       \/ /\ outcome' = [outcome EXCEPT ![p] = "unhandled"]
          /\ pc' = [pc EXCEPT ![p] = "returned"]
    /\ UNCHANGED <<nextIndex, progress, finish>>

\* The finish reason, which the round keeps until another one replaces it.
DeliverFinish(p) ==
    /\ pc[p] = "stream"
    /\ finish' = [finish EXCEPT ![p] = @ \cup {Ask(p)}]
    /\ UNCHANGED <<nextIndex, pc, progress, sent, shown, outcome>>

\* The stream ends and the router decides: the smaller request, the answer,
\* the next attempt at once, the next attempt after a delay, or the error.
End(p) == \E o \in Ends :
    /\ pc[p] = "stream"
    /\ o = "queueFull" => Ask(p) \notin shown[p]
    /\ outcome' = [outcome EXCEPT ![p] = o]
    /\ \/ /\ Compresses(p, o)
          /\ shrunk' = [shrunk EXCEPT ![p] = @ + 1]
          /\ shrinks' = [shrinks EXCEPT ![p] = @ - 1]
          /\ pc' = [pc EXCEPT ![p] = "send"]
          /\ UNCHANGED attempt
       \/ /\ ~Compresses(p, o) /\ ~sent[p] /\ attempt[p] < Attempts(o)
          /\ attempt' = [attempt EXCEPT ![p] = @ + 1]
          /\ shrunk' = [shrunk EXCEPT ![p] = 0]
          /\ shrinks' = [shrinks EXCEPT ![p] = @ + shrunk[p]]
          /\ pc' = [pc EXCEPT ![p] = IF o \in DOMAIN Budget THEN "sleep" ELSE "send"]
       \/ /\ ~Compresses(p, o) /\ (sent[p] \/ attempt[p] >= Attempts(o))
          /\ pc' = [pc EXCEPT ![p] = "returned"]
          /\ UNCHANGED <<attempt, shrunk, shrinks>>
    /\ UNCHANGED <<nextIndex, kind, first, round, tried, taken>>

\* sleepStreamRetryDelay, sleepPrematureStreamRetry: the delay passes.
Wake(p) ==
    /\ pc[p] \in {"sleep", "pause"}
    /\ pc' = [pc EXCEPT ![p] = IF @ = "sleep" THEN "send" ELSE "round"]
    /\ UNCHANGED <<nextIndex, progress, taken, outcome>>

\* The reply is cancelled while it waits, or at a stream's end.
Cancel(p) ==
    /\ pc[p] \in {"sleep", "pause", "stream"}
    /\ outcome' = [outcome EXCEPT ![p] = "cancelled"]
    /\ pc' = [pc EXCEPT ![p] = "done"]
    /\ UNCHANGED <<nextIndex, progress, taken>>

\* shouldRetryGenerationRound: a broken stream, or one that ended well
\* although the round has no finish reason.
Repeats(p) ==
    \/ outcome[p] = "broken"
    \/ outcome[p] = "clean" /\ shown[p] # {} /\ finish[p] = {}

\* runGenerationRoundWithStreamRetry.
Return(p) ==
    /\ pc[p] = "returned"
    /\ IF Repeats(p) /\ round[p] < MaxRounds
         THEN /\ round' = [round EXCEPT ![p] = @ + 1]
              /\ pc' = [pc EXCEPT ![p] = "pause"]
         ELSE /\ pc' = [pc EXCEPT ![p] = "done"]
              /\ UNCHANGED round
    /\ UNCHANGED <<nextIndex, kind, shrinks, first, attempt, shrunk, tried, taken, outcome>>

RouterNext == \E p \in Prompts :
    \/ StartRound(p) \/ Send(p) \/ \E d \in DeltaKinds : Deliver(p, d)
    \/ DeliverFinish(p) \/ End(p) \/ Wake(p) \/ Cancel(p) \/ Return(p)

RouterSpec == RouterInit /\ [][RouterNext]_routerVars

-----------------------------------------------------------------------------
(* Properties.                                                             *)

Places == {"round", "send", "stream", "sleep", "pause", "returned", "done"}
Requests == (1 .. Max({Attempts(o) : o \in Ends})) \X (0 .. MaxShrinks)

RouterTypes ==
    /\ nextIndex \in Keys \cup {0}
    /\ pc \in [Prompts -> Places] /\ kind \in [Prompts -> Kinds]
    /\ first \in [Prompts -> Keys \cup {0}] /\ tried \in [Prompts -> SUBSET Keys]
    /\ round \in [Prompts -> 1 .. MaxRounds]
    /\ \A p \in Prompts : Ask(p) \in Requests /\ shrunk[p] + shrinks[p] \in 0 .. MaxShrinks
    /\ shrinks \in [Prompts -> 0 .. MaxShrinks]
    /\ attempt \in [Prompts -> Nat] /\ shrunk \in [Prompts -> Nat]
    /\ sent \in [Prompts -> BOOLEAN]
    /\ shown \in [Prompts -> SUBSET Requests] /\ finish \in [Prompts -> SUBSET Requests]
    /\ outcome \in [Prompts -> Ends \cup {"none", "cancelled", "unhandled"}]

\* What a user reads in one round comes from one stream: whatever fails and
\* is tried again, with another key or smaller images, no text is repeated
\* after a part of it was shown (chat_client.go, StreamChatCompletion).
OneStreamShown == \A p \in Prompts : Cardinality(shown[p]) <= 1

\* A provider that showed nothing fails a prompt only after every one of its
\* keys was used, whichever the rotation started with and whatever mix of
\* failures the attempts ended in (chat_client.go:49).
AllKeysTried == \A p \in Prompts :
    pc[p] = "returned" /\ shown[p] = {} => tried[p] = Keys

\* "A clean close without a finish reason is always retried" (response.go):
\* an answer accepted before the last round ended with a finish reason of
\* its own stream.
CleanCloseRetried == \A p \in Prompts :
    pc[p] = "done" /\ outcome[p] = "clean" /\ round[p] < MaxRounds
        => shown[p] \subseteq finish[p]
=============================================================================
