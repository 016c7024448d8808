------------------------------ MODULE MessageGate ------------------------------
(***************************************************************************)
(* What happens to a message before it is answered                         *)
(* (internal/app/messages.go, maintenance.go, xfixup.go, tiktokfixup.go,   *)
(* instagramfixup.go, permissions.go, facebook.go, youtube_shorts.go,      *)
(* jev.go), in a channel that /maintenance locks and unlocks meanwhile:    *)
(* the message may be deleted, refused, sent again with its links fixed,   *)
(* answered with the videos it links to, or routed to a model.             *)
(***************************************************************************)
EXTENDS Integers, Sequences, FiniteSets

CONSTANTS
    Messages,   \* the messages that may be posted
    Posts,      \* what they may be: [author, links, mentions, nsfw]
    Commands,   \* the /maintenance commands that may be given, one at a time
    Allowed,    \* the authors that the permissions of config.yaml accept
    Locked,     \* the model that channel_model_locks has for the channel, or "none"
    Tiers,      \* smart_routing: the tiers in jevTierOrder, each with its model
    Gemini,     \* the models of the native Gemini API
    RoutingKeys,\* smart_routing's API keys; 1 if it has none: Jev is asked without
    Default,    \* the selected model
    MaxFaults   \* bound: Discord calls and requests that fail

ASSUME GateAssumption ==
    /\ RoutingKeys \in Nat \ {0} /\ MaxFaults \in Nat
    /\ \A k \in DOMAIN Tiers : Tiers[k] # "none"

VARIABLES
    overwrites, \* Discord: whose permission overwrites the channel has
    flag,       \* maintenanceChannels has the channel
    command,    \* per command: [pc, sub, failed], failed: the calls that failed
    lastAnswer, \* the last command that was answered, or Nobody
    post,       \* per message: what it is, or NoPost
    place,      \* per message: where its handler is
    stands,     \* Discord: the message is in the channel as it was posted
    copies,     \* Discord: the bot's messages with its content or videos
    answered,   \* the model that answers it, or "none"
    failed,     \* per message: calls that failed for it
    asked,      \* per message: keys that Jev was asked with
    faults

channel == <<overwrites, flag, command, lastAnswer>>
handler == <<post, place, stands, copies, answered, failed, asked>>
gateVars == <<channel, handler, faults>>

NoPost == [author |-> "nobody"]
Nobody == [sub |-> "none", failed |-> {}]
Whose == {"everyone", "owner", "bot"}
Order == <<"everyone", "owner", "bot">>

GateInit ==
    /\ overwrites = {} /\ flag = FALSE /\ lastAnswer = Nobody
    /\ command = [c \in Commands |-> [pc |-> "idle", sub |-> "none", failed |-> {}]]
    /\ post = [m \in Messages |-> NoPost] /\ place = [m \in Messages |-> "unposted"]
    /\ stands = [m \in Messages |-> FALSE] /\ copies = [m \in Messages |-> 0]
    /\ answered = [m \in Messages |-> "none"]
    /\ failed = [m \in Messages |-> 0] /\ asked = [m \in Messages |-> 0]
    /\ faults = 0

-----------------------------------------------------------------------------
(* /maintenance.  Its owner gives one command and waits for the answer.     *)

Ongoing(c) == command[c].pc \notin {"idle", "done"}
Next1(who) == CASE who = "everyone" -> "owner" [] who = "owner" -> "bot" [] who = "bot" -> "flag"
Error == faults < MaxFaults /\ faults' = faults + 1
Answer(c) ==
    /\ command' = [command EXCEPT ![c].pc = "done"]
    /\ lastAnswer' = [sub |-> command[c].sub, failed |-> command[c].failed]

\* handleMaintenanceCommand: a start on a channel that is in maintenance is
\* answered at once; a stop goes on whatever the flag says.
Begin(c) ==
    /\ command[c].pc = "idle" /\ \A d \in Commands : ~Ongoing(d)
    /\ \E sub \in {"start", "stop"} :
          command' = [command EXCEPT ![c] =
              [pc |-> IF sub = "start" /\ flag THEN "done" ELSE "everyone",
               sub |-> sub, failed |-> {}]]
    /\ lastAnswer' = IF command'[c].pc = "done" THEN [sub |-> "start", failed |-> {}] ELSE lastAnswer
    /\ UNCHANGED <<overwrites, flag, handler, faults>>

\* applyMaintenancePermissions: the first call that fails ends it.
Apply(c) ==
    LET who == command[c].pc
    IN  /\ command[c].sub = "start" /\ who \in Whose
        /\ \/ /\ overwrites' = overwrites \cup {who}
              /\ command' = [command EXCEPT ![c].pc = Next1(who)]
              /\ UNCHANGED <<lastAnswer, faults>>
           \/ /\ Error
              /\ command' = [command EXCEPT ![c].pc = "done"]
              /\ lastAnswer' = [sub |-> "start", failed |-> {who}]
              /\ UNCHANGED overwrites
    /\ UNCHANGED <<flag, handler>>

\* handleMaintenanceStart: the flag comes last.
SetFlag(c) ==
    /\ command[c].sub = "start" /\ command[c].pc = "flag"
    /\ flag' = TRUE /\ Answer(c)
    /\ UNCHANGED <<overwrites, handler, faults>>

\* Mutant: a stop on a channel that is not in maintenance changes nothing.
Remove_Flagged(c) ==
    LET who == command[c].pc
    IN  /\ command[c].sub = "stop" /\ who \in Whose
        /\ \/ /\ overwrites' = IF flag THEN overwrites \ {who} ELSE overwrites
              /\ command' = [command EXCEPT ![c].pc = Next1(who)]
              /\ UNCHANGED faults
           \/ /\ Error
              /\ command' = [command EXCEPT ![c] =
                     [pc |-> Next1(who), sub |-> "stop", failed |-> @.failed \cup {who}]]
              /\ UNCHANGED overwrites
    /\ UNCHANGED <<flag, lastAnswer, handler>>

\* removeMaintenancePermissions: all three are tried.
Remove(c) ==
    LET who == command[c].pc
    IN  /\ command[c].sub = "stop" /\ who \in Whose
        /\ \/ /\ overwrites' = overwrites \ {who}
              /\ command' = [command EXCEPT ![c].pc = Next1(who)]
              /\ UNCHANGED faults
           \/ /\ Error
              /\ command' = [command EXCEPT ![c] =
                     [pc |-> Next1(who), sub |-> "stop", failed |-> @.failed \cup {who}]]
              /\ UNCHANGED overwrites
    /\ UNCHANGED <<flag, lastAnswer, handler>>

\* handleMaintenanceStop: a channel is out of maintenance if all went well or
\* only the overwrite of @everyone could not be deleted.
ClearFlag(c) ==
    /\ command[c].sub = "stop" /\ command[c].pc = "flag"
    /\ flag' = IF command[c].failed \in {{}, {"everyone"}} THEN FALSE ELSE flag
    /\ Answer(c)
    /\ UNCHANGED <<overwrites, handler, faults>>

-----------------------------------------------------------------------------
(* A message.                                                               *)

Goto(m, label) == place' = [place EXCEPT ![m] = label]
Fails(m) == Error /\ failed' = [failed EXCEPT ![m] = @ + 1]
Works == UNCHANGED <<failed, faults>>
Says(m, what) == what \in post[m].links

\* Discord refuses the messages of those whom an overwrite denies them; an
\* administrator's it never refuses.
Post(m) ==
    /\ place[m] = "unposted" /\ \E p \in Posts :
          /\ p.author \in {"owner", "admin"} \/ "everyone" \notin overwrites
          /\ post' = [post EXCEPT ![m] = p]
    /\ stands' = [stands EXCEPT ![m] = TRUE] /\ Goto(m, "enforce")
    /\ UNCHANGED <<channel, copies, answered, asked>> /\ Works

\* enforceMaintenanceMode: the message is deleted if it can be, and ends here.
EnforceMaintenance(m) ==
    /\ place[m] = "enforce"
    /\ IF ~flag \/ post[m].author = "owner"
       THEN Goto(m, "access") /\ UNCHANGED stands /\ Works
       ELSE /\ Goto(m, "blocked")
            /\ \/ stands' = [stands EXCEPT ![m] = FALSE] /\ Works
               \/ Fails(m) /\ UNCHANGED stands
    /\ UNCHANGED <<channel, post, copies, answered, asked>>

\* messageAllowed.
Access(m) ==
    /\ place[m] = "access"
    /\ Goto(m, IF post[m].author \in Allowed THEN "fixups" ELSE "done")
    /\ UNCHANGED <<channel, post, stands, copies, answered, asked>> /\ Works

\* handleLinkFixups: x.com, tiktok.com and instagram.com, unless the bot is
\* addressed.
FixesLinks(m) == Says(m, "x") /\ ~post[m].mentions
LinkFixups(m) ==
    /\ place[m] = "fixups"
    /\ Goto(m, IF FixesLinks(m) THEN "delete" ELSE "shortcuts")
    /\ UNCHANGED <<channel, post, stands, copies, answered, asked>> /\ Works

\* resendFixedMessage: the original is deleted, and the text sent again, once
\* more without its mentions if Discord refuses it.
DeleteOriginal(m) ==
    /\ place[m] = "delete" /\ Goto(m, "resend")
    /\ \/ stands' = [stands EXCEPT ![m] = FALSE] /\ Works
       \/ Fails(m) /\ UNCHANGED stands
    /\ UNCHANGED <<channel, post, copies, answered, asked>>

Resend(m) ==
    /\ place[m] \in {"resend", "resend plainly"}
    /\ \/ Goto(m, "done") /\ copies' = [copies EXCEPT ![m] = @ + 1] /\ Works
       \/ /\ Goto(m, IF place[m] = "resend" THEN "resend plainly" ELSE "done")
          /\ Fails(m) /\ UNCHANGED copies
    /\ UNCHANGED <<channel, post, stands, answered, asked>>

\* handleMessageShortCircuits: videos are posted unasked; anything else that
\* does not address the bot is ignored.
ShortCircuits(m) ==
    /\ place[m] = "shortcuts"
    /\ Goto(m, CASE post[m].mentions     -> "route"
                 [] ~post[m].mentions /\ Says(m, "facebook") -> "facebook"
                 [] ~post[m].mentions /\ ~Says(m, "facebook") /\ Says(m, "shorts") -> "shorts"
                 [] OTHER -> "done")
    /\ UNCHANGED <<channel, post, stands, copies, answered, asked>> /\ Works

\* replyWithFacebookVideos, replyWithYouTubeShorts: nothing is posted if no
\* video could be had; the message with the Short goes once it is.
ReplyWithVideos(m) ==
    /\ place[m] \in {"facebook", "shorts"}
    /\ \/ /\ copies' = [copies EXCEPT ![m] = @ + 1] /\ Works
          /\ Goto(m, IF place[m] = "shorts" THEN "delete short" ELSE "done")
       \/ Fails(m) /\ UNCHANGED copies /\ Goto(m, "done")
    /\ UNCHANGED <<channel, post, stands, answered, asked>>
DeleteShort(m) ==
    /\ place[m] = "delete short" /\ Goto(m, "done")
    /\ \/ stands' = [stands EXCEPT ![m] = FALSE] /\ Works
       \/ Fails(m) /\ UNCHANGED stands
    /\ UNCHANGED <<channel, post, copies, answered, asked>>

\* resolveSmartRoutingModel: the model of the tier that Jev chose, and for what
\* is not safe for Gemini the first tier's that is not Gemini's.
Reroutes == {k \in DOMAIN Tiers : Tiers[k] \notin Gemini}
Routed(tier, nsfw) ==
    CASE tier \notin DOMAIN Tiers -> Default
      [] tier \in DOMAIN Tiers /\ ~(nsfw /\ Tiers[tier] \in Gemini) -> Tiers[tier]
      [] OTHER -> IF Reroutes = {} THEN Default
                  ELSE Tiers[CHOOSE k \in Reroutes : \A j \in Reroutes : k <= j]

\* modelForIncomingMessage and routeTier: a lock of the channel comes first;
\* Jev is asked with one key after the other, and if it does not answer the
\* selected model is taken.
Route(m) ==
    /\ place[m] = "route"
    /\ \/ /\ Locked # "none" /\ answered' = [answered EXCEPT ![m] = Locked]
          /\ Goto(m, "done") /\ UNCHANGED asked /\ Works
       \/ /\ Locked = "none" /\ DOMAIN Tiers = {}
          /\ answered' = [answered EXCEPT ![m] = Default]
          /\ Goto(m, "done") /\ UNCHANGED asked /\ Works
       \/ /\ Locked = "none" /\ DOMAIN Tiers # {}
          /\ asked' = [asked EXCEPT ![m] = @ + 1]
          /\ \/ /\ \E tier \in DOMAIN Tiers \cup {0} :
                      answered' = [answered EXCEPT ![m] = Routed(tier, post[m].nsfw)]
                /\ Goto(m, "done") /\ Works
             \/ /\ asked[m] + 1 < RoutingKeys /\ Fails(m)
                /\ UNCHANGED <<place, answered>>
             \/ /\ asked[m] + 1 = RoutingKeys /\ Fails(m)
                /\ answered' = [answered EXCEPT ![m] = Default] /\ Goto(m, "done")
    /\ UNCHANGED <<channel, post, stands, copies>>

GateNext ==
    \/ \E c \in Commands :
          Begin(c) \/ Apply(c) \/ SetFlag(c) \/ Remove(c) \/ ClearFlag(c)
    \/ \E m \in Messages :
          \/ Post(m) \/ EnforceMaintenance(m) \/ Access(m) \/ LinkFixups(m)
          \/ DeleteOriginal(m) \/ Resend(m) \/ ShortCircuits(m)
          \/ ReplyWithVideos(m) \/ DeleteShort(m) \/ Route(m)

GateSpec == GateInit /\ [][GateNext]_gateVars

-----------------------------------------------------------------------------
\* The type invariant.
GateTypes ==
    /\ overwrites \subseteq Whose /\ flag \in BOOLEAN
    /\ \A c \in Commands : command[c].failed \subseteq Whose
    /\ post \in [Messages -> Posts \cup {NoPost}]
    /\ copies \in [Messages -> 0 .. 1] /\ faults \in 0 .. MaxFaults
    /\ \A m \in Messages : asked[m] <= RoutingKeys /\ failed[m] <= faults

\* A failed start can be undone: after a /maintenance stop none of whose calls
\* failed the channel is open and not in maintenance, whatever came before
\* (handleMaintenanceStop removes the overwrites even without the flag).
StopUnlocks ==
    lastAnswer.sub = "stop" /\ lastAnswer.failed = {} /\ (\A c \in Commands : ~Ongoing(c)) =>
        overwrites = {} /\ ~flag

\* No single failing call loses what a user wrote: at the end its message is
\* in the channel, or the bot's copy is, unless maintenance mode deleted it;
\* and if the bot answers it, the message it answers is still there, and it is
\* not also sent again.
NothingLost ==
    \A m \in Messages :
        /\ place[m] = "done" /\ ~stands[m] /\ copies[m] = 0 => failed[m] >= 2
        /\ answered[m] # "none" => stands[m] /\ copies[m] = 0

\* Both, with the types: a channel that a failing /maintenance start left locked
\* can be unlocked, and what is posted is not lost to one failing call
\* (maintenance.go, xfixup.go, video_url.go).
GateLosesNothing == GateTypes /\ StopUnlocks /\ NothingLost

\* README.md:136: /maintenance stop unlocks the channel.
StopReopens ==
    lastAnswer.sub = "stop" /\ (\A c \in Commands : ~Ongoing(c)) /\ ~flag => "everyone" \notin overwrites
=============================================================================
