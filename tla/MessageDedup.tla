---------------------------- MODULE MessageDedup ----------------------------
(***************************************************************************)
(* markMessageSeen (internal/app/message_dedup.go): the gateway delivers   *)
(* an event to several instances, or twice to one; each delivery runs in   *)
(* a goroutine of its own, which claims the message in Redis (SET NX with  *)
(* a TTL, redis.go), and then in the map of its instance.  A Redis call    *)
(* that fails may have claimed the message all the same.                   *)
(*                                                                         *)
(* A goroutine goes from its claim in Redis to the map within one tick.    *)
(***************************************************************************)
EXTENDS Integers, FiniteSets

CONSTANTS
    Messages,   \* message ids
    Instances,  \* processes of the bot
    Clustered,  \* those that start with a Redis client
    Deliveries, \* bound: deliveries of all messages
    Window,     \* messageSeenWindow, in ticks
    MapLimit,   \* messageDedupMapSizeLimit
    MaxErrors   \* bound: Redis calls that fail

ASSUME InstancesAssumption == Clustered \subseteq Instances
ASSUME WindowAssumption == Window \in Nat \ {0} /\ MapLimit \in Nat /\ MaxErrors \in Nat

VARIABLES
    redis,      \* per message: ticks until its key expires, 0 without a key
    seen,       \* messageProcessedAt: per instance and message, the age or Absent
    pc, at, msg,    \* per delivery: where it is, its instance and its message
    handled,    \* per instance and message: ticks since it was handled last
    clients,    \* instances whose redisDedupClient is set
    errors,     \* Redis calls that failed ...
    doubted     \* ... and the messages they were about

vars == <<redis, seen, pc, at, msg, handled, clients, errors, doubted>>

Absent == -1

Init ==
    /\ redis = [m \in Messages |-> 0]
    /\ seen = [i \in Instances |-> [m \in Messages |-> Absent]]
    /\ pc = [d \in Deliveries |-> "idle"]
    /\ at \in [Deliveries -> Instances] /\ msg \in [Deliveries -> Messages]
    /\ handled = [i \in Instances |-> [m \in Messages |-> Window]]
    /\ clients = Clustered /\ errors = 0 /\ doubted = {}

Goto(d, label) == pc' = [pc EXCEPT ![d] = label]
KeepRedis == UNCHANGED <<redis, clients, errors, doubted>>
KeepMaps == UNCHANGED <<seen, handled, at, msg>>

Deliver(d) ==
    /\ pc[d] = "idle" /\ Goto(d, "reserve")
    /\ KeepRedis /\ KeepMaps

\* reserveMessageSeenCluster: without a client there is nothing to claim.
Skip(d) ==
    /\ pc[d] = "reserve" /\ at[d] \notin clients /\ Goto(d, "mark")
    /\ KeepRedis /\ KeepMaps

\* closeRedisClient clears the field without a lock: a handler that reads half
\* of it calls a method on nil, and recoverHandler ends it.
Close(i) ==
    /\ i \in clients /\ clients' = clients \ {i}
    /\ UNCHANGED <<redis, errors, doubted, pc>> /\ KeepMaps
TornRead(d) ==
    /\ pc[d] = "reserve" /\ at[d] \in Clustered \ clients /\ Goto(d, "panicked")
    /\ KeepRedis /\ KeepMaps

\* Mutant: a TTL that is too short.
SetNX_ShortTTL(d) ==
    /\ pc[d] = "reserve" /\ at[d] \in clients
    /\ IF redis[msg[d]] = 0
       THEN redis' = [redis EXCEPT ![msg[d]] = Window - 1] /\ Goto(d, "mark")
       ELSE UNCHANGED redis /\ Goto(d, "refused")
    /\ UNCHANGED <<clients, errors, doubted>> /\ KeepMaps

\* reserveMessageDedup: the first claim wins ...
SetNX(d) ==
    /\ pc[d] = "reserve" /\ at[d] \in clients
    /\ IF redis[msg[d]] = 0
       THEN redis' = [redis EXCEPT ![msg[d]] = Window] /\ Goto(d, "mark")
       ELSE UNCHANGED redis /\ Goto(d, "refused")
    /\ UNCHANGED <<clients, errors, doubted>> /\ KeepMaps

\* ... and an error, after which the key may be set, leaves it to the map.
SetNXFails_Refuses(d) ==
    /\ pc[d] = "reserve" /\ at[d] \in clients /\ errors < MaxErrors
    /\ errors' = errors + 1 /\ doubted' = doubted \cup {msg[d]}
    /\ UNCHANGED <<redis, clients>>
    /\ Goto(d, "refused") /\ KeepMaps
SetNXFails(d) ==
    /\ pc[d] = "reserve" /\ at[d] \in clients /\ errors < MaxErrors
    /\ errors' = errors + 1 /\ doubted' = doubted \cup {msg[d]}
    /\ \/ UNCHANGED redis
       \/ redis[msg[d]] = 0 /\ redis' = [redis EXCEPT ![msg[d]] = Window]
    /\ Goto(d, "mark") /\ UNCHANGED clients /\ KeepMaps

\* expireMessageSeen, once the map outgrows its limit.
Size(s) == Cardinality({m \in Messages : s[m] # Absent})
Expire_Fresh(s) ==
    [m \in Messages |-> IF Size(s) > MapLimit /\ s[m] > 0 THEN Absent ELSE s[m]]
Expire(s) ==
    [m \in Messages |-> IF Size(s) > MapLimit /\ s[m] = Window THEN Absent ELSE s[m]]

\* The rest of markMessageSeen, under messageDedupMu.
Mark(d) ==
    /\ pc[d] = "mark"
    /\ IF seen[at[d]][msg[d]] \in 0..(Window - 1)
       THEN Goto(d, "refused") /\ UNCHANGED <<seen, handled>>
       ELSE /\ Goto(d, "handled")
            /\ seen' = [seen EXCEPT ![at[d]] = Expire([@ EXCEPT ![msg[d]] = 0])]
            /\ handled' = [handled EXCEPT ![at[d]][msg[d]] = 0]
    /\ UNCHANGED <<at, msg>> /\ KeepRedis

Older(n) == IF n \in {Absent, Window} THEN n ELSE n + 1
Tick ==
    /\ \A d \in Deliveries : pc[d] # "mark"
    /\ redis' = [m \in Messages |-> IF redis[m] = 0 THEN 0 ELSE redis[m] - 1]
    /\ seen' = [i \in Instances |-> [m \in Messages |-> Older(seen[i][m])]]
    /\ handled' = [i \in Instances |-> [m \in Messages |-> Older(handled[i][m])]]
    /\ UNCHANGED <<pc, at, msg, clients, errors, doubted>>

Next ==
    \/ \E d \in Deliveries :
          \/ Deliver(d) \/ Skip(d) \/ TornRead(d)
          \/ SetNX(d) \/ SetNXFails(d) \/ Mark(d)
    \/ \E i \in Instances : Close(i)
    \/ Tick

Spec == Init /\ [][Next]_vars

-----------------------------------------------------------------------------
TypeOK ==
    /\ redis \in [Messages -> 0..Window]
    /\ seen \in [Instances -> [Messages -> Absent..Window]]
    /\ pc \in [Deliveries -> {"idle", "reserve", "mark", "handled", "refused", "panicked"}]
    /\ at \in [Deliveries -> Instances] /\ msg \in [Deliveries -> Messages]
    /\ handled \in [Instances -> [Messages -> 0..Window]]
    /\ clients \subseteq Clustered /\ errors \in Nat /\ doubted \subseteq Messages

\* Each instance implements ClaimOnce: it handles a message again only after
\* the window, however its deliveries interleave, whatever Redis answers and
\* whenever the map is swept.
Abstract == INSTANCE ClaimOnce WITH age <- handled
HandledOnce == Abstract!Spec

\* So does the cluster, as long as no Redis call about the message failed: none
\* of the instances that are not closing handled it within the window.
HandledOnceInCluster ==
    [][\A d \in Deliveries :
          (pc[d] = "mark" /\ pc'[d] = "handled" /\ at[d] \in clients
              /\ msg[d] \notin doubted)
          => \A i \in clients : handled[i][msg[d]] = Window]_vars

\* No message is lost to deduplication: a refused delivery is the duplicate of
\* one that is handled, or is about to be marked, somewhere.
RefusedWasHandled ==
    \A d \in Deliveries :
        pc[d] = "refused" =>
            \E e \in Deliveries : msg[e] = msg[d] /\ pc[e] \in {"mark", "handled"}
=============================================================================
