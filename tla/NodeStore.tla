------------------------------ MODULE NodeStore ------------------------------
(***************************************************************************)
(* The in-memory node store of internal/app/store.go and the goroutines    *)
(* that share it: handlers that look a message node up, lock it and fill   *)
(* it (buildConversation, initializeNode), replies that publish a node     *)
(* already locked and fill it when the answer is complete (addPending,     *)
(* responseTracker.release, discardPendingResponse), and evictExcess,      *)
(* which every handler runs last and which waits for the lock of each      *)
(* victim.                                                                 *)
(*                                                                         *)
(* A node is an object with an identity: addPending replaces whatever      *)
(* object another goroutine has already filed under the reply's id.        *)
(***************************************************************************)
EXTENDS Integers, FiniteSets

CONSTANTS
    Ids,        \* message ids; compareMessageIDs orders them as numbers
    Handlers,   \* goroutines, one turn each
    Kinds,      \* the turns to explore: "lookup", "reply", "discard"
    Capacity,   \* maxMessageNodes
    Objects     \* bound: node objects ever allocated, 1..Objects

None == 0
Free == "free"

ASSUME IdsAssumption == Ids \subseteq Nat \ {None} /\ IsFiniteSet(Ids)
ASSUME HandlersAssumption == Free \notin Handlers
ASSUME BoundsAssumption == Capacity \in Nat /\ Objects \in Nat

VARIABLES
    nodes,    \* store.nodes: id -> object, None when absent
    holder,   \* object -> the goroutine that holds its mutex, or Free
    born,     \* objects allocated so far
    sent,     \* ids of the replies published so far: Discord's are unique
    pc, kind, \* per goroutine: where it is, and what its turn is
    id, mine, \* per goroutine: the id and the object it works on
    todo      \* per goroutine: the victims evictExcess has left

vars == <<nodes, holder, born, sent, pc, kind, id, mine, todo>>

Present == {i \in Ids : nodes[i] # None}

\* The n ids that sortMessageIDs puts first among S.
Oldest(S, n) == {i \in S : Cardinality({j \in S : j < i}) < n}

Init ==
    /\ nodes = [i \in Ids |-> None]
    /\ holder = [o \in 1..Objects |-> Free]
    /\ born = 0 /\ sent = {}
    /\ pc = [h \in Handlers |-> "idle"]
    /\ kind = [h \in Handlers |-> "lookup"]
    /\ id = [h \in Handlers |-> None]
    /\ mine = [h \in Handlers |-> None]
    /\ todo = [h \in Handlers |-> {}]

Goto(h, label) == pc' = [pc EXCEPT ![h] = label]

\* The goroutine has no more use for its node.
Forget(h) ==
    /\ kind' = [kind EXCEPT ![h] = "lookup"]
    /\ id' = [id EXCEPT ![h] = None] /\ mine' = [mine EXCEPT ![h] = None]

\* Mutant: a fresh object that is filed without being counted.
GetOrCreate_Uncounted(h, i) ==
    /\ pc[h] = "idle" /\ nodes[i] = None /\ born < Objects
    /\ nodes' = [nodes EXCEPT ![i] = born + 1]
    /\ mine' = [mine EXCEPT ![h] = born + 1]
    /\ id' = [id EXCEPT ![h] = i]
    /\ Goto(h, "lock")
    /\ UNCHANGED <<holder, born, sent, kind, todo>>

\* getOrCreate: the existing object, or a fresh one that nobody holds.
GetOrCreate(h, i) ==
    /\ pc[h] = "idle" /\ "lookup" \in Kinds
    /\ IF nodes[i] # None
       THEN /\ mine' = [mine EXCEPT ![h] = nodes[i]]
            /\ UNCHANGED <<nodes, born>>
       ELSE /\ born < Objects
            /\ born' = born + 1
            /\ nodes' = [nodes EXCEPT ![i] = born + 1]
            /\ mine' = [mine EXCEPT ![h] = born + 1]
    /\ kind' = [kind EXCEPT ![h] = "lookup"]
    /\ id' = [id EXCEPT ![h] = i]
    /\ Goto(h, "lock")
    /\ UNCHANGED <<holder, sent, todo>>

\* addPending: locked before it is published, over any object already there.
AddPending(h, i) ==
    /\ pc[h] = "idle" /\ born < Objects /\ i \notin sent
    /\ sent' = sent \cup {i}
    /\ \E k \in Kinds \ {"lookup"} : kind' = [kind EXCEPT ![h] = k]
    /\ born' = born + 1
    /\ holder' = [holder EXCEPT ![born + 1] = h]
    /\ nodes' = [nodes EXCEPT ![i] = born + 1]
    /\ id' = [id EXCEPT ![h] = i]
    /\ mine' = [mine EXCEPT ![h] = born + 1]
    /\ Goto(h, "generate")
    /\ UNCHANGED todo

\* Mutant: deleteWhenUnlocked does not wait for the lock of its victim.
LockNode_Impatient(h) ==
    /\ \/ pc[h] = "lock" /\ holder[mine[h]] = Free
       \/ pc[h] = "lockVictim"
    /\ holder' = [holder EXCEPT ![mine[h]] = h]
    /\ Goto(h, IF pc[h] = "lock" THEN "held" ELSE "delete")
    /\ UNCHANGED <<nodes, born, sent, kind, id, mine, todo>>

\* node.mu.Lock() of a lookup, or of deleteWhenUnlocked on its victim.
LockNode(h) ==
    /\ pc[h] \in {"lock", "lockVictim"} /\ holder[mine[h]] = Free
    /\ holder' = [holder EXCEPT ![mine[h]] = h]
    /\ Goto(h, IF pc[h] = "lock" THEN "held" ELSE "delete")
    /\ UNCHANGED <<nodes, born, sent, kind, id, mine, todo>>

\* A lookup fills the node under its lock if nobody has, release() fills the
\* node of a complete reply; both then unlock it.
FillAndUnlock(h) ==
    /\ \/ pc[h] = "held"
       \/ pc[h] = "generate" /\ kind[h] = "reply"
    /\ holder' = [holder EXCEPT ![mine[h]] = Free]
    /\ Forget(h)
    /\ Goto(h, "evict")
    /\ UNCHANGED <<nodes, born, sent, todo>>

\* discardPendingResponse: leave the map only if this object is still in it.
DiscardPending(h) ==
    /\ pc[h] = "generate" /\ kind[h] = "discard"
    /\ nodes' = IF nodes[id[h]] = mine[h] THEN [nodes EXCEPT ![id[h]] = None]
                ELSE nodes
    /\ Goto(h, "unlock")
    /\ UNCHANGED <<holder, born, sent, kind, id, mine, todo>>

\* Mutant: one node too few is evicted.
EvictExcess_OneShort(h) ==
    /\ pc[h] = "evict"
    /\ todo' = [todo EXCEPT
                ![h] = Oldest(Present, Cardinality(Present) - Capacity - 1)]
    /\ Goto(h, "victim")
    /\ UNCHANGED <<nodes, holder, born, sent, kind, id, mine>>

\* evictExcess reads the map once; the victims are its oldest ids.
EvictExcess(h) ==
    /\ pc[h] = "evict"
    /\ todo' = [todo EXCEPT
                ![h] = Oldest(Present, Cardinality(Present) - Capacity)]
    /\ Goto(h, "victim")
    /\ UNCHANGED <<nodes, holder, born, sent, kind, id, mine>>

\* deleteWhenUnlocked finds the victim's current object, if it has one.
NextVictim(h) ==
    /\ pc[h] = "victim"
    /\ \E i \in todo[h] :
         /\ \A j \in todo[h] : i <= j
         /\ todo' = [todo EXCEPT ![h] = @ \ {i}]
         /\ id' = [id EXCEPT ![h] = i]
         /\ mine' = [mine EXCEPT ![h] = nodes[i]]
         /\ Goto(h, IF nodes[i] = None THEN "victim" ELSE "lockVictim")
    /\ UNCHANGED <<nodes, holder, born, sent, kind>>

\* Mutant: the victim's id is deleted without comparing the node.
DeleteVictim_Blind(h) ==
    /\ pc[h] = "delete"
    /\ nodes' = [nodes EXCEPT ![id[h]] = None]
    /\ Goto(h, "unlock")
    /\ UNCHANGED <<holder, born, sent, kind, id, mine, todo>>

\* ... and deletes it only if it still is the one that was locked.
DeleteVictim(h) ==
    /\ pc[h] = "delete"
    /\ nodes' = IF nodes[id[h]] = mine[h] THEN [nodes EXCEPT ![id[h]] = None]
                ELSE nodes
    /\ Goto(h, "unlock")
    /\ UNCHANGED <<holder, born, sent, kind, id, mine, todo>>

\* Mutant: a discarded reply keeps its lock.
Unlock_Forgotten(h) ==
    /\ pc[h] = "unlock"
    /\ holder' = IF kind[h] = "discard" THEN holder
                 ELSE [holder EXCEPT ![mine[h]] = Free]
    /\ Forget(h)
    /\ Goto(h, IF kind[h] = "discard" THEN "evict" ELSE "victim")
    /\ UNCHANGED <<nodes, born, sent, todo>>

\* The unlock that ends a delete: of a victim, or of a discarded reply, whose
\* handler goes on to its own evictExcess.
Unlock(h) ==
    /\ pc[h] = "unlock"
    /\ holder' = [holder EXCEPT ![mine[h]] = Free]
    /\ Forget(h)
    /\ Goto(h, IF kind[h] = "discard" THEN "evict" ELSE "victim")
    /\ UNCHANGED <<nodes, born, sent, todo>>

EndTurn(h) ==
    /\ pc[h] = "victim" /\ todo[h] = {}
    /\ Goto(h, "done")
    /\ Forget(h)
    /\ UNCHANGED <<nodes, holder, born, sent, todo>>

Begin(h) == \E i \in Ids : GetOrCreate(h, i) \/ AddPending(h, i)

Step(h) ==
    \/ LockNode(h) \/ FillAndUnlock(h) \/ DiscardPending(h) \/ EvictExcess(h)
    \/ NextVictim(h) \/ DeleteVictim(h) \/ Unlock(h) \/ EndTurn(h)

Next == \E h \in Handlers : Begin(h) \/ Step(h)

Spec == Init /\ [][Next]_vars

\* A goroutine that can run does.  A waiter of a mutex may be overtaken, but
\* only by the few other turns of the instance, so strong fairness is not
\* needed.  No message has to arrive, so Begin is not fair.
FairSpec == Spec /\ \A h \in Handlers : WF_vars(Step(h))

-----------------------------------------------------------------------------
Labels == {"idle", "lock", "held", "generate", "evict", "victim",
           "lockVictim", "delete", "unlock", "done"}

\* The type invariant; only objects that were allocated are filed.
TypeOK ==
    /\ nodes \in [Ids -> 0..born]
    /\ holder \in [1..Objects -> Handlers \cup {Free}]
    /\ born \in 0..Objects /\ sent \subseteq Ids
    /\ pc \in [Handlers -> Labels]
    /\ kind \in [Handlers -> Kinds \cup {"lookup"}]
    /\ id \in [Handlers -> Ids \cup {None}]
    /\ mine \in [Handlers -> 0..Objects]
    /\ todo \in [Handlers -> SUBSET Ids]

Holds(h) == pc[h] \in {"held", "generate", "delete", "unlock"}

\* A node leaves the map only by the goroutine that holds its lock: neither a
\* reply that is still being generated nor a node being filled is evicted
\* under its handler, whatever replaced what in the map meanwhile.
HeldNodesStay ==
    [][\A i \in Ids :
          (nodes[i] # None /\ nodes'[i] = None)
          => \A h \in Handlers : (mine[h] = nodes[i] /\ Holds(h))
                                 => pc[h] # "unlock" /\ pc'[h] = "unlock"]_vars

\* While a reply is generated its id leads to the very node release() will
\* fill: neither an eviction that began earlier nor a lookup of the same id,
\* which may have filed an object of its own first, takes that away.
PendingReplyFindable ==
    \A h \in Handlers : pc[h] = "generate" => nodes[id[h]] = mine[h]

\* Once every turn has ended the map is within its capacity again.
CapacityRestored ==
    (\A h \in Handlers : pc[h] \in {"idle", "done"})
        => Cardinality(Present) <= Capacity

\* Every turn that began ends: evictions wait for locks that replies hold
\* while they are generated, but nobody waits in a circle.
TurnsEnd == \A h \in Handlers : pc[h] # "idle" ~> pc[h] = "done"
=============================================================================
