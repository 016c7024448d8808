-------------------------- MODULE NodeStore_proofs --------------------------
(***************************************************************************)
(* Proofs about NodeStore, for any ids, any number of goroutines and any   *)
(* capacity.  The inductive invariant says who holds which object: a       *)
(* goroutine past its lock step is the holder of its object, so two of     *)
(* them never share one, and an object not yet allocated is referenced by  *)
(* nobody.  With it, the id of a reply being generated can neither be      *)
(* overwritten (its id is in sent) nor deleted (the deleter would have to  *)
(* hold the same object).                                                  *)
(***************************************************************************)
EXTENDS NodeStore, TLAPS, FiniteSetTheorems, WellFoundedInduction

Works(h) == pc[h] \in {"lock", "lockVictim"} \/ Holds(h)

HolderInv == \A h \in Handlers : Holds(h) => holder[mine[h]] = h
AllocInv ==
    /\ \A i \in Ids : nodes[i] <= born
    /\ \A h \in Handlers : Works(h) => mine[h] \in 1..born
    /\ \A h \in Handlers : mine[h] <= born
    /\ \A h \in Handlers : pc[h] \in {"generate", "lockVictim", "delete"} => id[h] \in Ids
SentInv == \A h \in Handlers : pc[h] = "generate" => id[h] \in sent

IInv == TypeOK /\ HolderInv /\ AllocInv /\ SentInv /\ PendingReplyFindable

\* The initial state satisfies the invariant.
LEMMA InitIInv == Init => IInv
BY IdsAssumption, HandlersAssumption, BoundsAssumption
   DEF Init, IInv, TypeOK, HolderInv, AllocInv, SentInv, PendingReplyFindable,
       Holds, Works, Labels, None, Free

\* Every step of every goroutine preserves it.
LEMMA NextIInv == IInv /\ [Next]_vars => IInv'
<1> SUFFICES ASSUME IInv, [Next]_vars PROVE IInv'
    OBVIOUS
<1> USE IdsAssumption, HandlersAssumption, BoundsAssumption
<1> USE DEF IInv, TypeOK, HolderInv, AllocInv, SentInv, PendingReplyFindable,
            Holds, Works, Labels, None, Free
<1>1. ASSUME NEW h \in Handlers, NEW i \in Ids, GetOrCreate(h, i) PROVE IInv'
  <2>1. CASE nodes[i] # None
    <3>1. nodes' = nodes /\ born' = born /\ mine' = [mine EXCEPT ![h] = nodes[i]]
      BY <1>1, <2>1 DEF GetOrCreate
    <3>2. TypeOK'
      BY <1>1, <3>1 DEF GetOrCreate, Goto
    <3>3. nodes[i] \in 1..born
      BY <2>1
    <3> QED BY <1>1, <3>1, <3>2, <3>3 DEF GetOrCreate, Goto
  <2>2. CASE nodes[i] = None
    <3>1. /\ born < Objects /\ born' = born + 1
          /\ nodes' = [nodes EXCEPT ![i] = born + 1]
          /\ mine' = [mine EXCEPT ![h] = born + 1]
      BY <1>1, <2>2 DEF GetOrCreate
    <3>2. TypeOK'
      BY <1>1, <3>1 DEF GetOrCreate, Goto
    <3>3. HolderInv' /\ AllocInv' /\ SentInv'
      BY <1>1, <3>1 DEF GetOrCreate, Goto
    <3>4. PendingReplyFindable'
      BY <1>1, <2>2, <3>1 DEF GetOrCreate, Goto
    <3> QED BY <3>2, <3>3, <3>4
  <2> QED BY <2>1, <2>2
<1>2. ASSUME NEW h \in Handlers, NEW i \in Ids, AddPending(h, i) PROVE IInv'
  <2>1. TypeOK'
    BY <1>2 DEF AddPending, Goto
  <2>2. HolderInv' /\ AllocInv' /\ SentInv'
    BY <1>2 DEF AddPending, Goto
  <2>3. PendingReplyFindable'
    BY <1>2 DEF AddPending, Goto
  <2> QED BY <2>1, <2>2, <2>3
<1>3. ASSUME NEW h \in Handlers, LockNode(h) PROVE IInv'
  <2>1. CASE pc[h] = "lock"
    BY <1>3, <2>1 DEF LockNode, Goto
  <2>2. CASE pc[h] = "lockVictim"
    BY <1>3, <2>2 DEF LockNode, Goto
  <2> QED BY <1>3, <2>1, <2>2 DEF LockNode
<1>4. ASSUME NEW h \in Handlers, FillAndUnlock(h) PROVE IInv'
    BY <1>4 DEF FillAndUnlock, Goto, Forget
<1>5. ASSUME NEW h \in Handlers, DiscardPending(h) PROVE IInv'
    BY <1>5 DEF DiscardPending, Goto
<1>6. ASSUME NEW h \in Handlers, EvictExcess(h) PROVE IInv'
  <2>1. Oldest(Present, Cardinality(Present) - Capacity) \subseteq Ids
    BY DEF Oldest, Present
  <2> QED BY <1>6, <2>1 DEF EvictExcess, Goto
<1>7. ASSUME NEW h \in Handlers, NextVictim(h) PROVE IInv'
  <2>1. PICK i \in todo[h] :
          /\ todo' = [todo EXCEPT ![h] = @ \ {i}]
          /\ id' = [id EXCEPT ![h] = i]
          /\ mine' = [mine EXCEPT ![h] = nodes[i]]
          /\ pc' = [pc EXCEPT ![h] = IF nodes[i] = None THEN "victim"
                                     ELSE "lockVictim"]
    BY <1>7 DEF NextVictim, Goto
  <2>2. i \in Ids
    BY <2>1
  <2> QED BY <1>7, <2>1, <2>2 DEF NextVictim
<1>8. ASSUME NEW h \in Handlers, DeleteVictim(h) PROVE IInv'
    BY <1>8 DEF DeleteVictim, Goto
<1>9. ASSUME NEW h \in Handlers, Unlock(h) PROVE IInv'
    BY <1>9 DEF Unlock, Goto, Forget
<1>10. ASSUME NEW h \in Handlers, EndTurn(h) PROVE IInv'
    BY <1>10 DEF EndTurn, Goto, Forget
<1>11. CASE UNCHANGED vars
    BY <1>11 DEF vars
<1> QED
  BY <1>1, <1>2, <1>3, <1>4, <1>5, <1>6, <1>7, <1>8, <1>9, <1>10, <1>11
     DEF Next, Begin, Step

\* Every variable of the store stays in its set: in particular evictExcess,
\* getOrCreate and addPending only ever file allocated objects.
THEOREM TypeCorrect == Spec => []TypeOK
<1>1. IInv => TypeOK
    BY DEF IInv
<1> QED BY InitIInv, NextIInv, <1>1, PTL DEF Spec

\* A reply that is still being generated stays findable under its id as the
\* node release() will fill, whatever lookups and evictions run meanwhile.
THEOREM PendingFindable == Spec => []PendingReplyFindable
<1>1. IInv => PendingReplyFindable
    BY DEF IInv
<1> QED BY InitIInv, NextIInv, <1>1, PTL DEF Spec

\* No eviction and no discard takes a node away from a goroutine that holds
\* its lock.
THEOREM HeldStay == Spec => HeldNodesStay
<1> DEFINE Stay == \A i \in Ids :
              (nodes[i] # None /\ nodes'[i] = None)
              => \A h \in Handlers : (mine[h] = nodes[i] /\ Holds(h))
                                     => pc[h] # "unlock" /\ pc'[h] = "unlock"
<1>1. IInv /\ [Next]_vars => [Stay]_vars
  <2> SUFFICES ASSUME IInv, Next PROVE Stay
      OBVIOUS
  <2> SUFFICES ASSUME NEW i \in Ids, nodes[i] # None, nodes'[i] = None,
                      NEW g \in Handlers, mine[g] = nodes[i], Holds(g)
               PROVE pc[g] # "unlock" /\ pc'[g] = "unlock"
      OBVIOUS
  <2> USE IdsAssumption, HandlersAssumption, BoundsAssumption
  <2>1. ASSUME NEW h \in Handlers, NEW j \in Ids, GetOrCreate(h, j)
        PROVE FALSE
      BY <2>1 DEF GetOrCreate, IInv, TypeOK, None
  <2>2. ASSUME NEW h \in Handlers, NEW j \in Ids, AddPending(h, j)
        PROVE FALSE
      BY <2>2 DEF AddPending, IInv, TypeOK, None
  <2>3. ASSUME NEW h \in Handlers, DiscardPending(h) \/ DeleteVictim(h)
        PROVE pc[g] # "unlock" /\ pc'[g] = "unlock"
    <3>1. mine[h] = nodes[i] /\ Holds(h)
        BY <2>3 DEF DiscardPending, DeleteVictim, Holds, IInv, TypeOK, None
    <3>2. h = g
        BY <3>1 DEF IInv, HolderInv
    <3> QED BY <2>3, <3>2 DEF DiscardPending, DeleteVictim, Goto, IInv, TypeOK
  <2>4. ASSUME NEW h \in Handlers,
               \/ LockNode(h) \/ FillAndUnlock(h) \/ EvictExcess(h)
               \/ NextVictim(h) \/ Unlock(h) \/ EndTurn(h)
        PROVE FALSE
      BY <2>4 DEF LockNode, FillAndUnlock, EvictExcess, NextVictim, Unlock,
                  EndTurn
  <2> QED BY <2>1, <2>2, <2>3, <2>4 DEF Next, Begin, Step
<1> QED BY InitIInv, NextIInv, <1>1, PTL DEF Spec, HeldNodesStay

-----------------------------------------------------------------------------
(* The capacity.  Between a growth of the map and the end of all turns     *)
(* somebody evicts, and it is the goroutine that read the map last whose   *)
(* victims suffice: the others' may be out of date.                        *)

\* A set of numbers that is not empty has a smallest one.
LEMMA SmallestOf ==
    ASSUME NEW S \in SUBSET Nat, S # {}
    PROVE  \E m \in S : \A i \in S : m <= i
<1>1. PICK m \in S : \A i \in S : ~(<<i, m>> \in OpToRel(<, Nat))
  BY NatLessThanWellFounded, WFMin, Zenon
<1>2. \A i \in S : ~(i < m)
  BY <1>1, Zenon DEF OpToRel
<1>3. \A i \in S : m <= i
  <2> SUFFICES ASSUME NEW i \in S PROVE m <= i
    OBVIOUS
  <2>1. i \in Nat /\ m \in Nat /\ ~(i < m)
    BY <1>2
  <2> QED BY <2>1
<1> QED BY <1>3

\* sortMessageIDs: all but the n oldest of a set are the rest of it.
LEMMA OldestLeaves ==
    ASSUME NEW S \in SUBSET Nat, IsFiniteSet(S)
    PROVE  Cardinality(S \ Oldest(S, Cardinality(S) - Capacity)) <= Capacity
<1> DEFINE rest == S \ Oldest(S, Cardinality(S) - Capacity)
           older(i) == {j \in S : j < i}
<1>1. Cardinality(S) \in Nat /\ Capacity \in Nat
  BY FS_CardinalityType, BoundsAssumption
<1>2. CASE rest = {}
  BY <1>1, <1>2, FS_EmptySet
<1>3. CASE rest # {}
  <2>1. PICK m \in rest : \A i \in rest : m <= i
    BY <1>3, SmallestOf
  <2>2. older(m) \subseteq S /\ IsFiniteSet(older(m)) /\ Cardinality(older(m)) \in Nat
    BY FS_Subset, FS_CardinalityType
  <2>3. Cardinality(older(m)) >= Cardinality(S) - Capacity
    BY <1>1, <2>1, <2>2 DEF Oldest
  <2>4. rest \subseteq S \ older(m)
    <3> SUFFICES ASSUME NEW i \in rest PROVE i \in S /\ i \notin older(m)
      OBVIOUS
    <3>1. i \in S /\ i \in Nat /\ m \in Nat /\ m <= i
      BY <2>1
    <3> QED BY <3>1
  <2> HIDE DEF rest, older
  <2>5. IsFiniteSet(S \ older(m)) /\ S \cap older(m) = older(m)
        /\ Cardinality(S \ older(m)) = Cardinality(S) - Cardinality(older(m))
    <3>1. S \cap older(m) = older(m)
      BY <2>2
    <3> QED BY <3>1, FS_Difference
  <2>6. Cardinality(rest) \in Nat /\ Cardinality(rest) <= Cardinality(S \ older(m))
    BY <2>4, <2>5, FS_Subset, FS_CardinalityType
  <2>7. Cardinality(rest) <= Capacity
    <3>1. Cardinality(S \ older(m)) <= Capacity /\ Cardinality(S \ older(m)) \in Int
      BY <1>1, <2>2, <2>3, <2>5
    <3> QED BY <1>1, <2>6, <3>1
  <2> QED BY <2>7 DEF rest
<1> QED BY <1>2, <1>3

\* What a map within its capacity leaves when it shrinks is within it.
LEMMA Fewer ==
    ASSUME NEW S \in SUBSET Ids, NEW T \in SUBSET S, Cardinality(S) <= Capacity
    PROVE  Cardinality(T) <= Capacity
<1>1. IsFiniteSet(Ids)
  BY IdsAssumption
<1>2. IsFiniteSet(S) /\ IsFiniteSet(T)
  BY <1>1, FS_Subset
<1>3. Cardinality(S) \in Nat /\ Cardinality(T) \in Nat /\ Cardinality(T) <= Cardinality(S)
  BY <1>2, FS_Subset, FS_CardinalityType
<1> QED BY <1>3, BoundsAssumption

\* The goroutine has yet to read the map for its evictExcess.
Owes(h) ==
    pc[h] \in {"lock", "held", "generate", "evict"} \/ (pc[h] = "unlock" /\ kind[h] = "discard")

\* It is evicting these ids.
Evicts(h) ==
    pc[h] \in {"victim", "lockVictim", "delete"} \/ (pc[h] = "unlock" /\ kind[h] # "discard")
Victims(h) == todo[h] \cup {i \in {id[h]} : pc[h] \in {"lockVictim", "delete"}}

\* Its victims are enough, and the node it is about to delete is still there.
Suffices(h) ==
    /\ Evicts(h) /\ Cardinality(Present \ Victims(h)) <= Capacity
    /\ pc[h] \in {"lockVictim", "delete"} => nodes[id[h]] \in {mine[h], None}

\* Somebody answers for an excess: the last who counted it, or one who has yet to.
Covered ==
    \/ Cardinality(Present) <= Capacity
    \/ \E h \in Handlers : Owes(h) \/ Suffices(h)

\* A step of h by which the map does not grow keeps the others' share.
LEMMA OthersKept ==
    ASSUME Covered, NEW h \in Handlers, ~Owes(h), Present' \subseteq Present,
           \A i \in Ids \cup {None} : nodes'[i] = nodes[i] \/ nodes'[i] = None,
           \A g \in Handlers \ {h} :
              /\ pc'[g] = pc[g] /\ kind'[g] = kind[g] /\ id'[g] = id[g]
              /\ mine'[g] = mine[g] /\ todo'[g] = todo[g],
           id \in [Handlers -> Ids \cup {None}],
           Suffices(h) => Suffices(h)' \/ Owes(h)' \/ Cardinality(Present') <= Capacity
    PROVE  Covered'
<1>0. Present \subseteq Ids
  BY DEF Present
<1>1. CASE Cardinality(Present) <= Capacity
  BY <1>0, <1>1, Fewer DEF Covered
<1>2. ASSUME NEW g \in Handlers \ {h}, Owes(g) PROVE Covered'
  BY <1>2 DEF Covered, Owes
<1>3. ASSUME NEW g \in Handlers \ {h}, Suffices(g) PROVE Covered'
  <2>1. Victims(g)' = Victims(g) /\ Evicts(g)'
    BY <1>3 DEF Victims, Evicts, Suffices
  <2>2. Present' \ Victims(g)' \subseteq Present \ Victims(g)
    BY <2>1
  <2>3. Cardinality(Present' \ Victims(g)') <= Capacity
    <3>1. Present \ Victims(g) \subseteq Ids
      BY <1>0
    <3> QED BY <1>3, <2>2, <3>1, Fewer DEF Suffices
  <2>4. pc'[g] \in {"lockVictim", "delete"} => nodes'[id'[g]] \in {mine'[g], None}
    BY <1>3 DEF Suffices
  <2> QED BY <2>1, <2>3, <2>4 DEF Covered, Suffices
<1>4. CASE Suffices(h)
  BY <1>4 DEF Covered
<1> QED BY <1>1, <1>2, <1>3, <1>4 DEF Covered

\* Every step keeps the map covered.
LEMMA CoveredStep == ASSUME IInv, Covered, [Next]_vars PROVE Covered'
<1>0. TypeOK /\ TypeOK'
  BY NextIInv DEF IInv
<1> USE DEF TypeOK, Goto
<1>1. ASSUME NEW h \in Handlers, NEW i \in Ids, GetOrCreate(h, i) \/ AddPending(h, i)
      PROVE  Covered'
  <2>1. pc'[h] \in {"lock", "generate"}
    BY <1>0, <1>1 DEF GetOrCreate, AddPending
  <2> QED BY <2>1 DEF Covered, Owes
<1>2. ASSUME NEW h \in Handlers, FillAndUnlock(h) \/ DiscardPending(h) PROVE Covered'
  <2>1. pc'[h] = "evict" \/ (pc'[h] = "unlock" /\ kind'[h] = "discard")
    BY <1>0, <1>2 DEF FillAndUnlock, DiscardPending
  <2> QED BY <2>1 DEF Covered, Owes
<1>3. ASSUME NEW h \in Handlers, EvictExcess(h) PROVE Covered'
  <2> DEFINE oldest == Oldest(Present, Cardinality(Present) - Capacity)
  <2>1. pc'[h] = "victim" /\ todo'[h] = oldest /\ nodes' = nodes
    BY <1>0, <1>3 DEF EvictExcess
  <2>2. Present' = Present /\ Victims(h)' = oldest
    BY <2>1 DEF Present, Victims
  <2>3. Present \in SUBSET Nat /\ IsFiniteSet(Present)
    <3>1. Present \subseteq Ids
      BY DEF Present
    <3> QED BY <3>1, IdsAssumption, FS_Subset
  <2>4. Cardinality(Present \ oldest) <= Capacity
    BY <2>3, OldestLeaves
  <2> QED BY <2>1, <2>2, <2>4 DEF Covered, Suffices, Evicts
<1>4. ASSUME NEW h \in Handlers, LockNode(h) PROVE Covered'
  <2>1. CASE pc[h] = "lock"
    <3>1. pc'[h] = "held"
      BY <1>0, <1>4, <2>1 DEF LockNode
    <3> QED BY <3>1 DEF Covered, Owes
  <2>2. CASE pc[h] = "lockVictim"
    <3>1. pc'[h] = "delete" /\ UNCHANGED <<nodes, kind, id, mine, todo>>
      BY <1>0, <1>4, <2>2 DEF LockNode
    <3>2. Present' = Present /\ Victims(h)' = Victims(h)
      BY <2>2, <3>1 DEF Present, Victims
    <3>3. Suffices(h) => Suffices(h)'
      BY <2>2, <3>1, <3>2 DEF Suffices, Evicts
    <3>4. \A g \in Handlers \ {h} : pc'[g] = pc[g]
      BY <1>0, <1>4 DEF LockNode
    <3>5. ~Owes(h)
      BY <2>2 DEF Owes
    <3> QED BY <1>0, <3>1, <3>2, <3>3, <3>4, <3>5, OthersKept
  <2> QED BY <1>4, <2>1, <2>2 DEF LockNode
<1>5. ASSUME NEW h \in Handlers, NextVictim(h) PROVE Covered'
  <2>1. PICK i \in todo[h] :
          /\ todo' = [todo EXCEPT ![h] = @ \ {i}]
          /\ id' = [id EXCEPT ![h] = i]
          /\ mine' = [mine EXCEPT ![h] = nodes[i]]
          /\ pc' = [pc EXCEPT ![h] = IF nodes[i] = None THEN "victim" ELSE "lockVictim"]
    BY <1>5 DEF NextVictim
  <2>2. pc[h] = "victim" /\ i \in Ids /\ UNCHANGED <<nodes, kind>>
    BY <1>0, <1>5 DEF NextVictim
  <2>3. /\ todo'[h] = todo[h] \ {i} /\ id'[h] = i /\ mine'[h] = nodes[i]
        /\ pc'[h] = IF nodes[i] = None THEN "victim" ELSE "lockVictim"
        /\ \A g \in Handlers \ {h} :
              /\ pc'[g] = pc[g] /\ id'[g] = id[g] /\ mine'[g] = mine[g] /\ todo'[g] = todo[g]
    BY <1>0, <2>1
  <2>4. Present' = Present /\ Present' \ Victims(h)' = Present \ Victims(h)
    BY <2>2, <2>3 DEF Present, Victims
  <2>5. Suffices(h) => Suffices(h)'
    BY <2>2, <2>3, <2>4 DEF Suffices, Evicts
  <2>6. ~Owes(h)
    BY <2>2 DEF Owes
  <2> QED BY <1>0, <2>2, <2>3, <2>4, <2>5, <2>6, OthersKept
<1>6. ASSUME NEW h \in Handlers, DeleteVictim(h) PROVE Covered'
  <2>1. /\ pc[h] = "delete" /\ pc'[h] = "unlock" /\ UNCHANGED <<kind, id, mine, todo>>
        /\ nodes' = IF nodes[id[h]] = mine[h] THEN [nodes EXCEPT ![id[h]] = None] ELSE nodes
        /\ \A g \in Handlers \ {h} : pc'[g] = pc[g]
    BY <1>0, <1>6 DEF DeleteVictim
  <2>2. id[h] \in Ids
    BY <2>1 DEF IInv, AllocInv
  <2>3. \A i \in Ids \cup {None} : nodes'[i] = nodes[i] \/ nodes'[i] = None
    BY <1>0, <2>1, <2>2, IdsAssumption
  <2>4. Present' \subseteq Present
    BY <1>0, <2>3 DEF Present
  <2>5. ASSUME Suffices(h), ~Owes(h)' PROVE Suffices(h)'
    <3>1. nodes'[id[h]] = None
      BY <1>0, <2>1, <2>2, <2>5 DEF Suffices
    <3>2. Victims(h)' = todo[h] /\ Victims(h) = todo[h] \cup {id[h]}
      BY <2>1 DEF Victims
    <3>3. Present' \ Victims(h)' \subseteq Present \ Victims(h)
      BY <2>4, <3>1, <3>2 DEF Present
    <3>4. Cardinality(Present' \ Victims(h)') <= Capacity
      <4>1. Present \ Victims(h) \subseteq Ids
        BY DEF Present
      <4> QED BY <2>5, <3>3, <4>1, Fewer DEF Suffices
    <3> QED BY <2>1, <2>5, <3>4 DEF Suffices, Evicts, Owes
  <2>6. ~Owes(h)
    BY <2>1 DEF Owes
  <2> QED BY <1>0, <2>1, <2>3, <2>4, <2>5, <2>6, OthersKept
<1>7. ASSUME NEW h \in Handlers, Unlock(h) PROVE Covered'
  <2>1. CASE kind[h] = "discard"
    <3>1. pc'[h] = "evict"
      BY <1>0, <1>7, <2>1 DEF Unlock
    <3> QED BY <3>1 DEF Covered, Owes
  <2>2. CASE kind[h] # "discard"
    <3>1. /\ pc[h] = "unlock" /\ pc'[h] = "victim" /\ UNCHANGED <<nodes, todo>>
          /\ \A g \in Handlers \ {h} :
                pc'[g] = pc[g] /\ kind'[g] = kind[g] /\ id'[g] = id[g] /\ mine'[g] = mine[g]
      BY <1>0, <1>7, <2>2 DEF Unlock, Forget
    <3>2. Present' = Present /\ Victims(h)' = Victims(h)
      BY <3>1 DEF Present, Victims
    <3>3. Suffices(h) => Suffices(h)'
      BY <3>1, <3>2 DEF Suffices, Evicts
    <3>4. ~Owes(h)
      BY <2>2, <3>1 DEF Owes
    <3> QED BY <1>0, <3>1, <3>2, <3>3, <3>4, OthersKept
  <2> QED BY <2>1, <2>2
<1>8. ASSUME NEW h \in Handlers, EndTurn(h) PROVE Covered'
  <2>1. /\ pc[h] = "victim" /\ todo[h] = {} /\ pc'[h] = "done" /\ UNCHANGED <<nodes, todo>>
        /\ \A g \in Handlers \ {h} :
              pc'[g] = pc[g] /\ kind'[g] = kind[g] /\ id'[g] = id[g] /\ mine'[g] = mine[g]
    BY <1>0, <1>8 DEF EndTurn, Forget
  <2>2. Present' = Present /\ Present \ Victims(h) = Present
    BY <2>1 DEF Present, Victims
  <2>3. Suffices(h) => Cardinality(Present') <= Capacity
    BY <2>2 DEF Suffices
  <2>4. ~Owes(h)
    BY <2>1 DEF Owes
  <2> QED BY <1>0, <2>1, <2>2, <2>3, <2>4, OthersKept
<1>9. CASE UNCHANGED vars
  BY <1>9 DEF vars, Covered, Owes, Suffices, Evicts, Victims, Present
<1> QED
  BY <1>1, <1>2, <1>3, <1>4, <1>5, <1>6, <1>7, <1>8, <1>9 DEF Next, Begin, Step

\* When every turn has ended, whatever ran in between, the map is within its
\* capacity: an eviction whose victims were out of date is followed by that of
\* the goroutine that made them so.
THEOREM CapacityHolds == Spec => []CapacityRestored
<1>1. Init => Covered
  <2> SUFFICES ASSUME Init PROVE Cardinality(Present) <= Capacity
    BY DEF Covered
  <2>1. Present = {}
    BY DEF Init, Present
  <2> QED BY <2>1, FS_EmptySet, BoundsAssumption
<1>2. IInv /\ Covered /\ [Next]_vars => IInv' /\ Covered'
  BY NextIInv, CoveredStep
<1>3. Covered => CapacityRestored
  BY DEF Covered, Owes, Suffices, Evicts, CapacityRestored
<1> QED BY InitIInv, <1>1, <1>2, <1>3, PTL DEF Spec
=============================================================================
