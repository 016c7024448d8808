------------------------ MODULE MessageDedup_proofs ------------------------
(***************************************************************************)
(* MessageDedup has its types, loses no message, and implements ClaimOnce, *)
(* for any number of messages, instances and deliveries, any window and    *)
(* any size of the map.                                                    *)
(***************************************************************************)
EXTENDS MessageDedup, TLAPS

\* What the refinement rests on: the map of an instance knows the age of every
\* message it handled within the window.
MapRemembers ==
    \A i \in Instances, m \in Messages :
        handled[i][m] < Window => seen[i][m] = handled[i][m]

\* What RefusedWasHandled rests on: a message in a map was handled, and a key in
\* Redis belongs to a delivery that went on.
SeenWasHandled ==
    \A i \in Instances, m \in Messages :
        seen[i][m] # Absent => \E e \in Deliveries : msg[e] = m /\ pc[e] = "handled"
KeyWentOn ==
    \A m \in Messages :
        redis[m] > 0 =>
            \E e \in Deliveries : msg[e] = m /\ pc[e] \in {"mark", "handled"}

USE InstancesAssumption, WindowAssumption

LEMMA ExpireKeeps ==
    ASSUME NEW s \in [Messages -> Absent..Window]
    PROVE  /\ Expire(s) \in [Messages -> Absent..Window]
           /\ \A m \in Messages : Expire(s)[m] \in {s[m], Absent}
           /\ \A m \in Messages : s[m] # Window => Expire(s)[m] = s[m]
  BY DEF Expire, Absent

\* What one Mark does to a map: the message is new, and everything else is kept
\* or, once its window has passed, dropped.
LEMMA MarkedMap ==
    ASSUME TypeOK, NEW i \in Instances, NEW m \in Messages
    PROVE  LET s == Expire([seen[i] EXCEPT ![m] = 0])
           IN  /\ s \in [Messages -> Absent..Window]
               /\ s[m] = 0
               /\ \A n \in Messages \ {m} : s[n] \in {seen[i][n], Absent}
               /\ \A n \in Messages \ {m} : seen[i][n] # Window => s[n] = seen[i][n]
  <1> DEFINE t == [seen[i] EXCEPT ![m] = 0]
  <1>1. t \in [Messages -> Absent..Window]
    BY DEF TypeOK, Absent
  <1>2. t[m] = 0 /\ \A n \in Messages \ {m} : t[n] = seen[i][n]
    BY DEF TypeOK
  <1> HIDE DEF t
  <1>3. /\ Expire(t) \in [Messages -> Absent..Window]
        /\ \A n \in Messages : Expire(t)[n] \in {t[n], Absent}
        /\ \A n \in Messages : t[n] # Window => Expire(t)[n] = t[n]
    BY <1>1, ExpireKeeps
  <1>4. Expire(t)[m] = 0
    BY <1>2, <1>3
  <1>5. \A n \in Messages \ {m} : Expire(t)[n] \in {seen[i][n], Absent}
    BY <1>2, <1>3
  <1>6. \A n \in Messages \ {m} : seen[i][n] # Window => Expire(t)[n] = seen[i][n]
    BY <1>2, <1>3
  <1> QED
    BY <1>3, <1>4, <1>5, <1>6 DEF t

-----------------------------------------------------------------------------
\* Every reachable state has its type.
THEOREM TypeCorrect == Spec => []TypeOK
  <1>1. Init => TypeOK
    BY DEF Init, TypeOK, Absent
  <1>2. TypeOK /\ [Next]_vars => TypeOK'
    <2> SUFFICES ASSUME TypeOK, [Next]_vars PROVE TypeOK'
      OBVIOUS
    <2>1. ASSUME NEW d \in Deliveries, Deliver(d) PROVE TypeOK'
      BY <2>1 DEF Deliver, Goto, KeepRedis, KeepMaps, TypeOK
    <2>2. ASSUME NEW d \in Deliveries, Skip(d) \/ TornRead(d) PROVE TypeOK'
      BY <2>2 DEF Skip, TornRead, Goto, KeepRedis, KeepMaps, TypeOK
    <2>3. ASSUME NEW d \in Deliveries, SetNX(d) PROVE TypeOK'
      <3>1. redis' \in [Messages -> 0..Window]
        BY <2>3 DEF SetNX, TypeOK
      <3>2. pc' \in [Deliveries -> {"idle", "reserve", "mark", "handled", "refused", "panicked"}]
        BY <2>3 DEF SetNX, Goto, TypeOK
      <3> QED
        BY <2>3, <3>1, <3>2 DEF SetNX, KeepMaps, TypeOK
    <2>4. ASSUME NEW d \in Deliveries, SetNXFails(d) PROVE TypeOK'
      BY <2>4 DEF SetNXFails, Goto, KeepMaps, TypeOK
    <2>5. ASSUME NEW d \in Deliveries, Mark(d) PROVE TypeOK'
      <3>1. at[d] \in Instances /\ msg[d] \in Messages
        BY DEF TypeOK
      <3>2. Expire([seen[at[d]] EXCEPT ![msg[d]] = 0]) \in [Messages -> Absent..Window]
        BY <3>1, MarkedMap
      <3>3. seen' \in [Instances -> [Messages -> Absent..Window]]
        BY <2>5, <3>1, <3>2 DEF Mark, TypeOK
      <3>4. handled' \in [Instances -> [Messages -> 0..Window]]
        <4>1. [handled EXCEPT ![at[d]][msg[d]] = 0] \in [Instances -> [Messages -> 0..Window]]
          <5>1. [handled[at[d]] EXCEPT ![msg[d]] = 0] \in [Messages -> 0..Window]
            BY <3>1 DEF TypeOK
          <5> QED
            BY <5>1 DEF TypeOK
        <4> QED
          BY <2>5, <4>1 DEF Mark, TypeOK
      <3> QED
        BY <2>5, <3>3, <3>4 DEF Mark, Goto, KeepRedis, TypeOK
    <2>6. CASE Tick
      <3>1. redis' \in [Messages -> 0..Window]
        <4>1. \A m \in Messages :
                 (IF redis[m] = 0 THEN 0 ELSE redis[m] - 1) \in 0..Window
          <5> TAKE m \in Messages
          <5>1. redis[m] \in 0..Window
            BY DEF TypeOK
          <5> QED
            BY <5>1
        <4> QED
          BY <2>6, <4>1 DEF Tick
      <3>2. seen' \in [Instances -> [Messages -> Absent..Window]]
        <4>1. \A i \in Instances, m \in Messages : Older(seen[i][m]) \in Absent..Window
          <5> TAKE i \in Instances, m \in Messages
          <5>1. seen[i][m] \in Absent..Window
            BY DEF TypeOK
          <5> QED
            BY <5>1 DEF Older, Absent
        <4> QED
          BY <2>6, <4>1 DEF Tick
      <3>3. handled' \in [Instances -> [Messages -> 0..Window]]
        <4>1. \A i \in Instances, m \in Messages : Older(handled[i][m]) \in 0..Window
          <5> TAKE i \in Instances, m \in Messages
          <5>1. handled[i][m] \in 0..Window
            BY DEF TypeOK
          <5> QED
            BY <5>1 DEF Older, Absent
        <4> QED
          BY <2>6, <4>1 DEF Tick
      <3> QED
        BY <2>6, <3>1, <3>2, <3>3 DEF Tick, TypeOK
    <2>7. ASSUME NEW i \in Instances, Close(i) PROVE TypeOK'
      BY <2>7 DEF Close, KeepMaps, TypeOK
    <2>8. CASE UNCHANGED vars
      BY <2>8 DEF vars, TypeOK
    <2> QED
      BY <2>1, <2>2, <2>3, <2>4, <2>5, <2>6, <2>7, <2>8 DEF Next
  <1> QED
    BY <1>1, <1>2, PTL DEF Spec

-----------------------------------------------------------------------------
LEMMA Remembers == Spec => []MapRemembers
  <1>1. Init => MapRemembers
    BY DEF Init, MapRemembers
  <1>2. TypeOK /\ MapRemembers /\ [Next]_vars => MapRemembers'
    <2> SUFFICES ASSUME TypeOK, MapRemembers, [Next]_vars PROVE MapRemembers'
      OBVIOUS
    <2>1. CASE UNCHANGED <<seen, handled>>
      BY <2>1 DEF MapRemembers
    <2>2. ASSUME NEW d \in Deliveries, Mark(d) PROVE MapRemembers'
      <3>1. at[d] \in Instances /\ msg[d] \in Messages
        BY DEF TypeOK
      <3> DEFINE s == Expire([seen[at[d]] EXCEPT ![msg[d]] = 0])
      <3>2. /\ s[msg[d]] = 0
            /\ \A n \in Messages \ {msg[d]} :
                  seen[at[d]][n] # Window => s[n] = seen[at[d]][n]
        BY <3>1, MarkedMap
      <3>3. CASE UNCHANGED <<seen, handled>>
        BY <3>3 DEF MapRemembers
      <3>4. CASE /\ seen' = [seen EXCEPT ![at[d]] = s]
                 /\ handled' = [handled EXCEPT ![at[d]][msg[d]] = 0]
        <4> SUFFICES ASSUME NEW i \in Instances, NEW m \in Messages, handled'[i][m] < Window
                     PROVE  seen'[i][m] = handled'[i][m]
          BY DEF MapRemembers
        <4> HIDE DEF s
        <4>1. CASE i # at[d]
          BY <3>4, <4>1 DEF MapRemembers, TypeOK
        <4>2. CASE i = at[d] /\ m = msg[d]
          BY <3>1, <3>2, <3>4, <4>2 DEF TypeOK
        <4>3. CASE i = at[d] /\ m # msg[d]
          <5>1. handled'[i][m] = handled[i][m] /\ seen'[i][m] = s[m]
            BY <3>1, <3>4, <4>3 DEF TypeOK
          <5>2. seen[i][m] = handled[i][m]
            BY <5>1 DEF MapRemembers
          <5>3. seen[i][m] # Window
            BY <5>1, <5>2 DEF TypeOK
          <5> QED
            BY <3>2, <4>3, <5>1, <5>2, <5>3
        <4> QED
          BY <4>1, <4>2, <4>3
      <3> QED
        BY <2>2, <3>3, <3>4 DEF Mark
    <2>3. CASE Tick
      BY <2>3 DEF Tick, Older, MapRemembers, TypeOK, Absent
    <2> QED
      BY <2>1, <2>2, <2>3
         DEF Next, vars, Deliver, Skip, TornRead, Close, SetNX, SetNXFails, KeepMaps
  <1> QED
    BY <1>1, <1>2, TypeCorrect, PTL DEF Spec

\* Each instance handles a message again only when the window has passed since
\* it last did: markMessageSeen implements ClaimOnce, whatever Redis answers.
THEOREM Implements == Spec => HandledOnce
  <1>1. Init => Abstract!Init
    BY DEF Init, Abstract!Init
  <1>2. TypeOK /\ MapRemembers /\ [Next]_vars => [Abstract!Next]_handled
    <2> SUFFICES ASSUME TypeOK, MapRemembers, [Next]_vars PROVE [Abstract!Next]_handled
      OBVIOUS
    <2>1. CASE UNCHANGED handled
      BY <2>1
    <2>2. ASSUME NEW d \in Deliveries, Mark(d) PROVE [Abstract!Next]_handled
      <3>1. at[d] \in Instances /\ msg[d] \in Messages
        BY DEF TypeOK
      <3>2. CASE seen[at[d]][msg[d]] \in 0..(Window - 1)
        BY <2>2, <3>2 DEF Mark
      <3>3. CASE seen[at[d]][msg[d]] \notin 0..(Window - 1)
        <4>1. handled[at[d]][msg[d]] = Window
          <5>1. handled[at[d]][msg[d]] \in 0..Window
            BY <3>1 DEF TypeOK
          <5>2. handled[at[d]][msg[d]] < Window
                    => seen[at[d]][msg[d]] = handled[at[d]][msg[d]]
            BY <3>1 DEF MapRemembers
          <5> QED
            BY <3>3, <5>1, <5>2
        <4>2. handled' = [handled EXCEPT ![at[d]][msg[d]] = 0]
          BY <2>2, <3>3 DEF Mark
        <4> QED
          BY <3>1, <4>1, <4>2 DEF Abstract!Next, Abstract!Claim
      <3> QED
        BY <3>2, <3>3
    <2>3. CASE Tick
      <3>1. \A i \in Instances, m \in Messages :
              Older(handled[i][m]) =
                  IF handled[i][m] = Window THEN Window ELSE handled[i][m] + 1
        BY DEF TypeOK, Older, Absent
      <3> QED
        BY <2>3, <3>1 DEF Tick, Abstract!Next, Abstract!Tick
    <2> QED
      BY <2>1, <2>2, <2>3
         DEF Next, vars, Deliver, Skip, TornRead, Close, SetNX, SetNXFails, KeepMaps
  <1> QED
    BY <1>1, <1>2, TypeCorrect, Remembers, PTL DEF Spec, HandledOnce, Abstract!Spec

-----------------------------------------------------------------------------
\* A refused delivery is the duplicate of one that is handled or is about to be
\* marked: deduplication alone never leaves a message without its reply.
THEOREM NoneLost == Spec => []RefusedWasHandled
  <1> DEFINE Inv == SeenWasHandled /\ KeyWentOn /\ RefusedWasHandled
  <1>1. Init => Inv
    BY DEF Init, SeenWasHandled, KeyWentOn, RefusedWasHandled
  <1>2. TypeOK /\ Inv /\ [Next]_vars => Inv'
    <2> SUFFICES ASSUME TypeOK, Inv, [Next]_vars PROVE Inv'
      OBVIOUS
    <2>1. ASSUME NEW d \in Deliveries, Deliver(d) \/ Skip(d) \/ TornRead(d) PROVE Inv'
      <3>1. /\ \E label \in {"reserve", "mark", "panicked"} : pc' = [pc EXCEPT ![d] = label]
            /\ pc[d] \in {"idle", "reserve"}
            /\ UNCHANGED <<redis, seen, msg>>
        BY <2>1 DEF Deliver, Skip, TornRead, Goto, KeepRedis, KeepMaps
      <3>2. /\ pc'[d] \notin {"handled", "refused"}
            /\ \A e \in Deliveries \ {d} : pc'[e] = pc[e]
        BY <3>1 DEF TypeOK
      <3>3. SeenWasHandled'
        BY <3>1, <3>2 DEF SeenWasHandled
      <3>4. KeyWentOn'
        BY <3>1, <3>2 DEF KeyWentOn
      <3>5. RefusedWasHandled'
        BY <3>1, <3>2 DEF RefusedWasHandled
      <3> QED
        BY <3>3, <3>4, <3>5
    <2>2. ASSUME NEW d \in Deliveries, SetNX(d) \/ SetNXFails(d) PROVE Inv'
      <3>1. /\ pc[d] = "reserve" /\ UNCHANGED <<seen, msg>>
            /\ \A e \in Deliveries \ {d} : pc'[e] = pc[e]
            /\ msg[d] \in Messages
        BY <2>2 DEF SetNX, SetNXFails, Goto, KeepMaps, TypeOK
      <3>2. /\ pc'[d] = "mark" \/ (pc'[d] = "refused" /\ redis[msg[d]] # 0)
            /\ \A m \in Messages \ {msg[d]} : redis'[m] = redis[m]
            /\ redis'[msg[d]] = redis[msg[d]] \/ pc'[d] = "mark"
        BY <2>2 DEF SetNX, SetNXFails, Goto, KeepMaps, TypeOK
      <3>3. SeenWasHandled'
        BY <3>1 DEF SeenWasHandled
      <3>4. KeyWentOn'
        BY <3>1, <3>2 DEF KeyWentOn
      <3>5. redis[msg[d]] # 0 => redis[msg[d]] > 0
        BY <3>1 DEF TypeOK
      <3>6. RefusedWasHandled'
        BY <3>1, <3>2, <3>5 DEF KeyWentOn, RefusedWasHandled
      <3> QED
        BY <3>3, <3>4, <3>6
    <2>3. ASSUME NEW d \in Deliveries, Mark(d) PROVE Inv'
      <3>1. /\ pc[d] = "mark" /\ UNCHANGED <<redis, msg>>
            /\ \A e \in Deliveries \ {d} : pc'[e] = pc[e]
            /\ at[d] \in Instances /\ msg[d] \in Messages
        BY <2>3 DEF Mark, Goto, KeepRedis, TypeOK
      \* Whatever Mark decides, the message has been handled when it is done.
      <3>2. \E e \in Deliveries : msg[e] = msg[d] /\ pc'[e] = "handled"
        <4>1. CASE seen[at[d]][msg[d]] \in 0..(Window - 1)
          <5>1. seen[at[d]][msg[d]] # Absent
            BY <4>1 DEF Absent
          <5> QED
            BY <3>1, <5>1 DEF SeenWasHandled
        <4>2. CASE seen[at[d]][msg[d]] \notin 0..(Window - 1)
          BY <2>3, <4>2 DEF Mark, Goto, TypeOK
        <4> QED
          BY <4>1, <4>2
      <3>3. \A i \in Instances, m \in Messages \ {msg[d]} :
               seen'[i][m] # Absent => seen[i][m] # Absent
        <4>1. CASE UNCHANGED seen
          BY <4>1
        <4> DEFINE s == Expire([seen[at[d]] EXCEPT ![msg[d]] = 0])
        <4>2. CASE seen' = [seen EXCEPT ![at[d]] = s]
          <5>1. \A m \in Messages \ {msg[d]} : s[m] \in {seen[at[d]][m], Absent}
            BY <3>1, MarkedMap
          <5> HIDE DEF s
          <5> QED
            BY <3>1, <4>2, <5>1 DEF TypeOK
        <4> QED
          BY <2>3, <4>1, <4>2 DEF Mark
      <3>4. SeenWasHandled'
        <4> SUFFICES ASSUME NEW i \in Instances, NEW m \in Messages, seen'[i][m] # Absent
                     PROVE  \E e \in Deliveries : msg'[e] = m /\ pc'[e] = "handled"
          BY DEF SeenWasHandled
        <4>1. CASE m = msg[d]
          BY <3>1, <3>2, <4>1
        <4>2. CASE m # msg[d]
          BY <3>1, <3>3, <4>2 DEF SeenWasHandled
        <4> QED
          BY <4>1, <4>2
      <3>5. KeyWentOn'
        BY <3>1, <3>2 DEF KeyWentOn
      <3>6. RefusedWasHandled'
        BY <3>1, <3>2 DEF RefusedWasHandled
      <3> QED
        BY <3>4, <3>5, <3>6
    <2>4. CASE Tick
      <3>1. UNCHANGED <<pc, msg>>
        BY <2>4 DEF Tick
      <3>2. \A i \in Instances, m \in Messages : seen'[i][m] # Absent => seen[i][m] # Absent
        BY <2>4 DEF Tick, Older
      <3>3. \A m \in Messages : redis'[m] > 0 => redis[m] > 0
        BY <2>4 DEF Tick, TypeOK
      <3>4. SeenWasHandled'
        BY <3>1, <3>2 DEF SeenWasHandled
      <3>5. KeyWentOn'
        BY <3>1, <3>3 DEF KeyWentOn
      <3>6. RefusedWasHandled'
        BY <3>1 DEF RefusedWasHandled
      <3> QED
        BY <3>4, <3>5, <3>6
    <2>5. ASSUME NEW i \in Instances, Close(i) PROVE Inv'
      BY <2>5 DEF Close, KeepMaps, SeenWasHandled, KeyWentOn, RefusedWasHandled
    <2>6. CASE UNCHANGED vars
      BY <2>6 DEF vars, SeenWasHandled, KeyWentOn, RefusedWasHandled
    <2> QED
      BY <2>1, <2>2, <2>3, <2>4, <2>5, <2>6 DEF Next
  <1> QED
    BY <1>1, <1>2, TypeCorrect, PTL DEF Spec

-----------------------------------------------------------------------------
(***************************************************************************)
(* Across the cluster the key in Redis outlives the window of every        *)
(* instance that handled the message, and a delivery on its way to the map *)
(* holds the key alone: nobody has handled the message in the window.      *)
(***************************************************************************)
Trusted(d) == pc[d] = "mark" /\ at[d] \in clients /\ msg[d] \notin doubted

KeyOutlives ==
    \A m \in Messages \ doubted, i \in clients : redis[m] + handled[i][m] >= Window
HoldsKey ==
    \A d \in Deliveries :
        Trusted(d) =>
            /\ redis[msg[d]] = Window
            /\ \A i \in clients : handled[i][msg[d]] = Window
HoldsAlone ==
    \A d, e \in Deliveries : Trusted(d) /\ Trusted(e) /\ msg[d] = msg[e] => d = e

ClusterInv == KeyOutlives /\ HoldsKey /\ HoldsAlone

LEMMA ClusterInvHolds == Spec => []ClusterInv
  <1>1. Init => ClusterInv
    BY DEF Init, ClusterInv, KeyOutlives, HoldsKey, HoldsAlone, Trusted
  <1>2. TypeOK /\ ClusterInv /\ [Next]_vars => ClusterInv'
    <2> SUFFICES ASSUME TypeOK, ClusterInv, [Next]_vars PROVE ClusterInv'
      OBVIOUS
    <2> USE DEF ClusterInv
    <2> clients \subseteq Instances
      BY DEF TypeOK
    <2>1. ASSUME NEW d \in Deliveries, Deliver(d) \/ Skip(d) \/ TornRead(d) PROVE ClusterInv'
      <3>1. /\ UNCHANGED <<redis, handled, at, msg, clients, doubted>>
            /\ \A e \in Deliveries : Trusted(e)' => Trusted(e)
        BY <2>1 DEF Deliver, Skip, TornRead, Goto, KeepRedis, KeepMaps, TypeOK, Trusted
      <3>2. KeyOutlives'
        BY <3>1 DEF KeyOutlives
      <3>3. HoldsKey'
        BY <3>1 DEF HoldsKey
      <3>4. HoldsAlone'
        BY <3>1 DEF HoldsAlone
      <3> QED
        BY <3>2, <3>3, <3>4
    <2>2. ASSUME NEW d \in Deliveries, SetNX(d) PROVE ClusterInv'
      <3>1. /\ UNCHANGED <<handled, at, msg, clients, doubted>>
            /\ \A e \in Deliveries \ {d} : Trusted(e)' = Trusted(e)
            /\ msg[d] \in Messages /\ at[d] \in clients
            /\ redis[msg[d]] \in Int
        BY <2>2 DEF SetNX, Goto, KeepMaps, TypeOK, Trusted
      <3>2. CASE redis[msg[d]] # 0
        <4>1. UNCHANGED redis /\ ~Trusted(d)'
          BY <2>2, <3>2 DEF SetNX, Goto, TypeOK, Trusted
        <4> QED
          BY <3>1, <4>1 DEF KeyOutlives, HoldsKey, HoldsAlone
      <3>3. CASE redis[msg[d]] = 0
        <4>1. /\ redis'[msg[d]] = Window
              /\ \A m \in Messages \ {msg[d]} : redis'[m] = redis[m]
          BY <2>2, <3>1, <3>3 DEF SetNX, TypeOK
        <4>2. \A i \in clients, m \in Messages : handled[i][m] \in 0..Window
          BY DEF TypeOK
        <4>3. \A e \in Deliveries \ {d} : Trusted(e) => msg[e] # msg[d]
          BY <3>3 DEF HoldsKey
        <4>4. KeyOutlives'
          BY <3>1, <4>1, <4>2 DEF KeyOutlives
        <4>5. msg[d] \notin doubted => \A i \in clients : handled[i][msg[d]] = Window
          BY <3>1, <3>3, <4>2 DEF KeyOutlives
        <4>6. Trusted(d)' => msg[d] \notin doubted
          BY <3>1 DEF Trusted
        <4>7. HoldsKey'
          <5> SUFFICES ASSUME NEW e \in Deliveries, Trusted(e)'
                       PROVE  /\ redis'[msg[e]] = Window
                              /\ \A i \in clients : handled[i][msg[e]] = Window
            BY <3>1 DEF HoldsKey
          <5>1. CASE e = d
            BY <4>1, <4>5, <4>6, <5>1
          <5>2. CASE e # d
            <6>1. Trusted(e) /\ msg[e] # msg[d] /\ msg[e] \in Messages
              BY <3>1, <4>3, <5>2 DEF TypeOK
            <6> QED
              BY <4>1, <6>1 DEF HoldsKey
          <5> QED
            BY <5>1, <5>2
        <4>8. HoldsAlone'
          BY <3>1, <4>3 DEF HoldsAlone
        <4> QED
          BY <4>4, <4>7, <4>8
      <3> QED
        BY <3>2, <3>3
    <2>3. ASSUME NEW d \in Deliveries, SetNXFails(d) PROVE ClusterInv'
      <3>1. /\ UNCHANGED <<handled, at, msg, clients>> /\ doubted' = doubted \cup {msg[d]}
            /\ \A e \in Deliveries : Trusted(e)' => Trusted(e) /\ msg[e] # msg[d]
        BY <2>3 DEF SetNXFails, Goto, KeepMaps, TypeOK, Trusted
      <3>2. \A m \in Messages \ {msg[d]} : redis'[m] = redis[m]
        BY <2>3 DEF SetNXFails, TypeOK
      <3>3. KeyOutlives'
        BY <3>1, <3>2 DEF KeyOutlives
      <3>4. HoldsKey'
        BY <3>1, <3>2 DEF HoldsKey, TypeOK
      <3>5. HoldsAlone'
        BY <3>1 DEF HoldsAlone
      <3> QED
        BY <3>3, <3>4, <3>5
    <2>4. ASSUME NEW d \in Deliveries, Mark(d) PROVE ClusterInv'
      <3>1. /\ pc[d] = "mark" /\ UNCHANGED <<redis, at, msg, clients, doubted>>
            /\ at[d] \in Instances /\ msg[d] \in Messages
            /\ ~Trusted(d)'
            /\ \A e \in Deliveries \ {d} : Trusted(e)' = Trusted(e)
        BY <2>4 DEF Mark, Goto, KeepRedis, TypeOK, Trusted
      <3>2. \A i \in Instances, m \in Messages :
               \/ handled'[i][m] = handled[i][m]
               \/ i = at[d] /\ m = msg[d] /\ handled'[i][m] = 0
        <4>1. CASE UNCHANGED handled
          BY <4>1
        <4>2. CASE handled' = [handled EXCEPT ![at[d]][msg[d]] = 0]
          BY <3>1, <4>2 DEF TypeOK
        <4> QED
          BY <2>4, <4>1, <4>2 DEF Mark
      <3>3. \A i \in clients, m \in Messages : redis[m] \in Int /\ handled[i][m] \in Int
        BY DEF TypeOK
      <3>4. KeyOutlives'
        <4> SUFFICES ASSUME NEW m \in Messages \ doubted, NEW i \in clients
                     PROVE  redis[m] + handled'[i][m] >= Window
          BY <3>1 DEF KeyOutlives
        <4>1. CASE handled'[i][m] = handled[i][m]
          BY <4>1 DEF KeyOutlives
        <4>2. CASE i = at[d] /\ m = msg[d] /\ handled'[i][m] = 0
          <5>1. Trusted(d)
            BY <3>1, <4>2 DEF Trusted
          <5> QED
            BY <4>2, <5>1 DEF HoldsKey
        <4> QED
          BY <3>2, <4>1, <4>2
      <3>5. HoldsKey'
        <4> SUFFICES ASSUME NEW e \in Deliveries, Trusted(e)'
                     PROVE  /\ redis[msg[e]] = Window
                            /\ \A i \in clients : handled'[i][msg[e]] = Window
          BY <3>1 DEF HoldsKey
        <4>1. e # d /\ Trusted(e) /\ msg[e] \in Messages
          BY <3>1 DEF TypeOK
        <4>2. ASSUME NEW i \in clients PROVE handled'[i][msg[e]] = handled[i][msg[e]]
          <5>1. CASE i = at[d] /\ msg[e] = msg[d]
            <6>1. Trusted(d)
              BY <3>1, <4>1, <5>1 DEF Trusted
            <6> QED
              BY <4>1, <5>1, <6>1 DEF HoldsAlone
          <5> QED
            BY <3>2, <4>1, <5>1
        <4> QED
          BY <4>1, <4>2 DEF HoldsKey
      <3>6. HoldsAlone'
        BY <3>1 DEF HoldsAlone
      <3> QED
        BY <3>4, <3>5, <3>6
    <2>5. CASE Tick
      <3>1. /\ UNCHANGED <<pc, at, msg, clients, doubted>>
            /\ \A e \in Deliveries : ~Trusted(e)'
        BY <2>5 DEF Tick, Trusted
      <3>2. KeyOutlives'
        <4> SUFFICES ASSUME NEW m \in Messages \ doubted, NEW i \in clients
                     PROVE  redis'[m] + handled'[i][m] >= Window
          BY <3>1 DEF KeyOutlives
        <4>1. redis[m] \in 0..Window /\ handled[i][m] \in 0..Window
          BY DEF TypeOK
        <4>2. redis'[m] = IF redis[m] = 0 THEN 0 ELSE redis[m] - 1
          BY <2>5 DEF Tick
        <4>3. handled'[i][m] = Older(handled[i][m])
          BY <2>5 DEF Tick
        <4>4. redis[m] + handled[i][m] >= Window
          BY DEF KeyOutlives
        <4> QED
          BY <4>1, <4>2, <4>3, <4>4 DEF Older, Absent
      <3> QED
        BY <3>1, <3>2 DEF HoldsKey, HoldsAlone
    <2>6. ASSUME NEW i \in Instances, Close(i) PROVE ClusterInv'
      <3>1. /\ UNCHANGED <<redis, handled, at, msg, doubted>> /\ clients' \subseteq clients
            /\ \A e \in Deliveries : Trusted(e)' => Trusted(e)
        BY <2>6 DEF Close, KeepMaps, Trusted
      <3>2. KeyOutlives'
        BY <3>1 DEF KeyOutlives
      <3>3. HoldsKey'
        BY <3>1 DEF HoldsKey
      <3>4. HoldsAlone'
        BY <3>1 DEF HoldsAlone
      <3> QED
        BY <3>2, <3>3, <3>4
    <2>7. CASE UNCHANGED vars
      BY <2>7 DEF vars, KeyOutlives, HoldsKey, HoldsAlone, Trusted
    <2> QED
      BY <2>1, <2>2, <2>3, <2>4, <2>5, <2>6, <2>7 DEF Next
  <1> QED
    BY <1>1, <1>2, TypeCorrect, PTL DEF Spec

\* Two instances that share Redis never both handle a message within the window,
\* unless a Redis call about it failed.
THEOREM ClusterOnce == Spec => HandledOnceInCluster
  <1>1. ClusterInv =>
          [\A d \in Deliveries :
              (pc[d] = "mark" /\ pc'[d] = "handled" /\ at[d] \in clients
                  /\ msg[d] \notin doubted)
              => \A i \in clients : handled[i][msg[d]] = Window]_vars
    BY DEF ClusterInv, HoldsKey, Trusted
  <1> QED
    BY <1>1, ClusterInvHolds, PTL DEF HandledOnceInCluster
=============================================================================
