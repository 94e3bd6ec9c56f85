----------------------- MODULE ChannelRegistryProofs -----------------------
(***************************************************************************)
(* Proofs about ChannelRegistry for every set of threads and tasks, with   *)
(* and without failures of init().  OnePerTask is not inductive alone:     *)
(* what keeps two threads apart while neither holds the lock is the claim  *)
(* in g_creating_task (Claimed).  OwnLists, and that no entry dangles      *)
(* (TypeOK), rest on the fate of a deleted channel: it leaves the table first, then every map, and only then its   *)
(* address is free again (Placed).                                         *)
(***************************************************************************)
EXTENDS ChannelRegistry, TLAPS

Claimed ==
  /\ \A th \in Thread : pc[th] = "init" => task[th] \in g_creating_task
  /\ \A t \in g_creating_task : Registered(t) = {}

IInv == TypeOK /\ OnePerTask /\ Claimed

Placed ==
  /\ \A c, d \in live : At(c) = At(d) => c = d
  /\ \A c \in Channel, t \in Task : <<c, t>> \in g_channel2task =>
       /\ \A u \in Task : <<c, u>> \in g_channel2task => u = t
       /\ \A th \in Thread : pc[th] = "delete" => handle[th] # c
  /\ \A th \in Thread : pc[th] # "delete" => cleared[th] = 0
  /\ \A th \in Thread : pc[th] = "delete" =>
       /\ handle[th] \in live
       /\ \A i \in 1..cleared[th] : handle[th] \notin node_map[i]
       /\ \A oth \in Thread :
            pc[oth] = "delete" /\ handle[oth] = handle[th] => oth = th

(* Every step keeps types, the uniqueness of channels and the claims.      *)
LEMMA Inductive ==
  IInv /\ Placed /\ [Next]_vars => IInv'
<1> SUFFICES ASSUME IInv, Placed, [Next]_vars PROVE IInv'
  OBVIOUS
<1> USE DEF IInv, TypeOK, OnePerTask, Claimed, Registered, Channel, memory
<1>1. CASE UNCHANGED vars
  BY <1>1 DEF vars
<1>2. ASSUME NEW th \in Thread, NEW t \in Task, CreateCall(th, t) PROVE IInv'
  BY <1>2, MaxCallsAssumption DEF CreateCall
<1>3. ASSUME NEW th \in Thread, Lookup(th) PROVE IInv'
  <2> HIDE DEF IInv, TypeOK, OnePerTask, Claimed, Registered, Channel, memory
  <2>1. /\ UNCHANGED <<task, g_channel2task, created, calls, failed>>
        /\ UNCHANGED <<live, node_map, cleared>> /\ Channel' = Channel
        /\ \A t : Registered(t)' = Registered(t)
        /\ task[th] \notin g_creating_task /\ task[th] \in Task
    BY <1>3 DEF Lookup, Registered, IInv, TypeOK, Channel, memory
  <2>2. ASSUME NEW c \in Registered(task[th]),
               handle' = [handle EXCEPT ![th] = c],
               pc' = [pc EXCEPT ![th] = "have"], UNCHANGED g_creating_task
        PROVE  IInv'
    <3>1. c \in Channel
      BY DEF Registered, IInv, TypeOK
    <3>2. TypeOK'
      BY <2>1, <2>2, <3>1 DEF IInv, TypeOK
    <3>3. \A oth \in Thread : pc'[oth] = "init" => pc[oth] = "init"
      BY <2>2 DEF IInv, TypeOK
    <3>4. OnePerTask'
      BY <2>1, <3>3 DEF IInv, OnePerTask
    <3>5. Claimed'
      BY <2>1, <2>2, <3>3 DEF IInv, Claimed
    <3> QED BY <3>2, <3>4, <3>5 DEF IInv
  <2>3. ASSUME Registered(task[th]) = {},
               g_creating_task' = g_creating_task \cup {task[th]},
               pc' = [pc EXCEPT ![th] = "init"], UNCHANGED handle
        PROVE  IInv'
    <3>1. TypeOK'
      BY <2>1, <2>3 DEF IInv, TypeOK
    <3>2. \A oth \in Thread : pc'[oth] = "init" <=> (oth = th \/ pc[oth] = "init")
      BY <2>3 DEF IInv, TypeOK
    <3>3. \A oth \in Thread : pc[oth] = "init" => task[oth] # task[th]
      BY <2>1 DEF IInv, Claimed
    <3>4. OnePerTask'
      BY <2>1, <2>3, <3>2, <3>3 DEF IInv, OnePerTask
    <3>5. Claimed'
      BY <2>1, <2>3, <3>2 DEF IInv, Claimed
    <3> QED BY <3>1, <3>4, <3>5 DEF IInv
  <2> QED BY <1>3, <2>2, <2>3 DEF Lookup
<1>4. ASSUME NEW th \in Thread, NewChannel(th) PROVE IInv'
  <2>0. PICK a \in Address : /\ Publish(th, <<a, created + 1>>)
                             /\ a \notin { At(d) : d \in live }
    BY <1>4 DEF NewChannel
  <2> DEFINE n == created + 1
             c == <<a, n>>
             t == task[th]
  <2>1. /\ created' = n /\ created \in Nat /\ UNCHANGED <<calls, task, failed>>
        /\ UNCHANGED <<node_map, cleared>> /\ live' = live \cup {c}
        /\ g_channel2task' = g_channel2task \cup {<<c, t>>}
        /\ g_creating_task' = g_creating_task \ {t}
        /\ handle' = [handle EXCEPT ![th] = c]
        /\ pc' = [pc EXCEPT ![th] = "have"] /\ pc[th] = "init"
    BY <2>0 DEF Publish
  <2>2. /\ Channel \subseteq Channel' /\ c \in Channel' /\ c \notin Channel
        /\ \A d \in Channel' : d \in Channel \/ d[2] = n
    BY <2>1
  <2>3. TypeOK'
    <3> HIDE DEF Channel, c
    <3> QED BY <2>1, <2>2
  <2> HIDE DEF Channel, c
  <2>4. \A d \in Channel', u \in Task :
          <<d, u>> \in g_channel2task' <=> (<<d, u>> \in g_channel2task /\ d \in Channel)
                                             \/ (d = c /\ u = t)
    BY <2>1, <2>2
  <2>5. t \in Task /\ t \in g_creating_task /\ Registered(t) = {}
    BY <2>1
  <2>6. \A oth \in Thread : pc'[oth] = "init" => pc[oth] = "init" /\ task[oth] # t
    BY <2>1
  <2>7. \A u \in Task, d, e \in Channel' :
          <<d, u>> \in g_channel2task' /\ <<e, u>> \in g_channel2task' => d = e
    BY <2>4, <2>5
  <2>8. \A u \in Task : u # t => Registered(u)' = Registered(u)
    BY <2>2, <2>4
  <2>9. OnePerTask'
    BY <2>1, <2>6, <2>7, <2>8
  <2>10. Claimed'
    BY <2>1, <2>6, <2>8
  <2> QED BY <2>3, <2>9, <2>10
<1>5. ASSUME NEW th \in Thread, InitFails(th) PROVE IInv'
  BY <1>5 DEF InitFails
<1>6. ASSUME NEW th \in Thread, NEW i \in 1..NLists, GetNodeIDs(th, i) PROVE IInv'
  <2>1. handle[th] \in live
    BY <1>6 DEF GetNodeIDs, Held
  <2> HIDE DEF Channel
  <2>2. node_map' \in [1..NLists -> SUBSET live]
    BY <1>6, <2>1 DEF GetNodeIDs
  <2>3. Channel' = Channel
    BY <1>6 DEF GetNodeIDs, Channel
  <2> QED BY <1>6, <2>2, <2>3 DEF GetNodeIDs
<1>7. ASSUME NEW th \in Thread, Unregister(th) PROVE IInv'
  BY <1>7 DEF Unregister, Held
<1>8. ASSUME NEW th \in Thread, DestroyNodes(th) PROVE IInv'
  BY <1>8, NListsAssumption DEF DestroyNodes, Kept
<1>9. ASSUME NEW th \in Thread, Delete(th) PROVE IInv'
  <2> DEFINE c == handle[th]
  <2>1. /\ UNCHANGED <<task, g_channel2task, g_creating_task, created, calls, failed>>
        /\ UNCHANGED node_map /\ live' = live \ {c} /\ Channel' = Channel
        /\ handle' = [handle EXCEPT ![th] = nullptr]
        /\ pc' = [pc EXCEPT ![th] = "idle"] /\ cleared' = [cleared EXCEPT ![th] = 0]
        /\ pc[th] = "delete" /\ cleared[th] = NLists
    BY <1>9 DEF Delete
  <2>2. \A i \in 1..NLists : c \notin node_map[i]
    BY <2>1 DEF Placed
  <2>3. node_map' \in [1..NLists -> SUBSET live']
    BY <2>1, <2>2
  <2>4. \A t \in Task : <<c, t>> \notin g_channel2task
    BY <2>1 DEF Placed
  <2>5. g_channel2task' \subseteq live' \X Task
    BY <2>1, <2>4
  <2> QED BY <2>1, <2>3, <2>5, NListsAssumption
<1>10. ASSUME NEW th \in Thread, Forget(th) PROVE IInv'
  BY <1>10 DEF Forget
<1> QED BY <1>1, <1>2, <1>3, <1>4, <1>5, <1>6, <1>7, <1>8, <1>9, <1>10 DEF Next

(* Every step keeps the fate of a channel: in the table, in the maps,      *)
(* allocated, in this order until it is deleted.                           *)
LEMMA PlacedInductive ==
  TypeOK /\ Placed /\ [Next]_vars => Placed'
<1> SUFFICES ASSUME TypeOK, Placed, [Next]_vars PROVE Placed'
  OBVIOUS
<1> USE NListsAssumption DEF TypeOK, Placed, memory
<1>1. CASE UNCHANGED vars
  BY <1>1 DEF vars, Channel
<1>2. ASSUME NEW th \in Thread, NEW t \in Task, CreateCall(th, t) PROVE Placed'
  BY <1>2 DEF CreateCall, Channel
<1>3. ASSUME NEW th \in Thread, Lookup(th) PROVE Placed'
  <2>1. \A oth \in Thread : pc'[oth] = "delete" =>
          pc[oth] = "delete" /\ handle'[oth] = handle[oth]
    BY <1>3 DEF Lookup
  <2>3. \A oth \in Thread : pc'[oth] # "delete" => pc[oth] # "delete"
    BY <1>3 DEF Lookup
  <2>2. UNCHANGED <<g_channel2task, live, node_map, cleared>> /\ Channel' = Channel
    BY <1>3 DEF Lookup, Channel
  <2> HIDE DEF TypeOK
  <2> QED BY <2>1, <2>2, <2>3
<1>4. ASSUME NEW th \in Thread, NewChannel(th) PROVE Placed'
  <2>0. PICK a \in Address : /\ Publish(th, <<a, created + 1>>)
                             /\ a \notin { At(d) : d \in live }
    BY <1>4 DEF NewChannel
  <2> DEFINE c == <<a, created + 1>>
  <2>1. /\ UNCHANGED <<task, node_map, cleared>> /\ live' = live \cup {c}
        /\ g_channel2task' = g_channel2task \cup {<<c, task[th]>>}
        /\ handle' = [handle EXCEPT ![th] = c]
        /\ pc' = [pc EXCEPT ![th] = "have"]
    BY <2>0 DEF Publish
  <2>2. c \notin Channel /\ At(c) = a
    BY DEF Channel, At
  <2> HIDE DEF c
  <2>3. \A d, e \in live' : At(d) = At(e) => d = e
    BY <2>0, <2>1, <2>2
  <2>5. \A oth \in Thread : pc'[oth] = "delete" =>
          oth # th /\ pc[oth] = "delete" /\ handle'[oth] = handle[oth]
    BY <2>1
  <2>6. \A d \in Channel', t \in Task : <<d, t>> \in g_channel2task' =>
          \/ d = c /\ t = task[th]
          \/ d \in Channel /\ <<d, t>> \in g_channel2task
    BY <2>1
  <2>7. \A oth \in Thread : pc[oth] = "delete" => handle[oth] \in Channel
    OBVIOUS
  <2>8. \A d \in Channel', t \in Task : <<d, t>> \in g_channel2task' =>
          /\ \A u \in Task : <<d, u>> \in g_channel2task' => u = t
          /\ \A oth \in Thread : pc'[oth] = "delete" => handle'[oth] # d
    BY <2>1, <2>2, <2>5, <2>6, <2>7
  <2>9. \A oth \in Thread : pc'[oth] = "delete" =>
          /\ handle'[oth] \in live'
          /\ \A i \in 1..cleared'[oth] : handle'[oth] \notin node_map'[i]
          /\ \A x \in Thread :
               pc'[x] = "delete" /\ handle'[x] = handle'[oth] => x = oth
    BY <2>1, <2>5
  <2>10. \A oth \in Thread : pc'[oth] # "delete" => cleared'[oth] = 0
    BY <2>0, <2>1 DEF Publish
  <2> QED BY <2>3, <2>8, <2>9, <2>10
<1>5. ASSUME NEW th \in Thread, InitFails(th) PROVE Placed'
  BY <1>5 DEF InitFails, Channel
<1>6. ASSUME NEW th \in Thread, NEW i \in 1..NLists, GetNodeIDs(th, i) PROVE Placed'
  BY <1>6 DEF GetNodeIDs, Held, Channel
<1>7. ASSUME NEW th \in Thread, Unregister(th) PROVE Placed'
  <2> DEFINE c == handle[th]
  <2>1. /\ UNCHANGED <<handle, live, node_map, cleared>> /\ Channel' = Channel
        /\ pc' = [pc EXCEPT ![th] = "delete"]
        /\ g_channel2task' = g_channel2task \ {<<c, task[th]>>}
        /\ c \in Channel /\ task[th] \in Task /\ <<c, task[th]>> \in g_channel2task
    BY <1>7 DEF Unregister, Held, Channel
  <2>2. \A oth \in Thread : pc'[oth] = "delete" <=> oth = th \/ pc[oth] = "delete"
    BY <2>1
  <2>3. \A oth \in Thread : pc[oth] = "delete" => handle[oth] # c
    BY <2>1
  <2>4. c \in live /\ \A t \in Task : <<c, t>> \notin g_channel2task'
    BY <2>1
  <2>5. cleared[th] = 0
    BY <1>7 DEF Unregister, Held
  <2>6. \A d \in Channel, t \in Task : <<d, t>> \in g_channel2task' =>
          /\ d # c
          /\ \A u \in Task : <<d, u>> \in g_channel2task' => u = t
          /\ \A oth \in Thread : pc[oth] = "delete" => handle[oth] # d
    BY <2>1, <2>4
  <2>7. \A oth \in Thread : pc'[oth] = "delete" =>
          /\ handle[oth] \in live
          /\ \A i \in 1..cleared[oth] : handle[oth] \notin node_map[i]
          /\ \A x \in Thread : pc'[x] = "delete" /\ handle[x] = handle[oth] => x = oth
    BY <2>2, <2>3, <2>4, <2>5
  <2> HIDE DEF TypeOK
  <2> QED BY <2>1, <2>2, <2>6, <2>7
<1>8. ASSUME NEW th \in Thread, DestroyNodes(th) PROVE Placed'
  BY <1>8 DEF DestroyNodes, Kept, Channel
<1>9. ASSUME NEW th \in Thread, Delete(th) PROVE Placed'
  BY <1>9 DEF Delete, Channel
<1>10. ASSUME NEW th \in Thread, Forget(th) PROVE Placed'
  BY <1>10 DEF Forget, Channel
<1> QED BY <1>1, <1>2, <1>3, <1>4, <1>5, <1>6, <1>7, <1>8, <1>9, <1>10 DEF Next

(* What every reachable state satisfies.                                   *)
THEOREM SpecInv == Spec => [](IInv /\ Placed)
<1>1. Init => IInv /\ Placed
  BY MaxCallsAssumption, NListsAssumption
     DEF Init, IInv, TypeOK, OnePerTask, Claimed, Placed, Registered, Channel
<1>2. IInv => TypeOK
  BY DEF IInv
<1> QED BY <1>1, <1>2, Inductive, PlacedInductive, PTL DEF Spec

(* Type correctness.                                                       *)
THEOREM TypeCorrect == Spec => []TypeOK
<1>1. IInv => TypeOK
  BY DEF IInv
<1> QED BY <1>1, SpecInv, PTL

(* However CreateInternalChannel and DestroyInternalChannel interleave,    *)
(* and whether or not init() fails, a task id never has two channels in    *)
(* the table, nor one in the table and one being brought up.               *)
THEOREM OnePerTaskAlways == Spec => []OnePerTask
<1>1. IInv => OnePerTask
  BY DEF IInv
<1> QED BY <1>1, SpecInv, PTL

(* Whatever address the allocator gives a new channel, the getters never   *)
(* hand out the list of a channel that was deleted there.                  *)
THEOREM OwnListsAlways == Spec => []OwnLists
<1>1. IInv /\ Placed => OwnLists
  <2> SUFFICES ASSUME IInv, Placed, NEW th \in Thread, Held(th),
                      NEW i \in 1..NLists, NEW d \in Kept(i, handle[th])
               PROVE  d = handle[th]
    BY DEF OwnLists
  <2>1. handle[th] \in live
    BY DEF IInv, TypeOK, Held
  <2>2. d \in live /\ At(d) = At(handle[th])
    BY DEF IInv, TypeOK, Kept
  <2> QED BY <2>1, <2>2 DEF Placed
<1> QED BY <1>1, SpecInv, PTL
=============================================================================
