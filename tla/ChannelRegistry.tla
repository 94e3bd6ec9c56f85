--------------------------- MODULE ChannelRegistry ---------------------------
(***************************************************************************)
(* The table of channels of one process (channel.cpp): application threads *)
(* create and destroy channels by task id.  g_channel2task_mtx makes the   *)
(* look-up and the two updates of the table atomic; net_io->init() and the *)
(* destruction of a channel run outside it.  The wait on g_channel2task_cv *)
(* is for a change that is always made under the mutex, with a notify_all, *)
(* so a guard says the same.                                               *)
(*                                                                         *)
(* A handle is returned to every thread that asks for its task, and the    *)
(* first DestroyInternalChannel deletes the channel: passing it to         *)
(* DestroyInternalChannel or to a getter once more is undefined (the       *)
(* iterator is dereferenced unchecked), so the model's threads do not.     *)
(*                                                                         *)
(* The getters keep the lists they hand out in one map per getter, keyed   *)
(* by the address of the channel and guarded by a mutex of its own.  A     *)
(* channel is its address and a serial number that tells it from earlier   *)
(* channels at that address, because the allocator may reuse an address    *)
(* as soon as the channel that had it is deleted.                          *)
(***************************************************************************)
EXTENDS Naturals

CONSTANTS Thread, Task,
          MaxCalls,       \* bound: calls of CreateInternalChannel in all
          InitMayFail,    \* whether net_io->init() may return false
          Address,        \* where the allocator may put a channel
          NLists,         \* the number of getters that keep a list: 5 in the code
          nullptr         \* no channel

ASSUME MaxCallsAssumption == MaxCalls \in Nat
ASSUME InitMayFailAssumption == InitMayFail \in BOOLEAN
ASSUME NListsAssumption == NLists \in Nat

VARIABLES
  pc,                \* per thread: "idle", "wait", "init", "have" or "delete"
  task,              \* per thread: the task id of its call
  handle,            \* per thread: the channel it got, or nullptr
  g_channel2task,    \* the table: {<<channel, task id>>}
  g_creating_task,   \* the ids being created
  created, calls,    \* channels created, calls made so far
  failed,            \* history: the ids whose init() has failed
  live,              \* the channels that are allocated
  node_map,          \* per getter: the channels it keeps a list of
  cleared            \* per thread: how many maps its destruction has cleared

vars == <<pc, task, handle, g_channel2task, g_creating_task, created, calls,
          failed, live, node_map, cleared>>

memory == <<live, node_map, cleared>>

Init ==
  /\ pc = [th \in Thread |-> "idle"]
  /\ task \in [Thread -> Task]
  /\ handle = [th \in Thread |-> nullptr]
  /\ g_channel2task = {}
  /\ g_creating_task = {}
  /\ created = 0 /\ calls = 0 /\ failed = {}
  /\ live = {}
  /\ node_map = [i \in 1..NLists |-> {}]
  /\ cleared = [th \in Thread |-> 0]

At(c) == c[1]

Channel == Address \X (1..created)

Registered(t) == { c \in Channel : <<c, t>> \in g_channel2task }
-----------------------------------------------------------------------------
(* CreateInternalChannel(task_id, ...).                                    *)

CreateCall(th, t) ==
  /\ pc[th] = "idle" /\ calls < MaxCalls
  /\ calls' = calls + 1
  /\ pc' = [pc EXCEPT ![th] = "wait"]
  /\ task' = [task EXCEPT ![th] = t]
  /\ UNCHANGED <<handle, g_channel2task, g_creating_task, created, failed>>
  /\ UNCHANGED memory

\* Bug: the id is not marked as being created
LookupUnmarked(th) ==
  /\ pc[th] = "wait"
  /\ \/ \E c \in Registered(task[th]) :
          /\ handle' = [handle EXCEPT ![th] = c]
          /\ pc' = [pc EXCEPT ![th] = "have"]
     \/ /\ Registered(task[th]) = {}
        /\ pc' = [pc EXCEPT ![th] = "init"]
        /\ UNCHANGED handle
  /\ UNCHANGED <<task, g_channel2task, g_creating_task, created, calls, failed>>
  /\ UNCHANGED memory

\* wait until nobody creates this id, then reuse its channel or claim it
Lookup(th) ==
  /\ pc[th] = "wait"
  /\ task[th] \notin g_creating_task
  /\ \/ \E c \in Registered(task[th]) :
          /\ handle' = [handle EXCEPT ![th] = c]
          /\ pc' = [pc EXCEPT ![th] = "have"]
          /\ UNCHANGED g_creating_task
     \/ /\ Registered(task[th]) = {}
        /\ g_creating_task' = g_creating_task \cup {task[th]}
        /\ pc' = [pc EXCEPT ![th] = "init"]
        /\ UNCHANGED handle
  /\ UNCHANGED <<task, g_channel2task, created, calls, failed>>
  /\ UNCHANGED memory

\* Bug: the id stays claimed
PublishClaimed(th, c) ==
  /\ pc[th] = "init"
  /\ created' = created + 1
  /\ live' = live \cup {c}
  /\ g_channel2task' = g_channel2task \cup {<<c, task[th]>>}
  /\ handle' = [handle EXCEPT ![th] = c]
  /\ pc' = [pc EXCEPT ![th] = "have"]
  /\ UNCHANGED <<task, g_creating_task, calls, failed, node_map, cleared>>

\* init() succeeded: the channel enters the table and the claim is dropped
Publish(th, c) ==
  /\ pc[th] = "init"
  /\ created' = created + 1
  /\ live' = live \cup {c}
  /\ g_channel2task' = g_channel2task \cup {<<c, task[th]>>}
  /\ g_creating_task' = g_creating_task \ {task[th]}
  /\ handle' = [handle EXCEPT ![th] = c]
  /\ pc' = [pc EXCEPT ![th] = "have"]
  /\ UNCHANGED <<task, calls, failed, node_map, cleared>>

\* new TCPChannel: the allocator returns an address nothing occupies
NewChannel(th) == \E a \in Address \ { At(c) : c \in live } :
  Publish(th, <<a, created + 1>>)

\* init() failed: nullptr is returned, the claim is not dropped
InitFails(th) ==
  /\ InitMayFail
  /\ pc[th] = "init"
  /\ handle' = [handle EXCEPT ![th] = nullptr]
  /\ pc' = [pc EXCEPT ![th] = "idle"]
  /\ failed' = failed \cup {task[th]}
  /\ UNCHANGED <<task, g_channel2task, g_creating_task, created, calls>>
  /\ UNCHANGED memory
-----------------------------------------------------------------------------
(* TCPChannel::GetCurrentNodeID, GetDataNodeIDs, GetComputationNodeIDs,    *)
(* GetResultNodeIDs and GetConnectedNodeIDs: getter i encodes the list on  *)
(* the first call and hands out what its map has at this address later.    *)

Held(th) == pc[th] = "have" /\ <<handle[th], task[th]>> \in g_channel2task

Kept(i, c) == { d \in node_map[i] : At(d) = At(c) }

GetNodeIDs(th, i) ==
  /\ Held(th)
  /\ Kept(i, handle[th]) = {}
  /\ node_map' = [node_map EXCEPT ![i] = @ \cup {handle[th]}]
  /\ UNCHANGED <<pc, task, handle, g_channel2task, g_creating_task, created,
                 calls, failed, live, cleared>>
-----------------------------------------------------------------------------
(* DestroyInternalChannel(channel).                                        *)

\* Bug: the channel stays in the table while it is destroyed
UnregisterKeeps(th) ==
  /\ Held(th)
  /\ pc' = [pc EXCEPT ![th] = "delete"]
  /\ UNCHANGED <<task, handle, g_channel2task, g_creating_task, created, calls, failed>>
  /\ UNCHANGED memory

Unregister(th) ==
  /\ Held(th)
  /\ g_channel2task' = g_channel2task \ {<<handle[th], task[th]>>}
  /\ pc' = [pc EXCEPT ![th] = "delete"]
  /\ UNCHANGED <<task, handle, g_creating_task, created, calls, failed>>
  /\ UNCHANGED memory

\* DestroyCurrentNode to DestroyConnectedNodes, one after the other
DestroyNodes(th) ==
  /\ pc[th] = "delete" /\ cleared[th] < NLists
  /\ cleared' = [cleared EXCEPT ![th] = @ + 1]
  /\ node_map' = [node_map EXCEPT
                    ![cleared[th] + 1] = @ \ Kept(cleared[th] + 1, handle[th])]
  /\ UNCHANGED <<pc, task, handle, g_channel2task, g_creating_task, created,
                 calls, failed, live>>

\* Bug: the last list is left behind
DeleteEarly(th) ==
  /\ pc[th] = "delete" /\ cleared[th] + 1 >= NLists
  /\ live' = live \ {handle[th]}
  /\ handle' = [handle EXCEPT ![th] = nullptr]
  /\ pc' = [pc EXCEPT ![th] = "idle"]
  /\ cleared' = [cleared EXCEPT ![th] = 0]
  /\ UNCHANGED <<task, g_channel2task, g_creating_task, created, calls, failed,
                 node_map>>

\* delete channel: its BasicIO is closed
Delete(th) ==
  /\ pc[th] = "delete" /\ cleared[th] = NLists
  /\ live' = live \ {handle[th]}
  /\ handle' = [handle EXCEPT ![th] = nullptr]
  /\ pc' = [pc EXCEPT ![th] = "idle"]
  /\ cleared' = [cleared EXCEPT ![th] = 0]
  /\ UNCHANGED <<task, g_channel2task, g_creating_task, created, calls, failed,
                 node_map>>

\* a thread drops its handle and leaves the channel to the others
Forget(th) ==
  /\ pc[th] = "have"
  /\ handle' = [handle EXCEPT ![th] = nullptr]
  /\ pc' = [pc EXCEPT ![th] = "idle"]
  /\ UNCHANGED <<task, g_channel2task, g_creating_task, created, calls, failed>>
  /\ UNCHANGED memory

Next == \E th \in Thread :
  \/ \E t \in Task : CreateCall(th, t)
  \/ Lookup(th) \/ NewChannel(th) \/ InitFails(th)
  \/ \E i \in 1..NLists : GetNodeIDs(th, i)
  \/ Unregister(th) \/ DestroyNodes(th) \/ Delete(th) \/ Forget(th)

Spec == Init /\ [][Next]_vars

(* A call that can go on goes on; net_io->init() ends.  Nothing is assumed *)
(* of the calls the application makes.                                     *)
Fairness == \A th \in Thread :
  /\ WF_vars(Lookup(th)) /\ WF_vars(NewChannel(th) \/ InitFails(th))
  /\ WF_vars(DestroyNodes(th) \/ Delete(th))

FairSpec == Spec /\ Fairness
-----------------------------------------------------------------------------
(* Besides the types: the table and the getters' maps hold only channels   *)
(* that are allocated, so CreateInternalChannel never hands out a dangling *)
(* pointer although DestroyInternalChannel deletes outside the lock.       *)
TypeOK ==
  /\ pc \in [Thread -> {"idle", "wait", "init", "have", "delete"}]
  /\ task \in [Thread -> Task]
  /\ handle \in [Thread -> Channel \cup {nullptr}]
  /\ g_channel2task \subseteq live \X Task
  /\ g_creating_task \subseteq Task
  /\ created \in Nat /\ calls \in 0..MaxCalls /\ failed \subseteq Task
  /\ live \subseteq Channel
  /\ node_map \in [1..NLists -> SUBSET live]
  /\ cleared \in [Thread -> 0..NLists]

(* One channel per task id: no two threads bring up the same task at the   *)
(* same time, and none brings one up while the table has it, although      *)
(* init() runs without the lock.                                           *)
OnePerTask ==
  /\ \A th, oth \in Thread :
       pc[th] = "init" /\ pc[oth] = "init" /\ task[th] = task[oth] => th = oth
  /\ \A th \in Thread : pc[th] = "init" => Registered(task[th]) = {}
  /\ \A t \in Task, c, d \in Channel :
       <<c, t>> \in g_channel2task /\ <<d, t>> \in g_channel2task => c = d

(* What a getter has kept at the address of a channel in use is the list   *)
(* of that channel: never a list made for a deleted channel whose address  *)
(* it was given, although the maps are cleared after the channel has left  *)
(* the table and while other threads create and read channels.             *)
OwnLists == \A th \in Thread : Held(th) =>
  \A i \in 1..NLists : Kept(i, handle[th]) \subseteq {handle[th]}

(* CreateInternalChannel returns, with a channel or with nullptr.          *)
CreateReturns == \A th \in Thread :
  pc[th] = "wait" ~> pc[th] \notin {"wait", "init"}

(* What keeps a call from returning is only ever a failed init() of the    *)
(* same task: no wake-up is lost, and no order of creations and            *)
(* destructions leaves an id claimed.                                      *)
CreateReturnsUnlessFailed == \A th \in Thread :
  pc[th] = "wait" ~> pc[th] \notin {"wait", "init"} \/ task[th] \in failed
=============================================================================
