-------------------------- MODULE TCPServerProofs --------------------------
(***************************************************************************)
(* Proofs about TCPServer for every set of tasks and clients.  The sockets *)
(* are closed by a task that saw task_count_ = 1; NoUseAfterClose needs    *)
(* that the counter is not smaller than the number of tasks that have a    *)
(* loop thread, hold a connection or are about to get one (Counted, Owned, *)
(* Finding).                                                               *)
(***************************************************************************)
EXTENDS TCPServer, FiniteSetTheorems, TLAPS

\* the tasks start() counted and stop() has not; a failed start() stays
Begun == { t \in Task : caller[t] \notin {"new", "stopped"} }

Counted == task_count_ = Cardinality(Begun)

\* loop threads and connections belong to tasks in use
Owned == \A t \in Task :
  /\ loop_thread_[t] \notin {"none", "exited"} =>
       caller[t] \in {"start", "up", "stop_notify", "stop_join"}
  /\ server_connections_[t] # {} => InUse(t)

\* a thread in find_connection has found a client its task does not have yet
Finding == \A t \in Task, c \in Client : connections_mtx_ = <<t, c>> =>
  /\ caller[t] = "start" /\ c \in connections_
  /\ c \in Expected[t] \ server_connections_[t]

SInv == OneLoop /\ Owned /\ Finding /\ NoUseAfterClose
IInv == TypeOK /\ Counted /\ SInv
-----------------------------------------------------------------------------
(* The size of the set of counted tasks when one joins or leaves.          *)
LEMMA Sizes ==
  /\ IsFiniteSet(Begun) /\ Cardinality(Begun) \in Nat
  /\ \A t \in Task : /\ t \notin Begun => Cardinality(Begun \cup {t}) = Cardinality(Begun) + 1
                     /\ t \in Begun => /\ Cardinality(Begun \ {t}) = Cardinality(Begun) - 1
                                       /\ Cardinality(Begun) >= 1
<1>1. IsFiniteSet(Begun) /\ Cardinality(Begun) \in Nat
  BY TCPServerAssumption, FS_Subset, FS_CardinalityType DEF Begun
<1>2. ASSUME NEW t \in Task, t \in Begun
      PROVE  Cardinality(Begun \ {t}) = Cardinality(Begun) - 1 /\ Cardinality(Begun) >= 1
  <2>1. Cardinality(Begun \ {t}) = Cardinality(Begun) - 1
    BY <1>1, <1>2, FS_RemoveElement
  <2>2. IsFiniteSet(Begun \ {t}) /\ Cardinality(Begun \ {t}) \in Nat
    BY <1>1, FS_Subset, FS_CardinalityType
  <2> QED BY <1>1, <2>1, <2>2
<1> QED BY <1>1, <1>2, FS_AddElement

(* A counted task that sees task_count_ = 1 is the only one.               *)
LEMMA Alone ==
  ASSUME Counted, task_count_ = 1, NEW t \in Task, t \in Begun, NEW u \in Task, u # t
  PROVE  caller[u] \in {"new", "stopped"}
<1>1. Cardinality(Begun \ {t}) = 0
  BY Sizes DEF Counted
<1>2. IsFiniteSet(Begun \ {t})
  BY Sizes, FS_Subset
<1>3. Begun \ {t} = {}
  BY <1>1, <1>2, FS_EmptySet
<1> QED BY <1>3 DEF Begun

(* The counter follows a caller that moves on.                             *)
LEMMA CountKept ==
  ASSUME TypeOK, Counted, NEW t \in Task, NEW w, w # "new",
         caller' = [caller EXCEPT ![t] = w], caller[t] # "stopped",
         w = "stopped" => caller[t] # "new",
         task_count_' = IF w = "stopped" THEN task_count_ - 1
                        ELSE IF caller[t] = "new" THEN task_count_ + 1 ELSE task_count_
  PROVE  Counted' /\ task_count_' \in Nat
<1>1. Begun' = IF w = "stopped" THEN Begun \ {t} ELSE Begun \cup {t}
  BY DEF TypeOK, Begun
<1>2. t \in Begun <=> caller[t] # "new"
  BY DEF Begun
<1>3. CASE w = "stopped"
  BY <1>1, <1>2, <1>3, Sizes DEF Counted
<1>4. CASE w # "stopped" /\ caller[t] = "new"
  BY <1>1, <1>2, <1>4, Sizes DEF Counted
<1>5. CASE w # "stopped" /\ caller[t] # "new"
  <2>1. Begun' = Begun
    BY <1>1, <1>2, <1>5
  <2> QED BY <1>5, <2>1, Sizes DEF Counted
<1> QED BY <1>3, <1>4, <1>5

(* Steps of the other threads do not count.                                *)
LEMMA CountStays ==
  ASSUME Counted, UNCHANGED <<caller, task_count_>>
  PROVE  Counted'
BY DEF Counted, Begun
-----------------------------------------------------------------------------
(* Every step keeps the types and the count of tasks.                      *)
LEMMA TypeInductive ==
  IInv /\ [Next]_vars => TypeOK' /\ Counted'
<1> SUFFICES ASSUME IInv, [Next]_vars PROVE TypeOK' /\ Counted'
  OBVIOUS
<1>0. TypeOK /\ Counted /\ OneLoop /\ Expected \in [Task -> SUBSET Client]
  BY TCPServerAssumption DEF IInv, SInv
<1> USE DEF shared, net, conns
<1>1. ASSUME NEW t \in Task, StartOk(t) PROVE TypeOK' /\ Counted'
  <2>1. Counted' /\ task_count_' \in Nat
    BY <1>0, <1>1, CountKept DEF StartOk
  <2>2. TypeOK'
    BY <1>0, <1>1, <2>1 DEF StartOk, TypeOK
  <2> QED BY <2>1, <2>2
<1>2. ASSUME NEW t \in Task, StartFails(t) PROVE TypeOK' /\ Counted'
  <2>1. Counted' /\ task_count_' \in Nat
    BY <1>0, <1>2, CountKept DEF StartFails
  <2>2. TypeOK'
    BY <1>0, <1>2, <2>1 DEF StartFails, TypeOK
  <2> QED BY <2>1, <2>2
<1>3. ASSUME NEW t \in Task, InitReturn(t) PROVE TypeOK' /\ Counted'
  <2>1. Counted' /\ task_count_' \in Nat
    BY <1>0, <1>3, CountKept DEF InitReturn
  <2>2. TypeOK'
    BY <1>0, <1>3, <2>1 DEF InitReturn, TypeOK
  <2> QED BY <2>1, <2>2
<1>4. ASSUME NEW t \in Task, StopCall(t) PROVE TypeOK' /\ Counted'
  <2>1. Counted' /\ task_count_' \in Nat
    BY <1>0, <1>4, CountKept DEF StopCall
  <2>2. TypeOK'
    BY <1>0, <1>4, <2>1 DEF StopCall, TypeOK
  <2> QED BY <2>1, <2>2
<1>5. ASSUME NEW t \in Task, StopNotify(t) PROVE TypeOK' /\ Counted'
  <2>1. Counted' /\ task_count_' \in Nat
    BY <1>0, <1>5, CountKept DEF StopNotify
  <2>2. TypeOK'
    BY <1>0, <1>5, <2>1 DEF StopNotify, TypeOK
  <2> QED BY <2>1, <2>2
<1>6. ASSUME NEW t \in Task, StopJoin(t) PROVE TypeOK' /\ Counted'
  <2>1. Counted' /\ task_count_' \in Nat
    BY <1>0, <1>6, CountKept DEF StopJoin
  <2>2. TypeOK'
    BY <1>0, <1>6, <2>1 DEF StopJoin, TypeOK
  <2> QED BY <2>1, <2>2
<1>7. ASSUME NEW t \in Task, StopLast(t) PROVE TypeOK' /\ Counted'
  <2>1. Counted' /\ task_count_' \in Nat
    BY <1>0, <1>7, CountKept DEF StopLast
  <2>2. TypeOK'
    BY <1>0, <1>7, <2>1 DEF StopLast, Closed, TypeOK
  <2> QED BY <2>1, <2>2
<1>8. ASSUME NEW t \in Task, NEW c \in Client, FindConnection(t, c) PROVE TypeOK' /\ Counted'
  BY <1>0, <1>8, CountStays DEF FindConnection, TypeOK
<1>9. ASSUME NEW t \in Task, NEW c \in Client, PutConnection(t, c) PROVE TypeOK' /\ Counted'
  BY <1>0, <1>9, CountStays DEF PutConnection, TypeOK
<1>10. ASSUME NEW t \in Task, NEW c \in Client, ConnStopLock(t, c) PROVE TypeOK' /\ Counted'
  BY <1>0, <1>10, CountStays DEF ConnStopLock, TypeOK
<1>11. ASSUME NEW t \in Task, NEW c \in Client, ConnStopRecv(t, c) PROVE TypeOK' /\ Counted'
  BY <1>0, <1>11, CountStays DEF ConnStopRecv, TypeOK
<1>12. ASSUME NEW t \in Task, LoopTurn(t) PROVE TypeOK' /\ Counted'
  BY <1>0, <1>12, CountStays DEF LoopTurn, TypeOK
<1>13. ASSUME NEW t \in Task, LoopSleep(t) PROVE TypeOK' /\ Counted'
  BY <1>0, <1>13, CountStays DEF LoopSleep, TypeOK
<1>14. ASSUME NEW t \in Task, LoopIdle(t) PROVE TypeOK' /\ Counted'
  BY <1>0, <1>14, CountStays DEF LoopIdle, TypeOK
<1>15. ASSUME NEW t \in Task, GatherCheck(t) PROVE TypeOK' /\ Counted'
  BY <1>0, <1>15, CountStays DEF GatherCheck, TypeOK
<1>16. ASSUME NEW t \in Task, LoopExit(t) PROVE TypeOK' /\ Counted'
  <2>1. listen_count_ = 1 /\ listen_count_' = 0
    BY <1>0, <1>16 DEF LoopExit, Polling, Serving, OneLoop
  <2>2. loop_thread_' \in [Task -> {"none", "check", "decided", "asleep", "gather",
                                    "gather_check", "serve", "exited"}]
    BY <1>0, <1>16 DEF LoopExit, Sleepers, TypeOK
  <2>3. TypeOK'
    BY <1>0, <1>16, <2>1, <2>2 DEF LoopExit, TypeOK
  <2> QED BY <1>0, <1>16, <2>3, CountStays DEF LoopExit
<1>17. ASSUME NEW t \in Task, NEW c \in Client, AcceptDrops(t, c) \/ HandleAccept(t, c)
      PROVE TypeOK' /\ Counted'
  <2>1. CASE AcceptDrops(t, c)
    BY <1>0, <2>1, CountStays DEF AcceptDrops, Accept, AfterEvent, TypeOK
  <2>2. CASE HandleAccept(t, c)
    BY <1>0, <2>2, CountStays DEF HandleAccept, Accept, TypeOK
  <2> QED BY <1>17, <2>1, <2>2
<1>18. ASSUME NEW t \in Task, NEW c \in Client, HandleRead(t, c) PROVE TypeOK' /\ Counted'
  BY <1>0, <1>18, CountStays DEF HandleRead, AfterEvent, TypeOK
<1>19. ASSUME NEW c \in Client, Dial(c) PROVE TypeOK' /\ Counted'
  BY <1>0, <1>19, CountStays DEF Dial, TypeOK
<1>20. ASSUME NEW c \in Client, NEW t \in Task, PeerStart(c, t) PROVE TypeOK' /\ Counted'
  BY <1>0, <1>20, CountStays DEF PeerStart, TypeOK
<1>21. ASSUME NEW c \in Client, NEW t \in Task, PeerSendsLock(c, t) PROVE TypeOK' /\ Counted'
  BY <1>0, <1>21, CountStays DEF PeerSendsLock, TypeOK
<1>22. ASSUME NEW t \in Task, InsertConnection(t) PROVE TypeOK' /\ Counted'
  BY <1>0, <1>22, CountStays DEF InsertConnection, AfterEvent, TypeOK
<1>23. CASE UNCHANGED vars
  BY <1>0, <1>23, CountStays DEF vars, TypeOK
<1> QED
  BY <1>1, <1>2, <1>3, <1>4, <1>5, <1>6, <1>7, <1>8, <1>9, <1>10, <1>11, <1>12, <1>13, <1>14,
     <1>15, <1>16, <1>17, <1>18, <1>19, <1>20, <1>21, <1>22, <1>23
     DEF Next, Stop, Loop, Put, Peer

(* Every step keeps the loop single and the sockets open while in use.     *)
LEMMA SafetyInductive ==
  IInv /\ [Next]_vars => SInv'
<1> SUFFICES ASSUME IInv, [Next]_vars PROVE SInv'
  OBVIOUS
<1>0. TypeOK /\ SInv /\ Expected \in [Task -> SUBSET Client] /\ None \notin Task \X Client
  BY TCPServerAssumption DEF IInv
<1> USE DEF SInv, shared, net, conns, Serving, InUse
<1>1. ASSUME NEW t \in Task, StartOk(t) PROVE SInv'
  BY <1>0, <1>1 DEF StartOk, TypeOK, OneLoop, Owned, Finding, NoUseAfterClose
<1>2. ASSUME NEW t \in Task, StartFails(t) PROVE SInv'
  BY <1>0, <1>2 DEF StartFails, TypeOK, OneLoop, Owned, Finding, NoUseAfterClose
<1>3. ASSUME NEW t \in Task, InitReturn(t) PROVE SInv'
  BY <1>0, <1>3 DEF InitReturn, TypeOK, OneLoop, Owned, Finding, NoUseAfterClose
<1>4. ASSUME NEW t \in Task, StopCall(t) PROVE SInv'
  BY <1>0, <1>4 DEF StopCall, TypeOK, OneLoop, Owned, Finding, NoUseAfterClose
<1>5. ASSUME NEW t \in Task, StopNotify(t) PROVE SInv'
  BY <1>0, <1>5 DEF StopNotify, Sleepers, TypeOK, OneLoop, Owned, Finding, NoUseAfterClose
<1>6. ASSUME NEW t \in Task, StopJoin(t) PROVE SInv'
  BY <1>0, <1>6 DEF StopJoin, TypeOK, OneLoop, Owned, Finding, NoUseAfterClose
<1>7. ASSUME NEW t \in Task, StopLast(t) PROVE SInv'
  <2>1. /\ caller' = [caller EXCEPT ![t] = "stopped"] /\ caller[t] = "stop_conns"
        /\ server_connections_[t] = {}
        /\ UNCHANGED <<loop_thread_, server_connections_, listen_count_, connections_mtx_>>
    BY <1>7 DEF StopLast
  <2>2. CASE UNCHANGED <<is_inited_, connections_>>
    BY <1>0, <2>1, <2>2 DEF TypeOK, OneLoop, Owned, Finding, NoUseAfterClose
  <2>3. CASE task_count_ = 1 /\ connections_mtx_ = None /\ Closed
    <3>1. \A u \in Task : u # t => caller[u] \in {"new", "stopped"}
      <4>1. t \in Begun
        BY <2>1 DEF Begun
      <4> QED BY <2>3, <4>1, Alone DEF IInv
    <3>2. \A u \in Task : server_connections_[u] = {} /\ ~Serving(u) /\ ~InUse(u)'
      BY <1>0, <2>1, <3>1 DEF Owned, TypeOK
    <3>3. Finding'
      BY <1>0, <2>1, <2>3 DEF Finding
    <3>4. OneLoop' /\ Owned'
      BY <1>0, <2>1, <2>3, <3>1 DEF OneLoop, Owned, TypeOK
    <3>5. NoUseAfterClose'
      BY <2>1, <3>2 DEF NoUseAfterClose
    <3> QED BY <3>3, <3>4, <3>5
  <2> QED BY <1>7, <2>2, <2>3 DEF StopLast
<1>8. ASSUME NEW t \in Task, NEW c \in Client, FindConnection(t, c) PROVE SInv'
  BY <1>0, <1>8 DEF FindConnection, TypeOK, OneLoop, Owned, Finding, NoUseAfterClose
<1>9. ASSUME NEW t \in Task, NEW c \in Client, PutConnection(t, c) PROVE SInv'
  BY <1>0, <1>9 DEF PutConnection, TypeOK, OneLoop, Owned, Finding, NoUseAfterClose
<1>10. ASSUME NEW t \in Task, NEW c \in Client, ConnStopLock(t, c) PROVE SInv'
  BY <1>0, <1>10 DEF ConnStopLock, TypeOK, OneLoop, Owned, Finding, NoUseAfterClose
<1>11. ASSUME NEW t \in Task, NEW c \in Client, ConnStopRecv(t, c) PROVE SInv'
  BY <1>0, <1>11 DEF ConnStopRecv, TypeOK, OneLoop, Owned, Finding, NoUseAfterClose
<1>12. ASSUME NEW t \in Task, LoopTurn(t) PROVE SInv'
  <2>1. /\ loop_thread_[t] = "check"
        /\ UNCHANGED <<caller, server_connections_, is_inited_, connections_, connections_mtx_>>
        /\ \E w \in {"exited", "gather", "decided"} :
             /\ loop_thread_' = [loop_thread_ EXCEPT ![t] = w]
             /\ listen_count_' = IF w = "gather" THEN 1 ELSE listen_count_
             /\ w = "gather" => listen_count_ = 0
    BY <1>12 DEF LoopTurn
  <2>2. OneLoop'
    BY <1>0, <2>1 DEF TypeOK, OneLoop
  <2>3. Owned' /\ Finding' /\ NoUseAfterClose'
    BY <1>0, <2>1 DEF TypeOK, Owned, Finding, NoUseAfterClose
  <2> QED BY <2>2, <2>3
<1>13. ASSUME NEW t \in Task, LoopSleep(t) PROVE SInv'
  BY <1>0, <1>13 DEF LoopSleep, TypeOK, OneLoop, Owned, Finding, NoUseAfterClose
<1>14. ASSUME NEW t \in Task, LoopIdle(t) PROVE SInv'
  BY <1>0, <1>14 DEF LoopIdle, TypeOK, OneLoop, Owned, Finding, NoUseAfterClose
<1>15. ASSUME NEW t \in Task, GatherCheck(t) PROVE SInv'
  BY <1>0, <1>15 DEF GatherCheck, TypeOK, OneLoop, Owned, Finding, NoUseAfterClose
<1>16. ASSUME NEW t \in Task, LoopExit(t) PROVE SInv'
  <2>1. /\ Serving(t) /\ listen_count_' = listen_count_ - 1
        /\ UNCHANGED <<caller, server_connections_, is_inited_, connections_, connections_mtx_>>
    BY <1>16 DEF LoopExit, Polling
  <2> DEFINE Others == \A u \in Task : u # t =>
               \/ loop_thread_'[u] = loop_thread_[u]
               \/ loop_thread_[u] = "asleep" /\ loop_thread_'[u] = "check"
  <2>2. loop_thread_'[t] = "exited" /\ Others
    <3>1. CASE loop_thread_' = [loop_thread_ EXCEPT ![t] = "exited"]
      BY <1>0, <3>1 DEF TypeOK
    <3>2. ASSUME NEW x \in Sleepers,
                 loop_thread_' = [loop_thread_ EXCEPT ![t] = "exited", ![x] = "check"]
          PROVE  loop_thread_'[t] = "exited" /\ Others
      <4>1. x \in Task /\ x # t /\ loop_thread_[x] = "asleep"
        BY <2>1 DEF Sleepers
      <4> QED BY <1>0, <3>2, <4>1 DEF TypeOK
    <3> QED BY <1>16, <3>1, <3>2 DEF LoopExit
  <2>3. OneLoop'
    BY <1>0, <2>1, <2>2 DEF OneLoop
  <2>4. Owned' /\ Finding' /\ NoUseAfterClose'
    BY <1>0, <2>1, <2>2 DEF Owned, Finding, NoUseAfterClose
  <2> QED BY <2>3, <2>4
<1>17. ASSUME NEW t \in Task, NEW c \in Client, AcceptDrops(t, c) \/ HandleAccept(t, c)
      PROVE SInv'
  <2>1. CASE AcceptDrops(t, c)
    BY <1>0, <2>1 DEF AcceptDrops, Accept, AfterEvent, TypeOK, OneLoop, Owned, Finding,
                      NoUseAfterClose
  <2>2. CASE HandleAccept(t, c)
    BY <1>0, <2>2 DEF HandleAccept, Accept, TypeOK, OneLoop, Owned, Finding, NoUseAfterClose
  <2> QED BY <1>17, <2>1, <2>2
<1>18. ASSUME NEW t \in Task, NEW c \in Client, HandleRead(t, c) PROVE SInv'
  BY <1>0, <1>18 DEF HandleRead, AfterEvent, TypeOK, OneLoop, Owned, Finding, NoUseAfterClose
<1>19. ASSUME NEW c \in Client, Dial(c) PROVE SInv'
  BY <1>0, <1>19 DEF Dial, TypeOK, OneLoop, Owned, Finding, NoUseAfterClose
<1>20. ASSUME NEW c \in Client, NEW t \in Task, PeerStart(c, t) PROVE SInv'
  BY <1>0, <1>20 DEF PeerStart, TypeOK, OneLoop, Owned, Finding, NoUseAfterClose
<1>21. ASSUME NEW c \in Client, NEW t \in Task, PeerSendsLock(c, t) PROVE SInv'
  BY <1>0, <1>21 DEF PeerSendsLock, TypeOK, OneLoop, Owned, Finding, NoUseAfterClose
<1>22. ASSUME NEW t \in Task, InsertConnection(t) PROVE SInv'
  BY <1>0, <1>22 DEF InsertConnection, AfterEvent, TypeOK, OneLoop, Owned, Finding,
                     NoUseAfterClose
<1>23. CASE UNCHANGED vars
  BY <1>0, <1>23 DEF vars, OneLoop, Owned, Finding, NoUseAfterClose
<1> QED
  BY <1>1, <1>2, <1>3, <1>4, <1>5, <1>6, <1>7, <1>8, <1>9, <1>10, <1>11, <1>12, <1>13, <1>14,
     <1>15, <1>16, <1>17, <1>18, <1>19, <1>20, <1>21, <1>22, <1>23
     DEF Next, Stop, Loop, Put, Peer
-----------------------------------------------------------------------------
(* Before any start() the invariant holds.                                 *)
LEMMA Initial ==
  Init => IInv
<1> SUFFICES ASSUME Init PROVE IInv
  OBVIOUS
<1>1. Begun = {}
  BY DEF Init, Begun
<1>2. Counted
  BY <1>1, FS_EmptySet DEF Counted, Init
<1>3. TypeOK
  BY DEF Init, TypeOK
<1>4. SInv
  BY TCPServerAssumption DEF Init, SInv, OneLoop, Owned, Finding, NoUseAfterClose, Serving,
     InUse
<1> QED BY <1>2, <1>3, <1>4 DEF IInv

(* The inductive invariant of the shared server.                           *)
THEOREM SpecInv == Spec => []IInv
<1>1. IInv /\ [Next]_vars => IInv'
  BY TypeInductive, SafetyInductive DEF IInv
<1> QED BY <1>1, Initial, PTL DEF Spec

(* Type correctness; in it, neither task_count_ nor listen_count_ gets     *)
(* below zero.                                                             *)
THEOREM TypeCorrect == Spec => []TypeOK
<1>1. IInv => TypeOK
  BY DEF IInv
<1> QED BY <1>1, SpecInv, PTL

(* One loop thread at most serves epoll, however many tasks hand over.     *)
THEOREM OneLoopAlways == Spec => []OneLoop
<1>1. IInv => OneLoop
  BY DEF IInv, SInv
<1> QED BY <1>1, SpecInv, PTL

(* stop() closes the shared sockets only when no task uses them, also      *)
(* after a start() that failed and stayed counted.                         *)
THEOREM NoUseAfterCloseAlways == Spec => []NoUseAfterClose
<1>1. IInv => NoUseAfterClose
  BY DEF IInv, SInv
<1> QED BY <1>1, SpecInv, PTL
=============================================================================
