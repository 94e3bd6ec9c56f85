-------------------------- MODULE ConnectionProofs --------------------------
(***************************************************************************)
(* Proofs about Connection for every set of tasks, every bound and every   *)
(* script of the peer.  IInv is the inductive invariant.  OneWorker and    *)
(* the two order properties are not inductive alone: that the chunk a      *)
(* loop_send took is the only one in flight follows from OneWorker, and    *)
(* that close() finds no chunk in flight from the life of the do_start     *)
(* thread (Threads).  Rounds, about the lock frames of a task, is kept     *)
(* beside it and rests on ArrivalOrder and LockAssumption.                 *)
(***************************************************************************)
EXTENDS Connection, SequenceTheorems, FiniteSetTheorems, TLAPS

\* a loop holds frames only between taking them and passing them on
Holding ==
  /\ \A t \in Task : sending[t] # << >> => sender[t] = "write"
  /\ \A t \in Task : sorting[t] # << >> => recver[t] = "sort"
  /\ \A t \in Task : recver[t] = "sort" => Len(sorting[t]) = 1

\* a do_start thread lives between start() and the join in stop()
Threads ==
  /\ \A t \in Task : caller[t] \in {"idle", "start"} => starter[t] = "none"
  /\ state_ = "closed" => send_buffer_ = << >> /\ \A t \in Task : caller[t] = "idle"

\* a task that has just become worker has no loops yet
Unspawned == \A t \in Task :
  starter[t] = "work" => recver[t] = "none" /\ sender[t] = "none"

IInv ==
  /\ TypeOK
  /\ OneWorker
  /\ Unspawned
  /\ Holding
  /\ Threads
  /\ StreamOrder
  /\ ArrivalOrder
-----------------------------------------------------------------------------
(* Sequences of frames in flight.                                          *)

(* Concatenation of sequences of frames is associative.                     *)
LEMMA Assoc ==
  ASSUME NEW s \in Seq(Frame), NEW t \in Seq(Frame), NEW u \in Seq(Frame)
  PROVE  (s \o t) \o u = s \o (t \o u)
  BY ConcatAssociative

(* Appending to the last of two sequences appends to both.                 *)
LEMMA ConcatAppend ==
  ASSUME NEW s \in Seq(Frame), NEW t \in Seq(Frame), NEW f \in Frame
  PROVE  s \o Append(t, f) = Append(s \o t, f)
<1>1. <<f>> \in Seq(Frame) /\ s \o t \in Seq(Frame)
  OBVIOUS
<1>2. Append(t, f) = t \o <<f>> /\ Append(s \o t, f) = (s \o t) \o <<f>>
  BY <1>1, AppendIsConcat
<1> QED BY <1>1, <1>2, ConcatAssociative

(* Taking the first element of a sequence off and putting it back.         *)
LEMMA SplitHead ==
  ASSUME NEW s \in Seq(Frame), NEW u \in Seq(Frame), u # << >>
  PROVE  s \o <<Head(u)>> \o Tail(u) = s \o u
<1>1. Tail(u) \in Seq(Frame) /\ <<Head(u)>> \in Seq(Frame)
  OBVIOUS
<1>2. <<Head(u)>> \o Tail(u) = u
  OBVIOUS
<1>3. (s \o <<Head(u)>>) \o Tail(u) = s \o (<<Head(u)>> \o Tail(u))
  BY <1>1, Assoc
<1> QED BY <1>2, <1>3

(* Moving the first element of a sequence behind the last of another.      *)
LEMMA MoveHead ==
  ASSUME NEW s \in Seq(Frame), NEW t \in Seq(Frame), NEW u \in Seq(Frame), u # << >>
  PROVE  s \o Append(t, Head(u)) \o Tail(u) = s \o t \o u
<1>1. Tail(u) \in Seq(Frame) /\ Append(t, Head(u)) \in Seq(Frame)
  OBVIOUS
<1>2. Append(t, Head(u)) \o Tail(u) = t \o u
  OBVIOUS
<1> DEFINE a == Append(t, Head(u))
           b == Tail(u)
<1>3. (s \o a) \o b = s \o (a \o b)
  <2>1. a \in Seq(Frame) /\ b \in Seq(Frame)
    BY <1>1
  <2> HIDE DEF a, b
  <2> QED BY <2>1
<1>4. (s \o t) \o u = s \o (t \o u)
  BY Assoc
<1> QED BY <1>2, <1>3, <1>4

(* A sequence of one element.                                              *)
LEMMA OneElement ==
  ASSUME NEW s \in Seq(Frame), NEW t \in Seq(Frame), Len(t) = 1
  PROVE  Append(s, t[1]) \o << >> = s \o t
<1>1. t[1] \in Frame /\ t = <<t[1]>>
  OBVIOUS
<1>2. Append(s, t[1]) = s \o <<t[1]>>
  BY <1>1, AppendIsConcat
<1>3. Append(s, t[1]) \in Seq(Frame)
  BY <1>1
<1> QED BY <1>1, <1>2, <1>3, ConcatEmptySeq

(* notify_all moves a thread from "asleep" to "check" and no other.        *)
LEMMA WokenIs ==
  ASSUME NEW S, "check" \in S, NEW pc \in [Task -> S]
  PROVE  /\ Woken(pc) \in [Task -> S]
         /\ \A t \in Task : Woken(pc)[t] = IF pc[t] = "asleep" THEN "check" ELSE pc[t]
  BY DEF Woken

(* When only one loop can be holding frames, Held is what it holds.        *)
LEMMA HeldIs ==
  ASSUME NEW f, NEW t \in Task, \A u \in Task : f[u] # << >> => u = t
  PROVE  Held(f) = f[t]
<1>1. CASE f[t] # << >>
  <2>1. (CHOOSE u \in Task : f[u] # << >>) = t
    BY <1>1
  <2> QED BY <2>1, <1>1 DEF Held
<1>2. CASE f[t] = << >>
  <2>1. ~ \E u \in Task : f[u] # << >>
    BY <1>2
  <2> QED BY <2>1, <1>2 DEF Held
<1> QED BY <1>1, <1>2

(* When no loop holds frames, nothing is in flight.                        *)
LEMMA HeldNone ==
  ASSUME NEW f, \A u \in Task : f[u] = << >>
  PROVE  Held(f) = << >>
  BY DEF Held

(* Only the worker's loops can be holding frames.                          *)
LEMMA OnlyWorkerHolds ==
  ASSUME IInv, NEW t \in Task, Working(t)
  PROVE  /\ \A u \in Task : sending[u] # << >> => u = t
         /\ \A u \in Task : sorting[u] # << >> => u = t
  BY DEF IInv, Holding, OneWorker

(* What is in flight is a sequence of frames.                              *)
LEMMA HeldType ==
  ASSUME NEW f \in [Task -> Seq(Frame)]
  PROVE  Held(f) \in Seq(Frame)
<1>1. CASE \E t \in Task : f[t] # << >>
  <2>1. (CHOOSE t \in Task : f[t] # << >>) \in Task
    BY <1>1
  <2> QED BY <2>1, <1>1 DEF Held
<1>2. CASE ~ \E t \in Task : f[t] # << >>
  BY <1>2 DEF Held
<1> QED BY <1>1, <1>2
-----------------------------------------------------------------------------
(* Type correctness, action by action.                                     *)

(* The frames start() and send() build are frames.                         *)
LEMMA FrameType ==
  ASSUME NEW t \in Task, NEW k \in Nat
  PROVE  [box |-> Lock(t), n |-> k] \in Frame /\ [box |-> Msg(t), n |-> k] \in Frame
  BY DEF Lock, Msg, Frame, Box

(* A write, whether it fails or not, adds its chunk to what was handed to  *)
(* the socket, and loses no frame but of this chunk.                       *)
LEMMA Written ==
  ASSUME out \in Seq(Frame), lost \subseteq DOMAIN out, NEW c \in Seq(Frame), Write(c)
  PROVE  out' \in Seq(Frame) /\ lost' \subseteq DOMAIN out'
<1>1. /\ out' \in Seq(Frame) /\ Len(out) \in Nat /\ Len(c) \in Nat
      /\ Len(out') = Len(out) + Len(c)
  BY DEF Write
<1>2. DOMAIN out = 1..Len(out) /\ DOMAIN out' = 1..Len(out')
  BY <1>1
<1>3. DOMAIN out \subseteq DOMAIN out'
  BY <1>1, <1>2
<1>4. ASSUME NEW k \in 1..Len(c) PROVE (Len(out) + k)..Len(out') \subseteq DOMAIN out'
  BY <1>1, <1>2
<1> QED BY <1>1, <1>3, <1>4 DEF Write

(* Every step, or stutter, keeps every variable in its type.              *)
LEMMA TypeStep ==
  ASSUME IInv, [Next]_vars
  PROVE  TypeOK'
<1> USE DEF vars, works, outgoing, incoming, calls
<1>0. TypeOK /\ OneWorker /\ Holding
  BY DEF IInv
<1>a. /\ puts \in Seq(Frame) /\ Len(puts) \in Nat /\ send_buffer_ \in Seq(Frame)
      /\ out \in Seq(Frame) /\ sending \in [Task -> Seq(Frame)]
      /\ buffer_ \in Seq(Frame) /\ in \in Seq(Frame) /\ sorted \in Seq(Frame)
      /\ mapbuffer_ \in [Box -> Seq(Frame)] /\ sorting \in [Task -> Seq(Frame)]
  BY <1>0, SMTT(20) DEF TypeOK
<1>1. ASSUME NEW t \in Task, StartCall(t) PROVE TypeOK'
  BY <1>0, <1>1, SMTT(20) DEF TypeOK, StartCall
<1>2. ASSUME NEW t \in Task, StartLock(t) PROVE TypeOK'
  <2>1. [box |-> Lock(t), n |-> Len(puts) + 1] \in Frame
    <3>1. Len(puts) + 1 \in Nat
      BY <1>a
    <3> QED BY <3>1, FrameType, Zenon
  <2>2. Woken(sender) \in [Task -> {"none", "check", "decided", "asleep", "write", "exited"}]
    BY <1>0, WokenIs DEF TypeOK
  <2>3. /\ send_buffer_' \in Seq(Frame) /\ puts' \in Seq(Frame)
        /\ sender' = Woken(sender) /\ UNCHANGED <<sending, out, lost>>
    BY <1>2, <1>a, <2>1 DEF StartLock, Put
  <2> QED BY <1>0, <1>2, <2>2, <2>3 DEF TypeOK, StartLock
<1>3. ASSUME NEW t \in Task, StartReturn(t) PROVE TypeOK'
  BY <1>0, <1>3 DEF TypeOK, StartReturn
<1>4. ASSUME NEW t \in Task, Send(t) PROVE TypeOK'
  <2>1. [box |-> Msg(t), n |-> Len(puts) + 1] \in Frame
    <3>1. Len(puts) + 1 \in Nat
      BY <1>a
    <3> QED BY <3>1, FrameType, Zenon
  <2>2. Woken(sender) \in [Task -> {"none", "check", "decided", "asleep", "write", "exited"}]
    BY <1>0, WokenIs DEF TypeOK
  <2>3. /\ send_buffer_' \in Seq(Frame) /\ puts' \in Seq(Frame)
        /\ sender' = Woken(sender) /\ UNCHANGED <<sending, out, lost>>
    BY <1>4, <1>a, <2>1 DEF Send, Put
  <2> QED BY <1>0, <1>4, <2>2, <2>3 DEF TypeOK, Send
<1>5. ASSUME NEW t \in Task, RecvCall(t) PROVE TypeOK'
  <2>1. caller' \in [Task -> {"idle", "start", "await", "open", "recv", "stop",
                          "stop_recv", "stop_flag", "stop_notify", "stop_join"}]
    BY <1>5, <1>0 DEF RecvCall, TypeOK
  <2>2. recvs' \in [Task -> Nat]
    <3>1. recvs \in [Task -> Nat] /\ recvs' = [recvs EXCEPT ![t] = recvs[t] + 1]
      BY <1>5, <1>0 DEF RecvCall, TypeOK
    <3> QED BY <3>1
  <2> QED BY <1>5, <1>0, <2>1, <2>2 DEF RecvCall, TypeOK
<1>6. ASSUME NEW t \in Task, RecvReturn(t) PROVE TypeOK'
  <2>1. Msg(t) \in Box
    BY DEF Lock, Msg, Box
  <2>2. mapbuffer_' \in [Box -> Seq(Frame)]
    <3>1. mapbuffer_[Msg(t)] \in Seq(Frame) /\ mapbuffer_[Msg(t)] # << >>
      BY <1>6, <1>a, <2>1 DEF RecvReturn
    <3>2. Tail(mapbuffer_[Msg(t)]) \in Seq(Frame)
      BY <3>1
    <3> QED BY <1>6, <1>a, <2>1, <3>2 DEF RecvReturn
  <2> QED BY <1>0, <1>6, <2>2 DEF TypeOK, RecvReturn
<1>7. ASSUME NEW t \in Task, StopCall(t) PROVE TypeOK'
  BY <1>0, <1>7 DEF TypeOK, StopCall
<1>8. ASSUME NEW t \in Task, StopLock(t) PROVE TypeOK'
  BY <1>0, <1>8 DEF TypeOK, StopLock
<1>9. ASSUME NEW t \in Task, StopRecv(t) PROVE TypeOK'
  <2>1. Lock(t) \in Box
    BY DEF Lock, Msg, Box
  <2>2. mapbuffer_' \in [Box -> Seq(Frame)]
    <3>1. mapbuffer_[Lock(t)] \in Seq(Frame) /\ mapbuffer_[Lock(t)] # << >>
      BY <1>9, <1>a, <2>1 DEF StopRecv
    <3>2. Tail(mapbuffer_[Lock(t)]) \in Seq(Frame)
      BY <3>1
    <3> QED BY <1>9, <1>a, <2>1, <3>2 DEF StopRecv
  <2> QED BY <1>0, <1>9, <2>2 DEF TypeOK, StopRecv
<1>10. ASSUME NEW t \in Task, StopFlag(t) PROVE TypeOK'
  BY <1>0, <1>10 DEF TypeOK, StopFlag
<1>11. ASSUME NEW t \in Task, StopNotify(t) PROVE TypeOK'
  <2>1. /\ Woken(sender) \in [Task -> {"none", "check", "decided", "asleep", "write", "exited"}]
        /\ Woken(recver) \in [Task -> {"none", "check", "decided", "asleep", "sort", "exited"}]
        /\ Woken(starter) \in [Task -> {"none", "register", "check", "decided", "asleep", "work", "join", "exited"}]
    BY <1>0, WokenIs DEF TypeOK
  <2>2. caller' \in [Task -> {"idle", "start", "await", "open", "recv", "stop", "stop_recv",
                             "stop_flag", "stop_notify", "stop_join"}]
    BY <1>0, <1>11 DEF TypeOK, StopNotify
  <2>3. /\ sender' = sender \/ sender' = Woken(sender)
        /\ recver' = recver \/ recver' = Woken(recver)
        /\ starter' = starter \/ starter' = Woken(starter)
    BY <1>11 DEF StopNotify
  <2>4. UNCHANGED <<works, task_mtx_, outgoing, incoming, state_, calls>>
    BY <1>11 DEF StopNotify
  <2>5. /\ sender' \in [Task -> {"none", "check", "decided", "asleep", "write", "exited"}]
        /\ recver' \in [Task -> {"none", "check", "decided", "asleep", "sort", "exited"}]
        /\ starter' \in [Task -> {"none", "register", "check", "decided", "asleep", "work", "join", "exited"}]
    <3>1. /\ sender \in [Task -> {"none", "check", "decided", "asleep", "write", "exited"}]
          /\ recver \in [Task -> {"none", "check", "decided", "asleep", "sort", "exited"}]
          /\ starter \in [Task -> {"none", "register", "check", "decided", "asleep", "work", "join", "exited"}]
      BY <1>0 DEF TypeOK
    <3> QED BY <2>1, <2>3, <3>1, Zenon
  <2> QED BY <1>0, <2>2, <2>4, <2>5 DEF TypeOK
<1>12. ASSUME NEW t \in Task, StopJoin(t) PROVE TypeOK'
  BY <1>0, <1>12 DEF TypeOK, StopJoin
<1>13. ASSUME NEW t \in Task, Register(t) PROVE TypeOK'
  BY <1>0, <1>13 DEF TypeOK, Register
<1>14. ASSUME NEW t \in Task, Acquire(t) PROVE TypeOK'
  <2>1. work_count_ \in Nat /\ work_task_id_ \in Task \cup {NoTask}
    BY <1>0 DEF TypeOK
  <2>2. work_count_' \in Nat /\ work_task_id_' \in Task \cup {NoTask}
    BY <1>14, <2>1 DEF Acquire
  <2>3. starter' \in [Task -> {"none", "register", "check", "decided", "asleep", "work", "join", "exited"}]
    <3>1. \E x \in {"work", "exited", "decided"} : starter' = [starter EXCEPT ![t] = x]
      BY <1>14 DEF Acquire
    <3> QED BY <1>0, <3>1 DEF TypeOK
  <2> QED BY <1>14, <1>0, <2>2, <2>3 DEF Acquire, TypeOK
<1>15. ASSUME NEW t \in Task, StarterSleep(t) PROVE TypeOK'
  BY <1>0, <1>15 DEF TypeOK, StarterSleep
<1>16. ASSUME NEW t \in Task, SpawnLoops(t) PROVE TypeOK'
  BY <1>0, <1>16 DEF TypeOK, SpawnLoops
<1>17. ASSUME NEW t \in Task, HandOver(t) PROVE TypeOK'
  <2>1. Woken(starter) \in [Task -> {"none", "register", "check", "decided", "asleep", "work", "join", "exited"}]
    BY <1>0, WokenIs DEF TypeOK
  <2>2. work_count_ = 1
    BY <1>0, <1>17 DEF HandOver, OneWorker, Working
  <2>3. starter' \in [Task -> {"none", "register", "check", "decided", "asleep", "work", "join", "exited"}]
    BY <1>17, <2>1 DEF HandOver
  <2>4. /\ sender' \in [Task -> {"none", "check", "decided", "asleep", "write", "exited"}]
        /\ recver' \in [Task -> {"none", "check", "decided", "asleep", "sort", "exited"}]
    BY <1>0, <1>17 DEF HandOver, TypeOK
  <2>5. work_count_' \in Nat
    BY <1>17, <2>2 DEF HandOver
  <2>6. UNCHANGED <<caller, stop_works_, work_task_id_, task_mtx_, outgoing, incoming, state_, calls>>
    BY <1>17 DEF HandOver
  <2> QED BY <1>0, <2>3, <2>4, <2>5, <2>6 DEF TypeOK
<1>18. ASSUME NEW t \in Task, SendCheck(t) PROVE TypeOK'
  <2>1. send_buffer_' \in Seq(Frame) /\ sending' \in [Task -> Seq(Frame)]
    <3>1. << >> \in Seq(Frame) /\ [sending EXCEPT ![t] = send_buffer_] \in [Task -> Seq(Frame)]
      BY <1>a
    <3> QED BY <1>18, <1>a, <3>1 DEF SendCheck
  <2>2. sender' \in [Task -> {"none", "check", "decided", "asleep", "write", "exited"}]
    <3>1. \E x \in {"exited", "write", "decided"} : sender' = [sender EXCEPT ![t] = x]
      BY <1>18 DEF SendCheck
    <3> QED BY <1>0, <3>1 DEF TypeOK
  <2> QED BY <1>18, <1>0, <2>1, <2>2 DEF SendCheck, TypeOK
<1>19. ASSUME NEW t \in Task, SendSleep(t) PROVE TypeOK'
  BY <1>0, <1>19 DEF TypeOK, SendSleep
<1>20. ASSUME NEW t \in Task, SendWrite(t) PROVE TypeOK'
  <2>1. out' \in Seq(Frame) /\ lost' \subseteq DOMAIN out'
    <3>1. Write(sending[t]) /\ sending[t] \in Seq(Frame) /\ lost \subseteq DOMAIN out
      BY <1>20, <1>0, <1>a DEF SendWrite, TypeOK
    <3> QED BY <1>a, <3>1, Written
  <2>2. sending' \in [Task -> Seq(Frame)]
    BY <1>20, <1>a DEF SendWrite
  <2> QED BY <1>20, <1>0, <2>1, <2>2 DEF SendWrite, TypeOK
<1>21. ASSUME NEW t \in Task, RecvCheck(t) PROVE TypeOK'
  <2>1. buffer_' \in Seq(Frame) /\ sorting' \in [Task -> Seq(Frame)]
    <3>1. CASE buffer_ # << >>
      <4>1. Tail(buffer_) \in Seq(Frame) /\ <<Head(buffer_)>> \in Seq(Frame)
        BY <3>1, <1>a
      <4> QED BY <1>21, <1>a, <4>1 DEF RecvCheck
    <3>2. CASE buffer_ = << >>
      BY <1>21, <1>a, <3>2 DEF RecvCheck
    <3> QED BY <3>1, <3>2
  <2>2. recver' \in [Task -> {"none", "check", "decided", "asleep", "sort", "exited"}]
    <3>1. \E x \in {"exited", "sort", "decided"} : recver' = [recver EXCEPT ![t] = x]
      BY <1>21 DEF RecvCheck
    <3> QED BY <1>0, <3>1 DEF TypeOK
  <2> QED BY <1>21, <1>0, <2>1, <2>2 DEF RecvCheck, TypeOK
<1>22. ASSUME NEW t \in Task, RecvSleep(t) PROVE TypeOK'
  BY <1>0, <1>22 DEF TypeOK, RecvSleep
<1>23. ASSUME NEW t \in Task, RecvSort(t) PROVE TypeOK'
  <2>1. sorting[t][1] \in Frame /\ sorting[t][1].box \in Box
    <3>1. recver[t] = "sort" /\ sorting[t] \in Seq(Frame) /\ Len(sorting[t]) = 1
      BY <1>0, <1>a, <1>23 DEF RecvSort, Holding
    <3>2. sorting[t][1] \in Frame
      BY <3>1
    <3> QED BY <3>2 DEF Frame
  <2>2. mapbuffer_' \in [Box -> Seq(Frame)] /\ sorted' \in Seq(Frame)
        /\ sorting' \in [Task -> Seq(Frame)]
    BY <1>23, <1>a, <2>1 DEF RecvSort
  <2> QED BY <1>0, <1>23, <2>2 DEF TypeOK, RecvSort
<1>24. CASE NetWrite
  <2>1. buffer_' \in Seq(Frame) /\ in' \in Seq(Frame)
    <3>1. in # << >> /\ buffer_' = Append(buffer_, Head(in)) /\ in' = Tail(in)
      BY <1>24 DEF NetWrite
    <3> QED BY <1>a, <3>1
  <2> QED BY <1>0, <1>24, <2>1 DEF TypeOK, NetWrite
<1>25. CASE NetNotify
  <2>1. Woken(recver) \in [Task -> {"none", "check", "decided", "asleep", "sort", "exited"}]
    BY <1>0, WokenIs DEF TypeOK
  <2> QED BY <1>0, <1>25, <2>1 DEF TypeOK, NetNotify
<1>26. CASE Close
  <2>1. out' \in Seq(Frame) /\ lost' \subseteq DOMAIN out'
    <3>1. Write(send_buffer_) /\ lost \subseteq DOMAIN out
      BY <1>26, <1>0 DEF Close, TypeOK
    <3> QED BY <1>a, <3>1, Written
  <2>2. send_buffer_' \in Seq(Frame)
    BY <1>26 DEF Close
  <2> QED BY <1>0, <1>26, <2>1, <2>2 DEF TypeOK, Close
<1>27. CASE UNCHANGED vars
  BY <1>0, <1>27 DEF TypeOK
<1> QED
  BY <1>1, <1>2, <1>3, <1>4, <1>5, <1>6, <1>7, <1>8, <1>9, <1>10, <1>11, <1>12, <1>13, <1>14, <1>15, <1>16, <1>17, <1>18, <1>19, <1>20, <1>21, <1>22, <1>23, <1>24, <1>25, <1>26, <1>27
  DEF Next, User, Internal, Starter, Sender, Recver, Epoll
-----------------------------------------------------------------------------
(* OneWorker, action by action.                                            *)

(* A step that starts no loop, and moves no do_start thread into or out of *)
(* its working section, preserves OneWorker.                               *)
LEMMA SameWorker ==
  ASSUME OneWorker, work_count_' = work_count_,
         \A u \in Task : Working(u)' <=> Working(u),
         \A u \in Task : recver'[u] # "none" => recver[u] # "none",
         \A u \in Task : sender'[u] # "none" => sender[u] # "none"
  PROVE  OneWorker'
<1>1. (\E u \in Task : Working(u)') <=> (\E u \in Task : Working(u))
  OBVIOUS
<1>2. \A u, v \in Task : Working(u)' /\ Working(v)' => u = v
  BY DEF OneWorker
<1>3. work_count_' = IF \E u \in Task : Working(u)' THEN 1 ELSE 0
  BY <1>1 DEF OneWorker
<1>4. \A u \in Task : (recver'[u] # "none" \/ sender'[u] # "none") => Working(u)'
  BY DEF OneWorker
<1> QED
  BY <1>2, <1>3, <1>4 DEF OneWorker

(* No step lets a second task run loops.                                   *)
LEMMA OneWorkerStep ==
  ASSUME IInv, [Next]_vars
  PROVE  OneWorker'
<1> USE DEF vars, works, outgoing, incoming, calls
<1>0. OneWorker /\ Threads
  BY DEF IInv
<1>t. /\ starter \in [Task -> {"none", "register", "check", "decided", "asleep",
                               "work", "join", "exited"}]
      /\ recver \in [Task -> {"none", "check", "decided", "asleep", "sort", "exited"}]
      /\ sender \in [Task -> {"none", "check", "decided", "asleep", "write", "exited"}]
  BY DEF IInv, TypeOK
<1>w. /\ \A u \in Task : Woken(sender)[u] = IF sender[u] = "asleep" THEN "check" ELSE sender[u]
      /\ \A u \in Task : Woken(recver)[u] = IF recver[u] = "asleep" THEN "check" ELSE recver[u]
      /\ \A u \in Task : Woken(starter)[u] = IF starter[u] = "asleep" THEN "check" ELSE starter[u]
  BY DEF Woken
<1>1. CASE UNCHANGED <<starter, recver, sender, work_count_>>
  BY <1>0, <1>1, SameWorker DEF Working
<1>2. ASSUME NEW t \in Task, StartLock(t) PROVE OneWorker'
  <2>1. starter[t] = "none" /\ starter' = [starter EXCEPT ![t] = "register"]
        /\ sender' = Woken(sender) /\ UNCHANGED <<recver, work_count_>>
    BY <1>2, <1>0 DEF StartLock, Put, Threads
  <2>2. \A u \in Task : Working(u)' <=> Working(u)
    BY <1>t, <2>1 DEF Working
  <2> QED BY <1>0, <1>t, <1>w, <2>1, <2>2, SameWorker
<1>3. ASSUME NEW t \in Task, Send(t) PROVE OneWorker'
  BY <1>3, <1>0, <1>t, <1>w, SameWorker DEF Send, Put, Working
<1>4. ASSUME NEW t \in Task, StopNotify(t) PROVE OneWorker'
  <2>1. work_count_' = work_count_
    BY <1>4 DEF StopNotify
  <2>2. \A u \in Task : Working(u)' <=> Working(u)
    BY <1>4, <1>t, <1>w DEF StopNotify, Working
  <2>3. \A u \in Task : /\ recver'[u] # "none" => recver[u] # "none"
                        /\ sender'[u] # "none" => sender[u] # "none"
    BY <1>4, <1>t, <1>w DEF StopNotify
  <2> QED BY <1>0, <2>1, <2>2, <2>3, SameWorker
<1>5. ASSUME NEW t \in Task,
             StopJoin(t) \/ Register(t) \/ StarterSleep(t)
      PROVE  OneWorker'
  <2>1. UNCHANGED <<recver, sender, work_count_>>
    BY <1>5 DEF StopJoin, Register, StarterSleep
  <2>2. \A u \in Task : Working(u)' <=> Working(u)
    BY <1>5, <1>t DEF StopJoin, Register, StarterSleep, Working
  <2> QED BY <1>0, <2>1, <2>2, SameWorker
<1>6. ASSUME NEW t \in Task, Acquire(t) PROVE OneWorker'
  <2>1. CASE work_count_ = 0
    <3>1. /\ starter' = [starter EXCEPT ![t] = "work"] /\ work_count_' = 1
          /\ UNCHANGED <<recver, sender>>
      BY <1>6, <2>1 DEF Acquire
    <3>2. \A u \in Task : ~Working(u)
      BY <1>0, <2>1 DEF OneWorker
    <3>3. \A u \in Task : Working(u)' <=> u = t
      BY <1>t, <3>1, <3>2 DEF Working
    <3>4. \A u \in Task : recver[u] = "none" /\ sender[u] = "none"
      BY <1>0, <3>2 DEF OneWorker
    <3> QED BY <3>1, <3>3, <3>4 DEF OneWorker
  <2>2. CASE work_count_ # 0
    <3>1. \E x \in {"exited", "decided"} : starter' = [starter EXCEPT ![t] = x]
      BY <1>6, <2>2 DEF Acquire
    <3>2. starter[t] = "check" /\ UNCHANGED <<recver, sender, work_count_>>
      BY <1>6, <2>2 DEF Acquire
    <3>3. \A u \in Task : Working(u)' <=> Working(u)
      BY <1>t, <3>1, <3>2 DEF Working
    <3> QED BY <1>0, <3>2, <3>3, SameWorker
  <2> QED BY <2>1, <2>2
<1>7. ASSUME NEW t \in Task, SpawnLoops(t) PROVE OneWorker'
  <2>1. /\ starter[t] = "work" /\ starter' = [starter EXCEPT ![t] = "join"]
        /\ work_count_' = work_count_
        /\ recver' = [recver EXCEPT ![t] = "check"]
        /\ sender' = [sender EXCEPT ![t] = "check"]
    BY <1>7 DEF SpawnLoops
  <2>2. Working(t) /\ \A u \in Task : Working(u)' <=> Working(u)
    BY <1>t, <2>1 DEF Working
  <2>3. \A u \in Task : (recver'[u] # "none" \/ sender'[u] # "none") => Working(u)'
    BY <1>0, <1>t, <2>1, <2>2 DEF OneWorker
  <2>4. (\E u \in Task : Working(u)') <=> (\E u \in Task : Working(u))
    BY <2>2
  <2>5. \A u, v \in Task : Working(u)' /\ Working(v)' => u = v
    BY <1>0, <2>2 DEF OneWorker
  <2>6. work_count_' = IF \E u \in Task : Working(u)' THEN 1 ELSE 0
    BY <1>0, <2>1, <2>4 DEF OneWorker
  <2> QED BY <2>3, <2>5, <2>6 DEF OneWorker
<1>8. ASSUME NEW t \in Task, HandOver(t) PROVE OneWorker'
  <2>1. /\ starter[t] = "join" /\ starter' = [Woken(starter) EXCEPT ![t] = "exited"]
        /\ work_count_' = work_count_ - 1
        /\ recver' = [recver EXCEPT ![t] = "none"]
        /\ sender' = [sender EXCEPT ![t] = "none"]
    BY <1>8 DEF HandOver
  <2>2. Working(t) /\ work_count_ = 1
    BY <1>0, <2>1 DEF Working, OneWorker
  <2>3. \A u \in Task : u # t => ~Working(u) /\ recver[u] = "none" /\ sender[u] = "none"
    BY <1>0, <2>2 DEF OneWorker
  <2>4. Woken(starter) \in [Task -> {"none", "register", "check", "decided", "asleep",
                                     "work", "join", "exited"}]
    BY <1>t, WokenIs
  <2>5. \A u \in Task : ~Working(u)'
    BY <1>w, <2>1, <2>3, <2>4 DEF Working
  <2>6. \A u \in Task : recver'[u] = "none" /\ sender'[u] = "none"
    BY <1>t, <2>1, <2>3
  <2>7. work_count_' = 0
    BY <2>1, <2>2
  <2> QED BY <2>5, <2>6, <2>7 DEF OneWorker
<1>9. ASSUME NEW t \in Task, Sender(t) PROVE OneWorker'
  <2>1. sender[t] # "none" /\ UNCHANGED <<starter, recver, work_count_>>
    BY <1>9 DEF Sender, SendCheck, SendSleep, SendWrite
  <2>2. \E x \in {"exited", "write", "decided", "asleep", "check"} :
          sender' = [sender EXCEPT ![t] = x]
    BY <1>9 DEF Sender, SendCheck, SendSleep, SendWrite
  <2> QED BY <1>0, <1>t, <2>1, <2>2, SameWorker DEF Working
<1>10. ASSUME NEW t \in Task, Recver(t) PROVE OneWorker'
  <2>1. recver[t] # "none" /\ UNCHANGED <<starter, sender, work_count_>>
    BY <1>10 DEF Recver, RecvCheck, RecvSleep, RecvSort
  <2>2. \E x \in {"exited", "sort", "decided", "asleep", "check"} :
          recver' = [recver EXCEPT ![t] = x]
    BY <1>10 DEF Recver, RecvCheck, RecvSleep, RecvSort
  <2> QED BY <1>0, <1>t, <2>1, <2>2, SameWorker DEF Working
<1>11. CASE NetNotify
  BY <1>11, <1>0, <1>t, <1>w, SameWorker DEF NetNotify, Working
<1>12. ASSUME NEW t \in Task,
              \/ StartCall(t) \/ StartReturn(t) \/ RecvCall(t) \/ RecvReturn(t)
              \/ StopCall(t) \/ StopLock(t) \/ StopRecv(t) \/ StopFlag(t)
       PROVE  OneWorker'
  <2>1. UNCHANGED <<starter, recver, sender, work_count_>>
    BY <1>12 DEF StartCall, StartReturn, RecvCall, RecvReturn, StopCall, StopLock,
                 StopRecv, StopFlag
  <2> QED BY <1>1, <2>1
<1>13. CASE NetWrite \/ Close \/ UNCHANGED vars
  <2>1. UNCHANGED <<starter, recver, sender, work_count_>>
    BY <1>13 DEF NetWrite, Close
  <2> QED BY <1>1, <2>1
<1> QED
  BY <1>2, <1>3, <1>4, <1>5, <1>6, <1>7, <1>8, <1>9, <1>10, <1>11, <1>12, <1>13
  DEF Next, User, Internal, Starter, Epoll
-----------------------------------------------------------------------------
(* The auxiliary parts.                                                    *)

(* A loop that holds frames keeps its place until it has passed them on.   *)
LEMMA HoldingStep ==
  ASSUME IInv, [Next]_vars
  PROVE  Holding'
<1> USE DEF vars, works, outgoing, incoming, calls
<1>0. OneWorker /\ Holding
  BY DEF IInv
<1>t. /\ recver \in [Task -> {"none", "check", "decided", "asleep", "sort", "exited"}]
      /\ sender \in [Task -> {"none", "check", "decided", "asleep", "write", "exited"}]
      /\ sending \in [Task -> Seq(Frame)] /\ sorting \in [Task -> Seq(Frame)]
      /\ buffer_ \in Seq(Frame)
  BY DEF IInv, TypeOK
<1>w. /\ \A u \in Task : Woken(sender)[u] = IF sender[u] = "asleep" THEN "check" ELSE sender[u]
      /\ \A u \in Task : Woken(recver)[u] = IF recver[u] = "asleep" THEN "check" ELSE recver[u]
  BY DEF Woken
<1>1. CASE /\ UNCHANGED <<sending, sorting>>
           /\ \A u \in Task : sender[u] = "write" => sender'[u] = "write"
           /\ \A u \in Task : (recver[u] = "sort") <=> (recver'[u] = "sort")
  BY <1>0, <1>1 DEF Holding
<1>2. ASSUME NEW t \in Task, StartLock(t) \/ Send(t) PROVE Holding'
  <2>1. sender' = Woken(sender) /\ UNCHANGED <<recver, sending, sorting>>
    BY <1>2 DEF StartLock, Send, Put
  <2> QED BY <1>1, <1>w, <2>1
<1>3. ASSUME NEW t \in Task, StopNotify(t) PROVE Holding'
  <2>1. UNCHANGED <<sending, sorting>>
    BY <1>3 DEF StopNotify
  <2>2. /\ \A u \in Task : sender[u] = "write" => sender'[u] = "write"
        /\ \A u \in Task : (recver[u] = "sort") <=> (recver'[u] = "sort")
    BY <1>3, <1>w DEF StopNotify
  <2> QED BY <1>1, <2>1, <2>2
<1>4. ASSUME NEW t \in Task, SpawnLoops(t) PROVE Holding'
  <2>1. /\ recver' = [recver EXCEPT ![t] = "check"]
        /\ sender' = [sender EXCEPT ![t] = "check"]
        /\ UNCHANGED <<sending, sorting>>
    BY <1>4 DEF SpawnLoops
  <2>2. sender[t] # "write" /\ recver[t] # "sort"
    BY <1>4 DEF IInv, Unspawned, SpawnLoops
  <2> QED BY <1>1, <1>t, <2>1, <2>2
<1>5. ASSUME NEW t \in Task, HandOver(t) PROVE Holding'
  <2>1. /\ recver[t] = "exited" /\ sender[t] = "exited"
        /\ recver' = [recver EXCEPT ![t] = "none"]
        /\ sender' = [sender EXCEPT ![t] = "none"]
        /\ UNCHANGED <<sending, sorting>>
    BY <1>5 DEF HandOver
  <2> QED BY <1>1, <1>t, <2>1
<1>6. ASSUME NEW t \in Task, SendCheck(t) \/ SendSleep(t) PROVE Holding'
  <2>1. sender[t] # "write" /\ UNCHANGED <<recver, sorting>>
    BY <1>6 DEF SendCheck, SendSleep
  <2>2. CASE UNCHANGED sending
    <3>1. \E x \in {"exited", "write", "decided", "asleep"} :
            sender' = [sender EXCEPT ![t] = x]
      BY <1>6 DEF SendCheck, SendSleep
    <3> QED BY <1>1, <1>t, <2>1, <2>2, <3>1
  <2>3. CASE ~UNCHANGED sending
    <3>1. /\ sending' = [sending EXCEPT ![t] = send_buffer_]
          /\ sender' = [sender EXCEPT ![t] = "write"]
      BY <1>6, <2>3 DEF SendCheck, SendSleep
    <3> QED BY <1>0, <1>t, <2>1, <3>1 DEF Holding
  <2> QED BY <2>2, <2>3
<1>7. ASSUME NEW t \in Task, SendWrite(t) PROVE Holding'
  BY <1>7, <1>0, <1>t DEF SendWrite, Holding
<1>8. ASSUME NEW t \in Task, RecvCheck(t) \/ RecvSleep(t) PROVE Holding'
  <2>1. recver[t] # "sort" /\ UNCHANGED <<sender, sending>>
    BY <1>8 DEF RecvCheck, RecvSleep
  <2>2. CASE /\ sorting' = [sorting EXCEPT ![t] = <<Head(buffer_)>>]
             /\ recver' = [recver EXCEPT ![t] = "sort"]
    <3>1. Len(<<Head(buffer_)>>) = 1
      OBVIOUS
    <3> QED BY <1>0, <1>t, <2>1, <2>2, <3>1 DEF Holding
  <2>3. CASE /\ UNCHANGED sorting
             /\ \E x \in {"exited", "decided", "asleep"} : recver' = [recver EXCEPT ![t] = x]
    BY <1>1, <1>t, <2>1, <2>3
  <2> QED BY <1>8, <2>2, <2>3 DEF RecvCheck, RecvSleep
<1>9. ASSUME NEW t \in Task, RecvSort(t) PROVE Holding'
  BY <1>9, <1>0, <1>t DEF RecvSort, Holding
<1>10. CASE NetNotify
  BY <1>10, <1>1, <1>w DEF NetNotify
<1>11. ASSUME NEW t \in Task,
              \/ StartCall(t) \/ StartReturn(t) \/ RecvCall(t) \/ RecvReturn(t)
              \/ StopCall(t) \/ StopLock(t) \/ StopRecv(t) \/ StopFlag(t)
              \/ StopJoin(t) \/ Register(t) \/ Acquire(t) \/ StarterSleep(t)
       PROVE  Holding'
  <2>1. UNCHANGED <<recver, sender, sending, sorting>>
    BY <1>11 DEF StartCall, StartReturn, RecvCall, RecvReturn, StopCall, StopLock,
                 StopRecv, StopFlag, StopJoin, Register, Acquire, StarterSleep
  <2> QED BY <1>1, <2>1
<1>12. CASE NetWrite \/ Close \/ UNCHANGED vars
  <2>1. UNCHANGED <<recver, sender, sending>> /\ UNCHANGED sorting
    BY <1>12 DEF NetWrite, Close
  <2> QED BY <1>1, <2>1
<1> QED
  BY <1>2, <1>3, <1>4, <1>5, <1>6, <1>7, <1>8, <1>9, <1>10, <1>11, <1>12
  DEF Next, User, Internal, Starter, Sender, Recver, Epoll

(* A task that has become worker and not spawned its loops has none.       *)
LEMMA UnspawnedStep ==
  ASSUME IInv, [Next]_vars
  PROVE  Unspawned'
<1> USE DEF vars, works, outgoing, incoming, calls
<1>0. Unspawned /\ OneWorker
  BY DEF IInv
<1>t. /\ starter \in [Task -> {"none", "register", "check", "decided", "asleep",
                               "work", "join", "exited"}]
      /\ recver \in [Task -> {"none", "check", "decided", "asleep", "sort", "exited"}]
      /\ sender \in [Task -> {"none", "check", "decided", "asleep", "write", "exited"}]
  BY DEF IInv, TypeOK
<1>w. /\ \A u \in Task : Woken(sender)[u] = IF sender[u] = "asleep" THEN "check" ELSE sender[u]
      /\ \A u \in Task : Woken(recver)[u] = IF recver[u] = "asleep" THEN "check" ELSE recver[u]
      /\ \A u \in Task : Woken(starter)[u] = IF starter[u] = "asleep" THEN "check" ELSE starter[u]
  BY DEF Woken
<1>1. ASSUME NEW t \in Task, StartLock(t) \/ Send(t) PROVE Unspawned'
  <2>1. /\ sender' = Woken(sender) /\ UNCHANGED recver
        /\ \/ UNCHANGED starter
           \/ starter' = [starter EXCEPT ![t] = "register"]
    BY <1>1 DEF StartLock, Send, Put
  <2> QED BY <1>0, <1>t, <1>w, <2>1 DEF Unspawned
<1>2. ASSUME NEW t \in Task, StopNotify(t) PROVE Unspawned'
  BY <1>2, <1>0, <1>t, <1>w DEF StopNotify, Unspawned
<1>3. ASSUME NEW t \in Task, StopJoin(t) \/ Register(t) \/ StarterSleep(t)
      PROVE  Unspawned'
  BY <1>3, <1>0, <1>t DEF StopJoin, Register, StarterSleep, Unspawned
<1>4. ASSUME NEW t \in Task, Acquire(t) PROVE Unspawned'
  <2>1. starter[t] = "check" /\ UNCHANGED <<recver, sender>>
    BY <1>4 DEF Acquire
  <2>2. recver[t] = "none" /\ sender[t] = "none"
    BY <1>0, <2>1 DEF OneWorker, Working
  <2>3. \E x \in {"work", "exited", "decided"} : starter' = [starter EXCEPT ![t] = x]
    BY <1>4 DEF Acquire
  <2> QED BY <1>0, <1>t, <2>1, <2>2, <2>3 DEF Unspawned
<1>5. ASSUME NEW t \in Task, SpawnLoops(t) PROVE Unspawned'
  BY <1>5, <1>0, <1>t DEF SpawnLoops, Unspawned
<1>6. ASSUME NEW t \in Task, HandOver(t) PROVE Unspawned'
  <2>1. /\ starter' = [Woken(starter) EXCEPT ![t] = "exited"]
        /\ recver' = [recver EXCEPT ![t] = "none"]
        /\ sender' = [sender EXCEPT ![t] = "none"]
    BY <1>6 DEF HandOver
  <2>2. Woken(starter) \in [Task -> {"none", "register", "check", "decided", "asleep",
                                     "work", "join", "exited"}]
    BY <1>t, WokenIs
  <2> QED BY <1>0, <1>t, <1>w, <2>1, <2>2 DEF Unspawned
<1>7. ASSUME NEW t \in Task, Sender(t) PROVE Unspawned'
  <2>1. sender[t] # "none" /\ UNCHANGED <<starter, recver>>
    BY <1>7 DEF Sender, SendCheck, SendSleep, SendWrite
  <2>2. \E x \in {"exited", "write", "decided", "asleep", "check"} :
          sender' = [sender EXCEPT ![t] = x]
    BY <1>7 DEF Sender, SendCheck, SendSleep, SendWrite
  <2> QED BY <1>0, <1>t, <2>1, <2>2 DEF Unspawned
<1>8. ASSUME NEW t \in Task, Recver(t) PROVE Unspawned'
  <2>1. recver[t] # "none" /\ UNCHANGED <<starter, sender>>
    BY <1>8 DEF Recver, RecvCheck, RecvSleep, RecvSort
  <2>2. \E x \in {"exited", "sort", "decided", "asleep", "check"} :
          recver' = [recver EXCEPT ![t] = x]
    BY <1>8 DEF Recver, RecvCheck, RecvSleep, RecvSort
  <2> QED BY <1>0, <1>t, <2>1, <2>2 DEF Unspawned
<1>9. CASE NetNotify
  BY <1>9, <1>0, <1>w DEF NetNotify, Unspawned
<1>10. ASSUME NEW t \in Task,
              \/ StartCall(t) \/ StartReturn(t) \/ RecvCall(t) \/ RecvReturn(t)
              \/ StopCall(t) \/ StopLock(t) \/ StopRecv(t) \/ StopFlag(t)
       PROVE  Unspawned'
  <2>1. UNCHANGED <<starter, recver, sender>>
    BY <1>10 DEF StartCall, StartReturn, RecvCall, RecvReturn, StopCall, StopLock,
                 StopRecv, StopFlag
  <2> QED BY <1>0, <2>1 DEF Unspawned
<1>11. CASE NetWrite \/ Close \/ UNCHANGED vars
  BY <1>11, <1>0 DEF NetWrite, Close, Unspawned
<1> QED
  BY <1>1, <1>2, <1>3, <1>4, <1>5, <1>6, <1>7, <1>8, <1>9, <1>10, <1>11
  DEF Next, User, Internal, Starter, Epoll

(* A do_start thread never outlives its task, and a closed connection has  *)
(* neither tasks nor unsent frames.                                        *)
LEMMA ThreadsStep ==
  ASSUME IInv, [Next]_vars
  PROVE  Threads'
<1> USE DEF vars, works, outgoing, incoming, calls
<1>0. Threads /\ OneWorker
  BY DEF IInv
<1>t. /\ starter \in [Task -> {"none", "register", "check", "decided", "asleep",
                               "work", "join", "exited"}]
      /\ caller \in [Task -> {"idle", "start", "await", "open", "recv", "stop",
                              "stop_recv", "stop_flag", "stop_notify", "stop_join"}]
  BY DEF IInv, TypeOK
<1>w. \A u \in Task : Woken(starter)[u] = IF starter[u] = "asleep" THEN "check" ELSE starter[u]
  BY DEF Woken
<1>1. CASE UNCHANGED <<caller, starter, state_, send_buffer_>>
  BY <1>0, <1>1 DEF Threads
<1>2. ASSUME NEW t \in Task, StartCall(t) PROVE Threads'
  BY <1>2, <1>0, <1>t DEF StartCall, Threads
<1>3. ASSUME NEW t \in Task, StartLock(t) PROVE Threads'
  <2>1. /\ caller[t] = "start" /\ caller' = [caller EXCEPT ![t] = "await"]
        /\ starter' = [starter EXCEPT ![t] = "register"] /\ state_' = state_
    BY <1>3 DEF StartLock
  <2> QED BY <1>0, <1>t, <2>1 DEF Threads
<1>4. ASSUME NEW t \in Task, Send(t) PROVE Threads'
  <2>1. caller[t] = "open" /\ UNCHANGED <<caller, starter, state_>>
    BY <1>4 DEF Send
  <2> QED BY <1>0, <2>1 DEF Threads
<1>5. ASSUME NEW t \in Task,
             \/ StartReturn(t) \/ RecvCall(t) \/ RecvReturn(t)
             \/ StopCall(t) \/ StopLock(t) \/ StopRecv(t) \/ StopFlag(t)
      PROVE  Threads'
  <2>1. /\ caller[t] # "idle" /\ UNCHANGED <<starter, state_>>
        /\ \E x \in {"open", "recv", "stop", "stop_recv", "stop_flag", "stop_notify"} :
             caller' = [caller EXCEPT ![t] = x]
    BY <1>5 DEF StartReturn, RecvCall, RecvReturn, StopCall, StopLock, StopRecv, StopFlag
  <2> QED BY <1>0, <1>t, <2>1 DEF Threads
<1>6. ASSUME NEW t \in Task, StopNotify(t) PROVE Threads'
  <2>1. /\ caller[t] # "idle" /\ state_' = state_
        /\ caller' = [caller EXCEPT ![t] = "stop_join"]
        /\ starter' = starter \/ starter' = Woken(starter)
    BY <1>6 DEF StopNotify
  <2> QED BY <1>0, <1>t, <1>w, <2>1 DEF Threads
<1>7. ASSUME NEW t \in Task, StopJoin(t) PROVE Threads'
  <2>1. /\ caller[t] # "idle" /\ state_' = state_
        /\ caller' = [caller EXCEPT ![t] = "idle"]
        /\ starter' = [starter EXCEPT ![t] = "none"]
    BY <1>7 DEF StopJoin
  <2> QED BY <1>0, <1>t, <2>1 DEF Threads
<1>8. ASSUME NEW t \in Task, Register(t) \/ Acquire(t) \/ StarterSleep(t) \/ SpawnLoops(t)
      PROVE  Threads'
  <2>1. /\ starter[t] # "none" /\ UNCHANGED <<caller, state_, send_buffer_>>
        /\ \E x \in {"check", "work", "exited", "decided", "asleep", "join"} :
             starter' = [starter EXCEPT ![t] = x]
    BY <1>8 DEF Register, Acquire, StarterSleep, SpawnLoops
  <2> QED BY <1>0, <1>t, <2>1 DEF Threads
<1>9. ASSUME NEW t \in Task, HandOver(t) PROVE Threads'
  <2>1. /\ starter[t] # "none" /\ UNCHANGED <<caller, state_, send_buffer_>>
        /\ starter' = [Woken(starter) EXCEPT ![t] = "exited"]
    BY <1>9 DEF HandOver
  <2>2. Woken(starter) \in [Task -> {"none", "register", "check", "decided", "asleep",
                                     "work", "join", "exited"}]
    BY <1>t, WokenIs
  <2> QED BY <1>0, <1>t, <1>w, <2>1, <2>2 DEF Threads
<1>10. ASSUME NEW t \in Task, Sender(t) PROVE Threads'
  <2>1. sender[t] # "none" /\ UNCHANGED <<caller, starter, state_>>
    BY <1>10 DEF Sender, SendCheck, SendSleep, SendWrite
  <2>2. starter[t] # "none"
    BY <1>0, <2>1 DEF OneWorker, Working
  <2> QED BY <1>0, <2>1, <2>2 DEF Threads
<1>11. ASSUME NEW t \in Task, Recver(t) PROVE Threads'
  BY <1>1, <1>11 DEF Recver, RecvCheck, RecvSleep, RecvSort
<1>12. CASE NetWrite \/ NetNotify \/ UNCHANGED vars
  BY <1>1, <1>12 DEF NetWrite, NetNotify
<1>13. CASE Close
  BY <1>13, <1>0 DEF Close, AllIdle, Threads
<1> QED
  BY <1>2, <1>3, <1>4, <1>5, <1>6, <1>7, <1>8, <1>9, <1>10, <1>11, <1>12, <1>13
  DEF Next, User, Internal, Starter, Epoll
-----------------------------------------------------------------------------
(* The order of the two streams.                                           *)

(* The outgoing stream: a put extends it, a take moves its boundary, and   *)
(* only the worker can be writing a chunk.                                 *)
LEMMA StreamStep ==
  ASSUME IInv, [Next]_vars
  PROVE  StreamOrder'
<1> USE DEF vars, works, incoming, calls
<1>0. StreamOrder /\ OneWorker /\ Holding /\ Threads
  BY DEF IInv
<1>t. /\ puts \in Seq(Frame) /\ send_buffer_ \in Seq(Frame) /\ out \in Seq(Frame)
      /\ sending \in [Task -> Seq(Frame)] /\ Held(sending) \in Seq(Frame)
  BY HeldType DEF IInv, TypeOK
<1>1. CASE UNCHANGED outgoing
  BY <1>0, <1>1 DEF StreamOrder, outgoing, Held
<1>2. ASSUME NEW t \in Task, StartLock(t) \/ Send(t) PROVE StreamOrder'
  <2>1. PICK f \in Frame : send_buffer_' = Append(send_buffer_, f) /\ puts' = Append(puts, f)
    <3>1. Len(puts) + 1 \in Nat
      BY <1>t
    <3> QED BY <1>2, <3>1, FrameType DEF StartLock, Send, Put
  <2>2. UNCHANGED <<sending, out>>
    BY <1>2 DEF StartLock, Send, Put
  <2> DEFINE h == Held(sending)
  <2>3. Held(sending') = h
    BY <2>2
  <2> HIDE DEF h
  <2>4. out \o h \o send_buffer_ = puts /\ h \in Seq(Frame)
    BY <1>0, <1>t DEF StreamOrder, h
  <2>5. (out \o h) \o Append(send_buffer_, f) = Append((out \o h) \o send_buffer_, f)
    <3>1. out \o h \in Seq(Frame)
      BY <1>t, <2>4
    <3> QED BY <1>t, <3>1, ConcatAppend
  <2> QED BY <2>1, <2>2, <2>3, <2>4, <2>5 DEF StreamOrder
<1>3. ASSUME NEW t \in Task, SendCheck(t) PROVE StreamOrder'
  <2>1. CASE UNCHANGED <<send_buffer_, sending>>
    BY <1>1, <1>3, <2>1 DEF SendCheck, outgoing
  <2>2. CASE sending' = [sending EXCEPT ![t] = send_buffer_] /\ send_buffer_' = << >>
    <3>1. sender[t] = "check" /\ UNCHANGED <<out, puts>>
      BY <1>3 DEF SendCheck
    <3>2. Working(t)
      BY <1>0, <3>1 DEF OneWorker
    <3>3. \A u \in Task : sending[u] # << >> => u = t
      BY <3>2, OnlyWorkerHolds
    <3>4. sending[t] = << >>
      BY <1>0, <3>1 DEF Holding
    <3>5. Held(sending) = << >>
      BY <3>3, <3>4, HeldNone
    <3>6. \A u \in Task : sending'[u] # << >> => u = t
      BY <1>t, <2>2, <3>3
    <3>7. Held(sending') = send_buffer_
      BY <1>t, <2>2, <3>6, HeldIs
    <3>8. out \o << >> \o send_buffer_ = out \o send_buffer_ \o << >>
      BY <1>t
    <3> QED BY <1>0, <2>2, <3>1, <3>5, <3>7, <3>8 DEF StreamOrder
  <2> QED BY <1>3, <2>1, <2>2 DEF SendCheck
<1>4. ASSUME NEW t \in Task, SendWrite(t) PROVE StreamOrder'
  <2>1. /\ sender[t] = "write" /\ UNCHANGED <<send_buffer_, puts>>
        /\ out' = out \o sending[t] /\ sending' = [sending EXCEPT ![t] = << >>]
    BY <1>4 DEF SendWrite, Write
  <2>2. Working(t)
    BY <1>0, <2>1 DEF OneWorker
  <2>3. \A u \in Task : sending[u] # << >> => u = t
    BY <2>2, OnlyWorkerHolds
  <2>4. Held(sending) = sending[t]
    BY <2>3, HeldIs
  <2>5. \A u \in Task : sending'[u] = << >>
    BY <1>t, <2>1, <2>3
  <2>6. Held(sending') = << >>
    BY <2>5, HeldNone
  <2>7. (out \o sending[t]) \o << >> \o send_buffer_ = out \o sending[t] \o send_buffer_
    BY <1>t
  <2> QED BY <1>0, <2>1, <2>4, <2>6, <2>7 DEF StreamOrder
<1>5. CASE Close
  <2>1. /\ out' = out \o send_buffer_ /\ send_buffer_' = << >>
        /\ UNCHANGED <<sending, puts>> /\ AllIdle
    BY <1>5 DEF Close, Write
  <2>2. \A u \in Task : sending[u] = << >>
    BY <1>0, <2>1 DEF AllIdle, Threads, OneWorker, Working, Holding
  <2>3. Held(sending) = << >> /\ Held(sending') = << >>
    BY <2>1, <2>2, HeldNone
  <2>4. out \o << >> \o send_buffer_ = (out \o send_buffer_) \o << >> \o << >>
    BY <1>t
  <2> QED BY <1>0, <2>1, <2>3, <2>4 DEF StreamOrder
<1>6. ASSUME NEW t \in Task,
             \/ StartCall(t) \/ StartReturn(t) \/ RecvCall(t) \/ RecvReturn(t)
             \/ StopCall(t) \/ StopLock(t) \/ StopRecv(t) \/ StopFlag(t)
             \/ StopNotify(t) \/ StopJoin(t)
             \/ Starter(t) \/ SendSleep(t) \/ Recver(t)
      PROVE  StreamOrder'
  <2>1. UNCHANGED outgoing
    BY <1>6 DEF StartCall, StartReturn, RecvCall, RecvReturn, StopCall, StopLock,
                StopRecv, StopFlag, StopNotify, StopJoin, Starter, Register, Acquire,
                StarterSleep, SpawnLoops, HandOver, SendSleep, Recver, RecvCheck,
                RecvSleep, RecvSort
  <2> QED BY <1>1, <2>1
<1>7. CASE NetWrite \/ NetNotify \/ UNCHANGED vars
  BY <1>1, <1>7 DEF NetWrite, NetNotify
<1> QED
  BY <1>2, <1>3, <1>4, <1>5, <1>6, <1>7 DEF Next, User, Internal, Sender, Epoll

(* The incoming stream: likewise.                                          *)
LEMMA ArrivalStep ==
  ASSUME IInv, [Next]_vars
  PROVE  ArrivalOrder'
<1> USE DEF vars, works, outgoing, calls
<1>0. ArrivalOrder /\ OneWorker /\ Holding
  BY DEF IInv
<1>t. /\ sorted \in Seq(Frame) /\ buffer_ \in Seq(Frame) /\ in \in Seq(Frame)
      /\ sorting \in [Task -> Seq(Frame)] /\ Held(sorting) \in Seq(Frame)
  BY HeldType DEF IInv, TypeOK
<1>1. CASE UNCHANGED <<sorted, sorting, buffer_, in, script>>
  BY <1>0, <1>1 DEF ArrivalOrder, Held
<1>2. CASE NetWrite
  <2>1. /\ in # << >> /\ buffer_' = Append(buffer_, Head(in)) /\ in' = Tail(in)
        /\ UNCHANGED <<sorted, sorting, script>>
    BY <1>2 DEF NetWrite
  <2> DEFINE h == Held(sorting)
  <2>2. Held(sorting') = h
    BY <2>1
  <2>3. sorted \o h \o buffer_ \o in = script /\ h \in Seq(Frame)
    BY <1>0, <1>t DEF ArrivalOrder
  <2> HIDE DEF h
  <2>4. (sorted \o h) \o Append(buffer_, Head(in)) \o Tail(in) = (sorted \o h) \o buffer_ \o in
    <3> DEFINE p == sorted \o h
    <3>1. p \in Seq(Frame)
      BY <1>t, <2>3
    <3>2. buffer_ \in Seq(Frame) /\ in \in Seq(Frame) /\ in # << >>
      BY <1>t, <2>1
    <3> HIDE DEF p
    <3>3. p \o Append(buffer_, Head(in)) \o Tail(in) = p \o buffer_ \o in
      BY <3>1, <3>2, MoveHead
    <3> QED BY <3>3 DEF p
  <2> QED BY <2>1, <2>2, <2>3, <2>4 DEF ArrivalOrder
<1>3. ASSUME NEW t \in Task, RecvCheck(t) PROVE ArrivalOrder'
  <2>1. CASE UNCHANGED <<buffer_, sorting>>
    BY <1>1, <1>3, <2>1 DEF RecvCheck
  <2>2. CASE /\ buffer_ # << >> /\ buffer_' = Tail(buffer_)
             /\ sorting' = [sorting EXCEPT ![t] = <<Head(buffer_)>>]
    <3>1. recver[t] = "check" /\ UNCHANGED <<sorted, in, script>>
      BY <1>3 DEF RecvCheck
    <3>2. Working(t)
      BY <1>0, <3>1 DEF OneWorker
    <3>3. \A u \in Task : sorting[u] # << >> => u = t
      BY <3>2, OnlyWorkerHolds
    <3>4. sorting[t] = << >>
      BY <1>0, <3>1 DEF Holding
    <3>5. Held(sorting) = << >>
      BY <3>3, <3>4, HeldNone
    <3>6. \A u \in Task : sorting'[u] # << >> => u = t
      BY <1>t, <2>2, <3>3
    <3>7. Held(sorting') = <<Head(buffer_)>>
      BY <1>t, <2>2, <3>6, HeldIs
    <3>8. sorted \o << >> \o buffer_ = sorted \o <<Head(buffer_)>> \o Tail(buffer_)
      <4>1. sorted \o << >> = sorted
        BY <1>t
      <4> QED BY <1>t, <2>2, <4>1, SplitHead
    <3> QED BY <1>0, <2>2, <3>1, <3>5, <3>7, <3>8 DEF ArrivalOrder
  <2> QED BY <1>3, <2>1, <2>2 DEF RecvCheck
<1>4. ASSUME NEW t \in Task, RecvSort(t) PROVE ArrivalOrder'
  <2>1. /\ recver[t] = "sort" /\ UNCHANGED <<buffer_, in, script>>
        /\ sorted' = Append(sorted, sorting[t][1])
        /\ sorting' = [sorting EXCEPT ![t] = << >>]
    BY <1>4 DEF RecvSort
  <2>2. Working(t) /\ Len(sorting[t]) = 1
    BY <1>0, <2>1 DEF OneWorker, Holding
  <2>3. \A u \in Task : sorting[u] # << >> => u = t
    BY <2>2, OnlyWorkerHolds
  <2>4. Held(sorting) = sorting[t]
    BY <2>3, HeldIs
  <2>5. \A u \in Task : sorting'[u] = << >>
    BY <1>t, <2>1, <2>3
  <2>6. Held(sorting') = << >>
    BY <2>5, HeldNone
  <2>7. Append(sorted, sorting[t][1]) \o << >> = sorted \o sorting[t]
    BY <1>t, <2>2, OneElement
  <2> QED BY <1>0, <2>1, <2>4, <2>6, <2>7 DEF ArrivalOrder
<1>5. ASSUME NEW t \in Task,
             User(t) \/ Internal(t) \/ Starter(t) \/ Sender(t) \/ RecvSleep(t)
      PROVE  ArrivalOrder'
  <2>1. UNCHANGED <<sorted, sorting, buffer_, in, script>>
    BY <1>5 DEF User, StartCall, Send, RecvCall, StopCall, Internal, StartLock,
                StartReturn, RecvReturn, StopLock, StopRecv, StopFlag, StopNotify,
                StopJoin, Starter, Register, Acquire, StarterSleep, SpawnLoops,
                HandOver, Sender, SendCheck, SendSleep, SendWrite, RecvSleep, incoming
  <2> QED BY <1>1, <2>1
<1>6. CASE NetNotify \/ Close \/ UNCHANGED vars
  BY <1>1, <1>6 DEF NetNotify, Close, incoming
<1> QED
  BY <1>2, <1>3, <1>4, <1>5, <1>6 DEF Next, Recver, Epoll
-----------------------------------------------------------------------------
(* A new connection satisfies the invariant.                               *)
LEMMA InitInv == Init => IInv
<1> SUFFICES ASSUME Init PROVE IInv
  OBVIOUS
<1>1. TypeOK
  BY BoundAssumption DEF Init, TypeOK
<1>2. Held(sending) = << >> /\ Held(sorting) = << >>
  <2>1. \A u \in Task : sending[u] = << >> /\ sorting[u] = << >>
    BY DEF Init
  <2> QED BY <2>1, HeldNone
<1>3. StreamOrder
  BY <1>2 DEF Init, StreamOrder
<1>4. ArrivalOrder
  BY <1>1, <1>2 DEF Init, ArrivalOrder, TypeOK
<1>5. OneWorker /\ Unspawned /\ Holding /\ Threads
  BY DEF Init, OneWorker, Working, Unspawned, Holding, Threads
<1> QED
  BY <1>1, <1>3, <1>4, <1>5 DEF IInv

(* Every reachable state of an endpoint satisfies the invariant.           *)
THEOREM SpecInv == Spec => []IInv
<1>1. IInv /\ [Next]_vars => IInv'
  BY TypeStep, OneWorkerStep, UnspawnedStep, HoldingStep, ThreadsStep, StreamStep,
     ArrivalStep DEF IInv
<1> QED BY InitInv, <1>1, PTL DEF Spec

(* The fields of Connection and its threads keep their types.              *)
THEOREM TypeCorrect == Spec => []TypeOK
<1>1. IInv => TypeOK
  BY DEF IInv
<1> QED BY <1>1, SpecInv, PTL

(* However many tasks share the connection, start and stop, the loops of   *)
(* at most one of them run (do_start's hand-over through work_count_).     *)
THEOREM OneWorkerAlways == Spec => []OneWorker
<1>1. IInv => OneWorker
  BY DEF IInv
<1> QED BY <1>1, SpecInv, PTL

(* What send() put is written to the socket in that order, nothing lost    *)
(* and nothing doubled, across every change of worker.                     *)
THEOREM StreamOrdered == Spec => []StreamOrder
<1>1. IInv => StreamOrder
  BY DEF IInv
<1> QED BY <1>1, SpecInv, PTL

(* What the socket delivered is sorted into mapbuffer_ in that order.      *)
THEOREM ArrivalsOrdered == Spec => []ArrivalOrder
<1>1. IInv => ArrivalOrder
  BY DEF IInv
<1> QED BY <1>1, SpecInv, PTL

(* close() leaves nothing unsent.                                          *)
THEOREM ClosedIsSent == Spec => []CloseSendsAll
<1>1. IInv => CloseSendsAll
  <2> SUFFICES ASSUME IInv, state_ = "closed" PROVE out = puts
    BY DEF CloseSendsAll
  <2>1. send_buffer_ = << >> /\ \A u \in Task : sending[u] = << >>
    BY DEF IInv, Threads, OneWorker, Working, Holding
  <2>2. Held(sending) = << >>
    BY <2>1, HeldNone
  <2>3. out \in Seq(Frame) /\ out \o << >> \o << >> = out
    BY DEF IInv, TypeOK
  <2> QED BY <2>1, <2>2, <2>3 DEF IInv, StreamOrder
<1> QED BY <1>1, SpecInv, PTL
-----------------------------------------------------------------------------
(* Rounds.                                                                 *)

\* the lock frames stop() has taken: one per finished round
Taken(t) == IF caller[t] \in {"idle", "stop_flag", "stop_notify", "stop_join"}
            THEN starts[t] ELSE starts[t] - 1

\* a mailbox for locks holds the frames of the rounds that follow, in order
RoundOf(t) ==
  /\ Taken(t) \in Nat
  /\ Taken(t) + Len(mapbuffer_[Lock(t)]) = CountOf(sorted, Lock(t))
  /\ \A i \in 1..Len(mapbuffer_[Lock(t)]) : mapbuffer_[Lock(t)][i].n = Taken(t) + i

Rounds == script \in Scripts /\ \A t \in Task : RoundOf(t)

(* The lock boxes of two tasks differ, and no lock box is a data box.      *)
LEMMA BoxesDiffer ==
  /\ \A t \in Task : Lock(t) \in Box /\ Msg(t) \in Box
  /\ \A t, u \in Task : Lock(t) # Msg(u)
  /\ \A t, u \in Task : Lock(t) = Lock(u) => t = u
  BY DEF Lock, Msg, Box

(* A frame more is counted under its own id and under no other.            *)
LEMMA CountAppend ==
  ASSUME NEW s \in Seq(Frame), NEW f \in Frame, NEW b
  PROVE  /\ CountOf(s, b) \in Nat
         /\ CountOf(Append(s, f), b) = CountOf(s, b) + (IF f.box = b THEN 1 ELSE 0)
<1> DEFINE A == { i \in DOMAIN s : s[i].box = b }
           B == { i \in DOMAIN Append(s, f) : Append(s, f)[i].box = b }
           k == Len(s) + 1
<1>1. /\ Len(s) \in Nat /\ DOMAIN s = 1..Len(s) /\ DOMAIN Append(s, f) = 1..k
      /\ \A i \in 1..Len(s) : Append(s, f)[i] = s[i]
      /\ Append(s, f)[k] = f
  OBVIOUS
<1>2. IsFiniteSet(1..Len(s))
  BY <1>1, FS_Interval
<1>3. IsFiniteSet(A) /\ k \notin A
  BY <1>1, <1>2, FS_Subset
<1>4. B = IF f.box = b THEN A \cup {k} ELSE A
  BY <1>1
<1>5. CountOf(s, b) = Cardinality(A) /\ CountOf(Append(s, f), b) = Cardinality(B)
  BY DEF CountOf
<1> HIDE DEF A, B, k
<1>6. Cardinality(A) \in Nat /\ Cardinality(A \cup {k}) = Cardinality(A) + 1
  BY <1>3, FS_CardinalityType, FS_AddElement
<1> QED BY <1>4, <1>5, <1>6

(* The frame loop_recv is about to sort is the next one of the script.     *)
LEMMA SortsNext ==
  ASSUME IInv, NEW t \in Task, recver[t] = "sort"
  PROVE  /\ sorting[t][1] \in Frame
         /\ Len(sorted) + 1 \in DOMAIN script
         /\ script[Len(sorted) + 1] = sorting[t][1]
         /\ SubSeq(script, 1, Len(sorted) + 1) = Append(sorted, sorting[t][1])
<1>1. /\ sorted \in Seq(Frame) /\ buffer_ \in Seq(Frame) /\ in \in Seq(Frame)
      /\ sorting[t] \in Seq(Frame) /\ script \in Seq(Frame)
  BY DEF IInv, TypeOK
<1>2. Len(sorting[t]) = 1 /\ Working(t)
  BY DEF IInv, Holding, OneWorker
<1>3. Held(sorting) = sorting[t]
  BY <1>2, OnlyWorkerHolds, HeldIs
<1>4. script = sorted \o sorting[t] \o buffer_ \o in
  BY <1>3 DEF IInv, ArrivalOrder
<1> DEFINE f == sorting[t][1]
           rest == buffer_ \o in
<1>5. f \in Frame /\ sorting[t] = <<f>> /\ rest \in Seq(Frame)
  BY <1>1, <1>2
<1> HIDE DEF f
<1>6. Append(sorted, f) = sorted \o sorting[t] /\ Append(sorted, f) \in Seq(Frame)
  BY <1>1, <1>5, AppendIsConcat
<1>7. script = Append(sorted, f) \o rest
  <2> DEFINE a == Append(sorted, f)
  <2>1. a \in Seq(Frame) /\ script = (a \o buffer_) \o in
    BY <1>4, <1>6
  <2> HIDE DEF a
  <2>2. (a \o buffer_) \o in = a \o (buffer_ \o in)
    BY <1>1, <2>1, Assoc, SMTT(20)
  <2> QED BY <2>1, <2>2 DEF a
<1> HIDE DEF rest
<1>8. Len(Append(sorted, f)) = Len(sorted) + 1 /\ Append(sorted, f)[Len(sorted) + 1] = f
  BY <1>1, <1>5
<1>9. SubSeq(script, 1, Len(sorted) + 1) = Append(sorted, f)
  BY <1>5, <1>6, <1>7, <1>8, SubSeqOfConcat1, SubSeqFull
<1>10. /\ Len(sorted) + 1 \in 1..Len(script)
       /\ script[Len(sorted) + 1] = f
  BY <1>1, <1>5, <1>6, <1>7, <1>8, ConcatProperties
<1> QED BY <1>1, <1>5, <1>9, <1>10 DEF f

(* A round is finished by taking its lock frame, and by nothing else.      *)
LEMMA RoundsStep ==
  ASSUME IInv, Rounds, [Next]_vars
  PROVE  Rounds'
<1> USE DEF vars, works, outgoing, incoming, calls
<1>t. /\ caller \in [Task -> {"idle", "start", "await", "open", "recv", "stop",
                              "stop_recv", "stop_flag", "stop_notify", "stop_join"}]
      /\ starts \in [Task -> Nat] /\ mapbuffer_ \in [Box -> Seq(Frame)]
      /\ sorted \in Seq(Frame) /\ sorting \in [Task -> Seq(Frame)]
  BY DEF IInv, TypeOK
<1>1. ASSUME UNCHANGED <<mapbuffer_, sorted, script>>,
             \A u \in Task : Taken(u)' = Taken(u)
      PROVE  Rounds'
  BY <1>1 DEF Rounds, RoundOf
<1>2. CASE UNCHANGED <<caller, starts, mapbuffer_, sorted, script>>
  BY <1>1, <1>2 DEF Taken
<1>3. ASSUME NEW t \in Task, StartCall(t) PROVE Rounds'
  <2>1. /\ caller[t] = "idle" /\ UNCHANGED <<mapbuffer_, sorted, script>>
        /\ caller' = [caller EXCEPT ![t] = "start"]
        /\ starts' = [starts EXCEPT ![t] = starts[t] + 1]
    BY <1>3 DEF StartCall
  <2>2. \A u \in Task : Taken(u)' = Taken(u)
    BY <1>t, <2>1 DEF Taken
  <2> QED BY <1>1, <2>1, <2>2
<1>4. ASSUME NEW t \in Task,
             \/ StartLock(t) \/ StartReturn(t) \/ RecvCall(t) \/ StopCall(t)
             \/ StopLock(t) \/ StopFlag(t) \/ StopNotify(t) \/ StopJoin(t)
      PROVE  Rounds'
  <2>1. UNCHANGED <<starts, mapbuffer_, sorted, script>>
    BY <1>4 DEF StartLock, StartReturn, RecvCall, StopCall, StopLock, StopFlag,
                StopNotify, StopJoin
  <2>2. \E x, y \in {"idle", "start", "await", "open", "recv", "stop", "stop_recv",
                     "stop_flag", "stop_notify", "stop_join"} :
          /\ caller[t] = x /\ caller' = [caller EXCEPT ![t] = y]
          /\ x \in {"idle", "stop_flag", "stop_notify", "stop_join"}
               <=> y \in {"idle", "stop_flag", "stop_notify", "stop_join"}
    BY <1>4 DEF StartLock, StartReturn, RecvCall, StopCall, StopLock, StopFlag,
                StopNotify, StopJoin
  <2>3. \A u \in Task : Taken(u)' = Taken(u)
    BY <1>t, <2>1, <2>2 DEF Taken
  <2> QED BY <1>1, <2>1, <2>3
<1>5. ASSUME NEW t \in Task, RecvReturn(t) PROVE Rounds'
  <2>1. /\ caller[t] = "recv" /\ caller' = [caller EXCEPT ![t] = "open"]
        /\ mapbuffer_' = [mapbuffer_ EXCEPT ![Msg(t)] = Tail(mapbuffer_[Msg(t)])]
        /\ UNCHANGED <<starts, sorted, script>>
    BY <1>5 DEF RecvReturn
  <2>2. \A u \in Task : Taken(u)' = Taken(u) /\ mapbuffer_'[Lock(u)] = mapbuffer_[Lock(u)]
    BY <1>t, <2>1, BoxesDiffer DEF Taken
  <2> QED BY <2>1, <2>2 DEF Rounds, RoundOf
<1>6. ASSUME NEW t \in Task, StopRecv(t) PROVE Rounds'
  <2> DEFINE m == mapbuffer_[Lock(t)]
  <2>1. /\ caller[t] = "stop_recv" /\ caller' = [caller EXCEPT ![t] = "stop_flag"]
        /\ m # << >> /\ mapbuffer_' = [mapbuffer_ EXCEPT ![Lock(t)] = Tail(m)]
        /\ UNCHANGED <<starts, sorted, script>>
    BY <1>6 DEF StopRecv
  <2>2. /\ Taken(t)' = Taken(t) + 1
        /\ \A u \in Task : u # t => Taken(u)' = Taken(u)
    BY <1>t, <2>1 DEF Taken
  <2>3. /\ mapbuffer_'[Lock(t)] = Tail(m)
        /\ \A u \in Task : u # t => mapbuffer_'[Lock(u)] = mapbuffer_[Lock(u)]
    BY <1>t, <2>1, BoxesDiffer
  <2>4. m \in Seq(Frame)
    BY <1>t, BoxesDiffer
  <2> HIDE DEF m
  <2>5. /\ Len(m) \in Nat \ {0} /\ Len(Tail(m)) = Len(m) - 1
        /\ \A i \in 1..(Len(m) - 1) : Tail(m)[i] = m[i + 1]
    BY <2>1, <2>4
  <2>6. /\ Taken(t) \in Nat /\ Taken(t) + Len(m) = CountOf(sorted, Lock(t))
        /\ \A i \in 1..Len(m) : m[i].n = Taken(t) + i
    BY DEF Rounds, RoundOf, m
  <2>7. /\ Taken(t)' \in Nat
        /\ Taken(t)' + Len(Tail(m)) = CountOf(sorted, Lock(t))
        /\ \A i \in 1..Len(Tail(m)) : Tail(m)[i].n = Taken(t)' + i
    <3>1. ASSUME NEW i \in 1..(Len(m) - 1) PROVE Tail(m)[i].n = (Taken(t) + 1) + i
      <4>1. i + 1 \in 1..Len(m) /\ Taken(t) + (i + 1) = (Taken(t) + 1) + i
        BY <2>5, <2>6
      <4> QED BY <2>5, <2>6, <4>1
    <3>2. Taken(t)' \in Nat /\ Taken(t)' + Len(Tail(m)) = CountOf(sorted, Lock(t))
      BY <2>2, <2>5, <2>6
    <3>3. \A i \in 1..Len(Tail(m)) : Tail(m)[i].n = Taken(t)' + i
      BY <2>2, <2>5, <3>1, Zenon
    <3> QED BY <3>2, <3>3
  <2>8. RoundOf(t)'
    BY <2>1, <2>3, <2>7 DEF RoundOf
  <2>9. ASSUME NEW u \in Task, u # t PROVE RoundOf(u)'
    <3>1. RoundOf(u)
      BY DEF Rounds
    <3>2. Taken(u)' = Taken(u) /\ mapbuffer_'[Lock(u)] = mapbuffer_[Lock(u)]
      BY <2>2, <2>3, <2>9
    <3> QED BY <2>1, <3>1, <3>2 DEF RoundOf
  <2> QED BY <2>1, <2>8, <2>9 DEF Rounds
<1>7. ASSUME NEW t \in Task, RecvSort(t) PROVE Rounds'
  <2> DEFINE f == sorting[t][1]
  <2>1. /\ recver[t] = "sort" /\ UNCHANGED <<caller, starts, script>>
        /\ mapbuffer_' = [mapbuffer_ EXCEPT ![f.box] = Append(mapbuffer_[f.box], f)]
        /\ sorted' = Append(sorted, f)
    BY <1>7 DEF RecvSort
  <2>2. /\ f \in Frame /\ Len(sorted) + 1 \in DOMAIN script
        /\ script[Len(sorted) + 1] = f
        /\ SubSeq(script, 1, Len(sorted) + 1) = Append(sorted, f)
    BY <2>1, SortsNext
  <2> HIDE DEF f
  <2>3. f.box \in Box /\ f.n \in Nat
    BY <2>2 DEF Frame
  <2>4. \A u \in Task : Taken(u)' = Taken(u) /\ Taken(u) \in Nat
    BY <2>1 DEF Taken, Rounds, RoundOf
  <2>5. ASSUME NEW u \in Task, f.box # Lock(u)
        PROVE  /\ mapbuffer_'[Lock(u)] = mapbuffer_[Lock(u)]
               /\ CountOf(sorted', Lock(u)) = CountOf(sorted, Lock(u))
    <3>1. CountOf(Append(sorted, f), Lock(u)) = CountOf(sorted, Lock(u)) + 0
          /\ CountOf(sorted, Lock(u)) \in Nat
      BY <1>t, <2>2, <2>5, CountAppend
    <3>2. mapbuffer_'[Lock(u)] = mapbuffer_[Lock(u)]
      BY <1>t, <2>1, <2>5, BoxesDiffer
    <3> QED BY <2>1, <3>1, <3>2
  <2>6. ASSUME NEW u \in Task, f.box = Lock(u)
        PROVE  /\ mapbuffer_'[Lock(u)] = Append(mapbuffer_[Lock(u)], f)
               /\ CountOf(sorted', Lock(u)) = CountOf(sorted, Lock(u)) + 1
               /\ CountOf(sorted, Lock(u)) \in Nat
               /\ f.n = CountOf(sorted, Lock(u)) + 1
    <3>1. CountOf(Append(sorted, f), Lock(u)) = CountOf(sorted, Lock(u)) + 1
          /\ CountOf(sorted, Lock(u)) \in Nat
      BY <1>t, <2>2, <2>6, CountAppend
    <3>2. mapbuffer_'[Lock(u)] = Append(mapbuffer_[Lock(u)], f)
      BY <1>t, <2>1, <2>6, BoxesDiffer
    <3>3. f.n = CountOf(Append(sorted, f), Lock(u))
      BY <2>2, <2>6, LockAssumption DEF Rounds
    <3> QED BY <2>1, <3>1, <3>2, <3>3
  <2>7. ASSUME NEW u \in Task
        PROVE  /\ Taken(u) + Len(mapbuffer_'[Lock(u)]) = CountOf(sorted', Lock(u))
               /\ \A i \in 1..Len(mapbuffer_'[Lock(u)]) :
                    mapbuffer_'[Lock(u)][i].n = Taken(u) + i
    <3> DEFINE m == mapbuffer_[Lock(u)]
    <3>1. m \in Seq(Frame)
      BY <1>t, BoxesDiffer
    <3>2. /\ Taken(u) \in Nat /\ Taken(u) + Len(m) = CountOf(sorted, Lock(u))
          /\ \A i \in 1..Len(m) : m[i].n = Taken(u) + i
      BY DEF Rounds, RoundOf
    <3>3. CASE f.box # Lock(u)
      BY <2>5, <3>2, <3>3
    <3>4. CASE f.box = Lock(u)
      <4>1. mapbuffer_'[Lock(u)] = Append(m, f)
        BY <2>6, <3>4
      <4>2. CountOf(sorted', Lock(u)) = Taken(u) + Len(m) + 1 /\ f.n = Taken(u) + Len(m) + 1
        BY <2>6, <3>2, <3>4
      <4> HIDE DEF m
      <4>3. /\ Len(m) \in Nat /\ Len(Append(m, f)) = Len(m) + 1
            /\ Append(m, f)[Len(m) + 1] = f
            /\ \A i \in 1..Len(m) : Append(m, f)[i] = m[i]
        BY <2>2, <3>1
      <4>4. ASSUME NEW i \in 1..(Len(m) + 1) PROVE Append(m, f)[i].n = Taken(u) + i
        <5>1. CASE i = Len(m) + 1
          BY <3>2, <4>2, <4>3, <5>1
        <5>2. CASE i # Len(m) + 1
          BY <3>2, <4>3, <5>2
        <5> QED BY <5>1, <5>2
      <4> QED BY <3>2, <4>1, <4>2, <4>3, <4>4
    <3> QED BY <3>3, <3>4
  <2>8. script' \in Scripts
    BY <2>1 DEF Rounds
  <2>9. \A u \in Task : RoundOf(u)'
    BY <2>4, <2>7 DEF RoundOf
  <2> QED BY <2>8, <2>9 DEF Rounds
<1>8. ASSUME NEW t \in Task, Send(t) \/ Starter(t) \/ Sender(t) \/ RecvCheck(t) \/ RecvSleep(t)
      PROVE  Rounds'
  <2>1. UNCHANGED <<caller, starts, mapbuffer_, sorted, script>>
    BY <1>8 DEF Send, Starter, Register, Acquire, StarterSleep, SpawnLoops, HandOver,
                Sender, SendCheck, SendSleep, SendWrite, RecvCheck, RecvSleep
  <2> QED BY <1>2, <2>1
<1>9. CASE NetWrite \/ NetNotify \/ Close \/ UNCHANGED vars
  BY <1>2, <1>9 DEF NetWrite, NetNotify, Close
<1> QED
  BY <1>3, <1>4, <1>5, <1>6, <1>7, <1>8, <1>9 DEF Next, User, Internal, Recver, Epoll

(* stop() never takes a lock frame of another round: each of its rounds is *)
(* paired with the peer's start() of the same round (connection.cpp:297).  *)
THEOREM RoundsPairedAlways == Spec => []RoundsPaired
<1>1. Init => Rounds
  <2> SUFFICES ASSUME Init PROVE Rounds
    OBVIOUS
  <2>1. \A t \in Task : /\ Taken(t) = 0 /\ mapbuffer_[Lock(t)] = << >>
                        /\ CountOf(sorted, Lock(t)) = 0
    <3>1. sorted = << >> /\ DOMAIN sorted = {}
      BY DEF Init
    <3>2. \A b : { i \in DOMAIN sorted : sorted[i].box = b } = {}
      BY <3>1
    <3>3. \A t \in Task : CountOf(sorted, Lock(t)) = 0
      BY <3>2, FS_EmptySet DEF CountOf
    <3> QED BY <3>3, BoxesDiffer DEF Init, Taken
  <2> QED BY <2>1 DEF Init, Rounds, RoundOf
<1>2. IInv /\ Rounds /\ [Next]_vars => Rounds'
  BY RoundsStep
<1>3. IInv /\ Rounds => RoundsPaired
  <2> SUFFICES ASSUME IInv, Rounds, NEW t \in Task, caller[t] = "stop_recv",
                      mapbuffer_[Lock(t)] # << >>
               PROVE  mapbuffer_[Lock(t)][1].n = starts[t]
    BY DEF RoundsPaired
  <2>1. mapbuffer_[Lock(t)] \in Seq(Frame) /\ starts[t] \in Nat
    BY BoxesDiffer DEF IInv, TypeOK
  <2>2. 1 \in 1..Len(mapbuffer_[Lock(t)])
    BY <2>1
  <2>3. mapbuffer_[Lock(t)][1].n = Taken(t) + 1 /\ Taken(t) = starts[t] - 1
    BY <2>2 DEF Rounds, RoundOf, Taken
  <2> QED BY <2>1, <2>3
<1> QED BY <1>1, <1>2, <1>3, SpecInv, PTL DEF Spec
=============================================================================
