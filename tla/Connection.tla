----------------------------- MODULE Connection -----------------------------
(***************************************************************************)
(* One endpoint of a Connection (connection.h, connection.cpp) shared by   *)
(* several tasks.  Per task there is the thread that calls start, send,    *)
(* recv and stop, the do_start thread that start() spawns, and, for the    *)
(* one task that is the worker, the loop_recv and loop_send threads.  The  *)
(* epoll thread hands over what the socket received.                       *)
(*                                                                         *)
(* The three condition variables whose predicate reads state that another  *)
(* mutex guards (buffer_cv_, send_buffer_cv_, work_cv_) are modelled step  *)
(* by step: a thread evaluates the predicate holding the variable's mutex; *)
(* if it is false the thread is "decided", still holding the mutex, and    *)
(* then "asleep" until a notify_all.  The other two (stop_work_cv_,        *)
(* mapbuffer_cv_) are waits on state that only changes under their own     *)
(* mutex, together with a notify: a guard says the same.                   *)
(*                                                                         *)
(* A frame is what one send(id, data) packs.  n numbers the frames, so     *)
(* that no two are equal.                                                  *)
(***************************************************************************)
EXTENDS Naturals, Sequences, FiniteSets

CONSTANTS Task,         \* the task ids sharing the connection
          NoTask,       \* the initial work_task_id_ ""
          MaxRounds,    \* bound, per task: times it is started
          MaxSends,     \* bound, per task: messages it sends
          MaxRecvs,     \* bound, per task: messages it asks for
          Scripts,      \* the frame sequences the peer may send
          MaxLost       \* bound: lock frames that failing writes leave out

Box == {"lock", "data"} \X Task            \* the keys of mapbuffer_
Frame == [box : Box, n : Nat]
Lock(t) == <<"lock", t>>                   \* the id "lock:" + task_id
Msg(t)  == <<"data", t>>

ASSUME TaskAssumption == NoTask \notin Task
ASSUME BoundAssumption ==
  /\ MaxRounds \in [Task -> Nat] /\ MaxSends \in [Task -> Nat]
  /\ MaxRecvs \in [Task -> Nat]
  /\ Scripts \subseteq Seq(Frame)
  /\ MaxLost \in Nat

CountOf(s, b) == Cardinality({ i \in DOMAIN s : s[i].box = b })

\* of the peer's lock frames n is the round: each start(task_id) sends one
ASSUME LockAssumption == \A s \in Scripts : \A t \in Task, j \in DOMAIN s :
  s[j].box = Lock(t) => s[j].n = CountOf(SubSeq(s, 1, j), Lock(t))

VARIABLES
  caller,         \* per task: where its caller is in start/recv/stop
  starter,        \* per task: where its do_start thread is
  recver, sender, \* per task: where its loop_recv, loop_send thread is
  stop_works_,    \* per task: "absent", "no" (false) or "yes" (true)
  work_count_, work_task_id_,
  task_mtx_,      \* the task whose stop() holds it, or NoTask
  send_buffer_,   \* frames put and not yet taken by a loop_send
  sending,        \* per task: the chunk its loop_send took and is writing
  buffer_,        \* frames received and not yet taken by a loop_recv
  sorting,        \* per task: the frame its loop_recv took (0 or 1 frames)
  mapbuffer_,     \* per id: frames waiting for a recv
  epoll,          \* "idle", or "notify": wrote buffer_, has not notified
  state_,         \* "open" or "closed"
  script, in,     \* what the peer sends in all, and what of it is to come
  out,            \* what was handed to the socket
  lost,           \* where lock frames are in it that a failing write() left out
  puts, sorted,   \* history: frames put to send_buffer_, to mapbuffer_
  starts, recvs   \* per task: calls of start and of recv so far

works == <<stop_works_, work_count_, work_task_id_>>
outgoing == <<send_buffer_, sending, out, lost, puts>>
incoming == <<buffer_, sorting, mapbuffer_, epoll, script, in, sorted>>
calls == <<starts, recvs>>
vars == <<caller, starter, recver, sender, works, task_mtx_, outgoing,
          incoming, state_, calls>>

Init ==
  /\ caller = [t \in Task |-> "idle"]
  /\ starter = [t \in Task |-> "none"]
  /\ recver = [t \in Task |-> "none"]
  /\ sender = [t \in Task |-> "none"]
  /\ stop_works_ = [t \in Task |-> "absent"]
  /\ work_count_ = 0 /\ work_task_id_ = NoTask
  /\ task_mtx_ = NoTask
  /\ send_buffer_ = << >> /\ sending = [t \in Task |-> << >>]
  /\ buffer_ = << >> /\ sorting = [t \in Task |-> << >>]
  /\ mapbuffer_ = [b \in Box |-> << >>]
  /\ epoll = "idle" /\ state_ = "open"
  /\ script \in Scripts /\ in = script
  /\ out = << >> /\ lost = {} /\ puts = << >> /\ sorted = << >>
  /\ starts = [t \in Task |-> 0]
  /\ recvs = [t \in Task |-> 0]
-----------------------------------------------------------------------------
(* Mutexes: each of these is held across a step only by a thread that has  *)
(* found its predicate false and is not asleep yet.                        *)

work_mtx_free        == \A t \in Task : starter[t] # "decided"
send_buffer_mtx_free == \A t \in Task : sender[t] # "decided"
buffer_mtx_free      == \A t \in Task : recver[t] # "decided"

\* notify_all: the sleepers go back to evaluating their predicate
Woken(pc) == [t \in Task |-> IF pc[t] = "asleep" THEN "check" ELSE pc[t]]

Stopping(t) == stop_works_[t] = "yes"

\* put_into_send_buffer: write and notify under send_buffer_mtx_
Put(b) ==
  LET f == [box |-> b, n |-> Len(puts) + 1]
  IN  /\ send_buffer_mtx_free
      /\ send_buffer_' = Append(send_buffer_, f)
      /\ puts' = Append(puts, f)
      /\ sender' = Woken(sender)
      /\ UNCHANGED <<sending, out, lost>>
-----------------------------------------------------------------------------
(* start(task_id).  task_count_ is never read and is left out.             *)

StartCall(t) ==
  /\ caller[t] = "idle" /\ starts[t] < MaxRounds[t]
  /\ state_ = "open"
  /\ caller' = [caller EXCEPT ![t] = "start"]
  /\ starts' = [starts EXCEPT ![t] = @ + 1]
  /\ UNCHANGED <<starter, recver, sender, works, task_mtx_, outgoing, incoming,
                 state_, recvs>>

\* announce the task to the peer under task_mtx_, then spawn do_start
StartLock(t) ==
  /\ caller[t] = "start"
  /\ task_mtx_ = NoTask
  /\ Put(Lock(t))
  /\ starter' = [starter EXCEPT ![t] = "register"]
  /\ caller' = [caller EXCEPT ![t] = "await"]
  /\ UNCHANGED <<recver, works, task_mtx_, incoming, state_, calls>>

StartReturn(t) ==
  /\ caller[t] = "await"
  /\ stop_works_[t] = "no"
  /\ caller' = [caller EXCEPT ![t] = "open"]
  /\ UNCHANGED <<starter, recver, sender, works, task_mtx_, outgoing, incoming,
                 state_, calls>>
-----------------------------------------------------------------------------
(* send(id, data) and recv(id, data) of a task.                            *)

Send(t) ==
  /\ caller[t] = "open" /\ CountOf(puts, Msg(t)) < MaxSends[t]
  /\ Put(Msg(t))
  /\ UNCHANGED <<caller, starter, recver, works, task_mtx_, incoming, state_,
                 calls>>

RecvCall(t) ==
  /\ caller[t] = "open" /\ recvs[t] < MaxRecvs[t]
  /\ caller' = [caller EXCEPT ![t] = "recv"]
  /\ recvs' = [recvs EXCEPT ![t] = @ + 1]
  /\ UNCHANGED <<starter, recver, sender, works, task_mtx_, outgoing, incoming,
                 state_, starts>>

\* the wait at connection.cpp:326 has no deadline and no exit on disconnect
RecvReturn(t) ==
  /\ caller[t] = "recv"
  /\ mapbuffer_[Msg(t)] # << >>
  /\ mapbuffer_' = [mapbuffer_ EXCEPT ![Msg(t)] = Tail(@)]
  /\ caller' = [caller EXCEPT ![t] = "open"]
  /\ UNCHANGED <<starter, recver, sender, works, task_mtx_, outgoing, state_,
                 calls, buffer_, sorting, epoll, script, in, sorted>>
-----------------------------------------------------------------------------
(* stop(task_id).                                                          *)

StopCall(t) ==
  /\ caller[t] = "open"
  /\ caller' = [caller EXCEPT ![t] = "stop"]
  /\ UNCHANGED <<starter, recver, sender, works, task_mtx_, outgoing, incoming,
                 state_, calls>>

StopLock(t) ==
  /\ caller[t] = "stop"
  /\ task_mtx_ = NoTask
  /\ task_mtx_' = t
  /\ caller' = [caller EXCEPT ![t] = "stop_recv"]
  /\ UNCHANGED <<starter, recver, sender, works, outgoing, incoming, state_,
                 calls>>

\* Bug: the lock frame is looked at, not taken
StopRecvPeeks(t) ==
  /\ caller[t] = "stop_recv"
  /\ mapbuffer_[Lock(t)] # << >>
  /\ task_mtx_' = NoTask
  /\ caller' = [caller EXCEPT ![t] = "stop_flag"]
  /\ UNCHANGED <<starter, recver, sender, works, outgoing, incoming, state_,
                 calls>>

\* recv("lock:" + task_id), still holding task_mtx_
StopRecv(t) ==
  /\ caller[t] = "stop_recv"
  /\ mapbuffer_[Lock(t)] # << >>
  /\ mapbuffer_' = [mapbuffer_ EXCEPT ![Lock(t)] = Tail(@)]
  /\ task_mtx_' = NoTask
  /\ caller' = [caller EXCEPT ![t] = "stop_flag"]
  /\ UNCHANGED <<starter, recver, sender, works, outgoing, state_, calls,
                 buffer_, sorting, epoll, script, in, sorted>>

StopFlag(t) ==
  /\ caller[t] = "stop_flag"
  /\ stop_works_' = [stop_works_ EXCEPT ![t] = IF @ = "no" THEN "yes" ELSE @]
  /\ caller' = [caller EXCEPT ![t] = "stop_notify"]
  /\ UNCHANGED <<starter, recver, sender, work_count_, work_task_id_, task_mtx_,
                 outgoing, incoming, state_, calls>>

\* under work_mtx_: wake the loops if they are this task's, or the starters
StopNotify(t) ==
  /\ caller[t] = "stop_notify"
  /\ work_mtx_free
  /\ \/ /\ work_task_id_ = t
        /\ send_buffer_mtx_free /\ buffer_mtx_free
        /\ sender' = Woken(sender) /\ recver' = Woken(recver)
        /\ UNCHANGED starter
     \/ /\ work_task_id_ # t
        /\ starter' = Woken(starter)
        /\ UNCHANGED <<sender, recver>>
  /\ caller' = [caller EXCEPT ![t] = "stop_join"]
  /\ UNCHANGED <<works, task_mtx_, outgoing, incoming, state_, calls>>

StopJoin(t) ==
  /\ caller[t] = "stop_join"
  /\ starter[t] = "exited"
  /\ starter' = [starter EXCEPT ![t] = "none"]
  /\ stop_works_' = [stop_works_ EXCEPT ![t] = "absent"]
  /\ caller' = [caller EXCEPT ![t] = "idle"]
  /\ UNCHANGED <<recver, sender, work_count_, work_task_id_, task_mtx_, outgoing,
                 incoming, state_, calls>>
-----------------------------------------------------------------------------
(* do_start(task_id): become the worker, run the loops, hand over.         *)

Register(t) ==
  /\ starter[t] = "register"
  /\ stop_works_' = [stop_works_ EXCEPT ![t] = IF @ = "absent" THEN "no" ELSE @]
  /\ starter' = [starter EXCEPT ![t] = "check"]
  /\ UNCHANGED <<caller, recver, sender, work_count_, work_task_id_, task_mtx_,
                 outgoing, incoming, state_, calls>>

\* Bug: the worker is not counted
AcquireUncounted(t) ==
  /\ starter[t] = "check"
  /\ work_mtx_free
  /\ work_count_ = 0 /\ work_task_id_' = t
  /\ starter' = [starter EXCEPT ![t] = "work"]
  /\ UNCHANGED <<caller, recver, sender, stop_works_, work_count_, task_mtx_,
                 outgoing, incoming, state_, calls>>

\* Bug: work_count_ is not looked at
AcquireAny(t) ==
  /\ starter[t] = "check"
  /\ work_mtx_free
  /\ work_count_' = work_count_ + 1 /\ work_task_id_' = t
  /\ starter' = [starter EXCEPT ![t] = "work"]
  /\ UNCHANGED <<caller, recver, sender, stop_works_, task_mtx_, outgoing,
                 incoming, state_, calls>>

Acquire(t) ==
  /\ starter[t] = "check"
  /\ work_mtx_free
  /\ \/ /\ work_count_ = 0
        /\ work_count_' = work_count_ + 1
        /\ work_task_id_' = t
        /\ starter' = [starter EXCEPT ![t] = "work"]
     \/ /\ work_count_ # 0 /\ Stopping(t)
        /\ starter' = [starter EXCEPT ![t] = "exited"]
        /\ UNCHANGED <<work_count_, work_task_id_>>
     \/ /\ work_count_ # 0 /\ ~Stopping(t)
        /\ starter' = [starter EXCEPT ![t] = "decided"]
        /\ UNCHANGED <<work_count_, work_task_id_>>
  /\ UNCHANGED <<caller, recver, sender, stop_works_, task_mtx_, outgoing,
                 incoming, state_, calls>>

StarterSleep(t) ==
  /\ starter[t] = "decided"
  /\ starter' = [starter EXCEPT ![t] = "asleep"]
  /\ UNCHANGED <<caller, recver, sender, works, task_mtx_, outgoing, incoming,
                 state_, calls>>

SpawnLoops(t) ==
  /\ starter[t] = "work"
  /\ recver' = [recver EXCEPT ![t] = "check"]
  /\ sender' = [sender EXCEPT ![t] = "check"]
  /\ starter' = [starter EXCEPT ![t] = "join"]
  /\ UNCHANGED <<caller, works, task_mtx_, outgoing, incoming, state_, calls>>

\* Bug: loop_recv is not joined
HandOverEarly(t) ==
  /\ starter[t] = "join"
  /\ sender[t] = "exited"
  /\ work_mtx_free
  /\ work_count_' = work_count_ - 1
  /\ starter' = [Woken(starter) EXCEPT ![t] = "exited"]
  /\ sender' = [sender EXCEPT ![t] = "none"]
  /\ UNCHANGED <<caller, recver, stop_works_, work_task_id_, task_mtx_, outgoing,
                 incoming, state_, calls>>

\* Bug: the waiting tasks are not notified
HandOverQuiet(t) ==
  /\ starter[t] = "join"
  /\ recver[t] = "exited" /\ sender[t] = "exited"
  /\ work_mtx_free
  /\ work_count_' = work_count_ - 1
  /\ starter' = [starter EXCEPT ![t] = "exited"]
  /\ recver' = [recver EXCEPT ![t] = "none"]
  /\ sender' = [sender EXCEPT ![t] = "none"]
  /\ UNCHANGED <<caller, stop_works_, work_task_id_, task_mtx_, outgoing,
                 incoming, state_, calls>>

HandOver(t) ==
  /\ starter[t] = "join"
  /\ recver[t] = "exited" /\ sender[t] = "exited"
  /\ work_mtx_free
  /\ work_count_' = work_count_ - 1
  /\ starter' = [Woken(starter) EXCEPT ![t] = "exited"]
  /\ recver' = [recver EXCEPT ![t] = "none"]
  /\ sender' = [sender EXCEPT ![t] = "none"]
  /\ UNCHANGED <<caller, stop_works_, work_task_id_, task_mtx_, outgoing,
                 incoming, state_, calls>>
-----------------------------------------------------------------------------
(* loop_send(task_id).                                                     *)

SendCheck(t) ==
  /\ sender[t] = "check"
  /\ send_buffer_mtx_free
  /\ \/ /\ Stopping(t)
        /\ sender' = [sender EXCEPT ![t] = "exited"]
        /\ UNCHANGED <<send_buffer_, sending>>
     \/ /\ ~Stopping(t) /\ send_buffer_ # << >>
        /\ sending' = [sending EXCEPT ![t] = send_buffer_]
        /\ send_buffer_' = << >>
        /\ sender' = [sender EXCEPT ![t] = "write"]
     \/ /\ ~Stopping(t) /\ send_buffer_ = << >>
        /\ sender' = [sender EXCEPT ![t] = "decided"]
        /\ UNCHANGED <<send_buffer_, sending>>
  /\ UNCHANGED <<caller, starter, recver, works, task_mtx_, out, lost, puts,
                 incoming, state_, calls>>

SendSleep(t) ==
  /\ sender[t] = "decided"
  /\ sender' = [sender EXCEPT ![t] = "asleep"]
  /\ UNCHANGED <<caller, starter, recver, works, task_mtx_, outgoing, incoming,
                 state_, calls>>

\* Connection::send(data, len): a write that fails leaves out the frames from
\* some point on, and nobody learns of it but the log; of these the peer
\* misses the lock frames
Write(chunk) ==
  /\ out' = out \o chunk
  /\ \/ UNCHANGED lost
     \/ /\ \E k \in 1..Len(chunk) :
             lost' = lost \cup { i \in (Len(out) + k)..Len(out') : out'[i].box[1] = "lock" }
        /\ Cardinality(lost') <= MaxLost

\* send(buffer, n), outside send_buffer_mtx_
SendWrite(t) ==
  /\ sender[t] = "write"
  /\ Write(sending[t])
  /\ sending' = [sending EXCEPT ![t] = << >>]
  /\ sender' = [sender EXCEPT ![t] = "check"]
  /\ UNCHANGED <<caller, starter, recver, works, task_mtx_, send_buffer_, puts,
                 incoming, state_, calls>>
-----------------------------------------------------------------------------
(* loop_recv(task_id).                                                     *)

RecvCheck(t) ==
  /\ recver[t] = "check"
  /\ buffer_mtx_free
  /\ \/ /\ Stopping(t)
        /\ recver' = [recver EXCEPT ![t] = "exited"]
        /\ UNCHANGED <<buffer_, sorting>>
     \/ /\ ~Stopping(t) /\ buffer_ # << >>
        /\ sorting' = [sorting EXCEPT ![t] = <<Head(buffer_)>>]
        /\ buffer_' = Tail(buffer_)
        /\ recver' = [recver EXCEPT ![t] = "sort"]
     \/ /\ ~Stopping(t) /\ buffer_ = << >>
        /\ recver' = [recver EXCEPT ![t] = "decided"]
        /\ UNCHANGED <<buffer_, sorting>>
  /\ UNCHANGED <<caller, starter, sender, works, task_mtx_, outgoing, mapbuffer_,
                 epoll, script, in, sorted, state_, calls>>

RecvSleep(t) ==
  /\ recver[t] = "decided"
  /\ recver' = [recver EXCEPT ![t] = "asleep"]
  /\ UNCHANGED <<caller, starter, sender, works, task_mtx_, outgoing, incoming,
                 state_, calls>>

\* into the mailbox of the frame's id, outside buffer_mtx_
RecvSort(t) ==
  LET f == sorting[t][1]
  IN  /\ recver[t] = "sort"
      /\ mapbuffer_' = [mapbuffer_ EXCEPT ![f.box] = Append(@, f)]
      /\ sorted' = Append(sorted, f)
      /\ sorting' = [sorting EXCEPT ![t] = << >>]
      /\ recver' = [recver EXCEPT ![t] = "check"]
      /\ UNCHANGED <<caller, starter, sender, works, task_mtx_, outgoing, buffer_,
                     epoll, script, in, state_, calls>>
-----------------------------------------------------------------------------
(* Connection::write, called by the epoll thread.                          *)

\* the peer starts a task again only after its stop() got our lock:task
PeerMaySend(f) ==
  f.box[1] = "lock" => Cardinality({ i \in DOMAIN out \ lost : out[i].box = f.box }) >= f.n - 1

NetWrite ==
  /\ epoll = "idle" /\ state_ = "open"
  /\ in # << >> /\ PeerMaySend(Head(in))
  /\ buffer_' = Append(buffer_, Head(in))
  /\ in' = Tail(in)
  /\ epoll' = "notify"
  /\ UNCHANGED <<caller, starter, recver, sender, works, task_mtx_, outgoing,
                 sorting, mapbuffer_, script, sorted, state_, calls>>

\* Bug: notify_all without taking buffer_mtx_
NetNotifyUnlocked ==
  /\ epoll = "notify"
  /\ recver' = Woken(recver)
  /\ epoll' = "idle"
  /\ UNCHANGED <<caller, starter, sender, works, task_mtx_, outgoing, buffer_,
                 sorting, mapbuffer_, script, in, sorted, state_, calls>>

NetNotify ==
  /\ epoll = "notify"
  /\ buffer_mtx_free
  /\ recver' = Woken(recver)
  /\ epoll' = "idle"
  /\ UNCHANGED <<caller, starter, sender, works, task_mtx_, outgoing, buffer_,
                 sorting, mapbuffer_, script, in, sorted, state_, calls>>
-----------------------------------------------------------------------------
(* The last task closes the connection unless data was left unread         *)
(* (TCPClient::close, TCPServer::stop); close() flushes send_buffer_.      *)

unrecv == buffer_ # << >> \/ \E b \in Box : mapbuffer_[b] # << >>

AllIdle == \A t \in Task : caller[t] = "idle"

\* Bug: close() does not flush
CloseNoFlush ==
  /\ state_ = "open" /\ puts # << >>
  /\ AllIdle /\ ~unrecv
  /\ state_' = "closed"
  /\ UNCHANGED <<caller, starter, recver, sender, works, task_mtx_, outgoing,
                 incoming, calls>>

Close ==
  /\ state_ = "open" /\ puts # << >>
  /\ AllIdle /\ ~unrecv
  /\ Write(send_buffer_)
  /\ send_buffer_' = << >>
  /\ state_' = "closed"
  /\ UNCHANGED <<caller, starter, recver, sender, works, task_mtx_, sending, puts,
                 incoming, calls>>
-----------------------------------------------------------------------------
\* the steps of a task's threads that need no further call of the user
Internal(t) ==
  \/ StartLock(t) \/ StartReturn(t)
  \/ RecvReturn(t)
  \/ StopLock(t) \/ StopRecv(t) \/ StopFlag(t) \/ StopNotify(t) \/ StopJoin(t)

Starter(t) ==
  Register(t) \/ Acquire(t) \/ StarterSleep(t) \/ SpawnLoops(t) \/ HandOver(t)

Sender(t) == SendCheck(t) \/ SendSleep(t) \/ SendWrite(t)
Recver(t) == RecvCheck(t) \/ RecvSleep(t) \/ RecvSort(t)
Epoll == NetWrite \/ NetNotify

User(t) == StartCall(t) \/ Send(t) \/ RecvCall(t) \/ StopCall(t)

Next ==
  \/ \E t \in Task : User(t) \/ Internal(t) \/ Starter(t) \/ Sender(t) \/ Recver(t)
  \/ Epoll
  \/ Close

Spec == Init /\ [][Next]_vars

(* Every thread that can take a step takes one: nothing is assumed of the  *)
(* user's calls.                                                           *)
Fairness ==
  /\ \A t \in Task : /\ WF_vars(Internal(t)) /\ WF_vars(Starter(t))
                     /\ WF_vars(Sender(t)) /\ WF_vars(Recver(t))
  /\ WF_vars(Epoll)
  /\ WF_vars(Close)

FairSpec == Spec /\ Fairness
-----------------------------------------------------------------------------
TypeOK ==
  /\ caller \in [Task -> {"idle", "start", "await", "open", "recv",
                          "stop", "stop_recv", "stop_flag", "stop_notify",
                          "stop_join"}]
  /\ starter \in [Task -> {"none", "register", "check", "decided", "asleep",
                           "work", "join", "exited"}]
  /\ recver \in [Task -> {"none", "check", "decided", "asleep", "sort", "exited"}]
  /\ sender \in [Task -> {"none", "check", "decided", "asleep", "write", "exited"}]
  /\ stop_works_ \in [Task -> {"absent", "no", "yes"}]
  /\ work_count_ \in Nat /\ work_task_id_ \in Task \cup {NoTask}
  /\ task_mtx_ \in Task \cup {NoTask}
  /\ send_buffer_ \in Seq(Frame) /\ sending \in [Task -> Seq(Frame)]
  /\ buffer_ \in Seq(Frame) /\ sorting \in [Task -> Seq(Frame)]
  /\ mapbuffer_ \in [Box -> Seq(Frame)]
  /\ epoll \in {"idle", "notify"} /\ state_ \in {"open", "closed"}
  /\ script \in Seq(Frame) /\ in \in Seq(Frame)
  /\ out \in Seq(Frame) /\ puts \in Seq(Frame) /\ sorted \in Seq(Frame)
  /\ lost \subseteq DOMAIN out
  /\ starts \in [Task -> Nat] /\ recvs \in [Task -> Nat]

\* the thread that runs loops is between taking and giving back work_count_
Working(t) == starter[t] \in {"work", "join"}

(* The loops of one task at most run at any time, across every hand-over:  *)
(* loop_send and loop_recv each assume they are alone on their buffer.     *)
OneWorker ==
  /\ \A t, u \in Task : Working(t) /\ Working(u) => t = u
  /\ work_count_ = IF \E t \in Task : Working(t) THEN 1 ELSE 0
  /\ \A t \in Task : (recver[t] # "none" \/ sender[t] # "none") => Working(t)

\* what the one busy loop holds between taking from a buffer and passing on
Held(f) == IF \E t \in Task : f[t] # << >>
           THEN f[CHOOSE t \in Task : f[t] # << >>]
           ELSE << >>

(* Frames are handed to the socket in the order send() put them, none left *)
(* out or doubled, although the worker changes between taking a chunk from *)
(* send_buffer_ and writing it, and although a write fails.                *)
StreamOrder == out \o Held(sending) \o send_buffer_ = puts

(* Frames reach their mailboxes in the order the socket delivered them.    *)
ArrivalOrder == sorted \o Held(sorting) \o buffer_ \o in = script

(* When close() has run, everything ever put was handed to the socket: no  *)
(* loop still holds a chunk when the last task has been joined.            *)
CloseSendsAll == state_ = "closed" => out = puts

(* The lock frame stop() consumes is the one the peer's start() of the     *)
(* same round sent: no round ever starts with a lock left over from an     *)
(* earlier one, which would let stop() return without the peer.            *)
RoundsPaired == \A t \in Task :
  caller[t] = "stop_recv" /\ mapbuffer_[Lock(t)] # << >> =>
    mapbuffer_[Lock(t)][1].n = starts[t]

Calling(t) == caller[t] \notin {"idle", "open"}

(* start(), recv() and stop() return: no wake-up is lost and no two calls  *)
(* block each other, whoever is the worker and whenever it stops, provided *)
(* the peer starts each task as often as this side and sends what is asked *)
(* for.                                                                    *)
CallsReturn == \A t \in Task : []<>~Calling(t)

(* "blocking for timeout microseconds" (include/io/channel.h:78): a recv() *)
(* returns, whether its data comes or not.                                 *)
RecvReturns == \A t \in Task : caller[t] = "recv" ~> caller[t] # "recv"

(* A frame that was put is handed to the socket, unless every task has     *)
(* stopped leaving unread data behind: then nobody writes it, and nobody   *)
(* closes.                                                                 *)
PutIsWritten == out # puts ~> out = puts \/ (AllIdle /\ unrecv)
=============================================================================
