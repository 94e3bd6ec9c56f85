----------------------------- MODULE TCPServer -----------------------------
(***************************************************************************)
(* The server side of one process (server.cpp).  Every task has a          *)
(* TCPServer object with a loop thread; the listening socket, the epoll    *)
(* descriptor, the table of accepted connections and the task counter are  *)
(* static and shared by all.  One loop thread at a time serves epoll for   *)
(* everybody; when its task stops it hands over.                           *)
(*                                                                         *)
(* Connection is reduced to what the server needs of it: start(task) needs *)
(* the connection's task_mtx_, and stop(task) holds that mutex until the   *)
(* peer's "lock:task" frame has been received, which is epoll's work (the  *)
(* module Connection has the rest).  Connections that fail (handle_error)  *)
(* or are replaced are in TCPClient; data frames are left out.             *)
(*                                                                         *)
(* The wait on listen_cv_ reads stop_, which is set without listen_mutex_, *)
(* so it is modelled step by step, as in Connection.                       *)
(***************************************************************************)
EXTENDS Naturals, FiniteSets

CONSTANTS Task,          \* one TCPServer object per task
          Client,        \* the nodes that dial this one
          None,
          Expected,      \* expected_cids_ of each task
          InitMayFail,   \* whether init() may fail
          AcceptMayFail  \* whether the exchange with a new client may fail

ASSUME TCPServerAssumption ==
  /\ IsFiniteSet(Task)
  /\ None \notin Task \cup Client /\ None \notin Task \X Client
  /\ Expected \in [Task -> SUBSET Client]
  /\ InitMayFail \in BOOLEAN /\ AcceptMayFail \in BOOLEAN

VARIABLES
  caller,               \* per task: where the thread using the object is
  loop_thread_,         \* per task: where its loop thread is
  accepting,            \* per task: the client its loop thread is to insert
  stop_,                \* per task
  server_connections_,  \* per task: the clients whose connection it uses
  listen_count_, task_count_, is_inited_,
  connections_,         \* the clients accepted
  connections_mtx_,     \* held across steps only by find_connection
  task_mtx_,            \* per client: the holder of its Connection::task_mtx_
  backlog, listen_event,  \* unaccepted clients; an edge epoll will report
  dialled,              \* clients whose connect() has reached listen()
  lock                  \* per client and task: the peer's "lock:task" frame

shared == <<listen_count_, task_count_, is_inited_>>
net == <<backlog, listen_event, dialled, lock>>
conns == <<connections_, connections_mtx_, task_mtx_>>
vars == <<caller, loop_thread_, accepting, stop_, server_connections_, shared, conns, net>>

Init ==
  /\ caller = [t \in Task |-> "new"]
  /\ loop_thread_ = [t \in Task |-> "none"]
  /\ accepting = [t \in Task |-> None]
  /\ stop_ = [t \in Task |-> FALSE]
  /\ server_connections_ = [t \in Task |-> {}]
  /\ listen_count_ = 0 /\ task_count_ = 0 /\ is_inited_ = FALSE
  /\ connections_ = {} /\ connections_mtx_ = None
  /\ task_mtx_ = [c \in Client |-> None]
  /\ backlog = {} /\ listen_event = FALSE /\ dialled = {}
  /\ lock = [p \in Client \X Task |-> "none"]
-----------------------------------------------------------------------------
(* start(), and the put_connection threads of BasicIO::init.               *)

\* Bug: the task is not counted
StartOkUncounted(t) ==
  /\ caller[t] = "new"
  /\ is_inited_' = TRUE
  /\ loop_thread_' = [loop_thread_ EXCEPT ![t] = "check"]
  /\ caller' = [caller EXCEPT ![t] = "start"]
  /\ UNCHANGED <<accepting, stop_, server_connections_, listen_count_, task_count_,
                 conns, net>>

StartOk(t) ==
  /\ caller[t] = "new"
  /\ task_count_' = task_count_ + 1
  /\ is_inited_' = TRUE
  /\ loop_thread_' = [loop_thread_ EXCEPT ![t] = "check"]
  /\ caller' = [caller EXCEPT ![t] = "start"]
  /\ UNCHANGED <<accepting, stop_, server_connections_, listen_count_, conns, net>>

\* init() failed: the task stays counted.  The object is not used again: the
\* stop() of ~BasicIO would join a loop thread that was never made
StartFails(t) ==
  /\ InitMayFail
  /\ caller[t] = "new" /\ ~is_inited_
  /\ task_count_' = task_count_ + 1
  /\ caller' = [caller EXCEPT ![t] = "failed"]
  /\ UNCHANGED <<loop_thread_, accepting, stop_, server_connections_, listen_count_,
                 is_inited_, conns, net>>

\* find_connection takes connections_mtx_ ...
FindConnection(t, c) ==
  /\ caller[t] = "start" /\ c \in Expected[t] \ server_connections_[t]
  /\ connections_mtx_ = None
  /\ c \in connections_
  /\ connections_mtx_' = <<t, c>>
  /\ UNCHANGED <<caller, loop_thread_, accepting, stop_, server_connections_,
                 shared, connections_, task_mtx_, net>>

\* ... and keeps it while Connection::start waits for task_mtx_
PutConnection(t, c) ==
  /\ connections_mtx_ = <<t, c>>
  /\ task_mtx_[c] = None
  /\ connections_mtx_' = None
  /\ server_connections_' = [server_connections_ EXCEPT ![t] = @ \cup {c}]
  /\ UNCHANGED <<caller, loop_thread_, accepting, stop_, shared, connections_,
                 task_mtx_, net>>

InitReturn(t) ==
  /\ caller[t] = "start" /\ server_connections_[t] = Expected[t]
  /\ caller' = [caller EXCEPT ![t] = "up"]
  /\ UNCHANGED <<loop_thread_, accepting, stop_, server_connections_, shared, conns,
                 net>>
-----------------------------------------------------------------------------
(* stop().                                                                 *)

StopCall(t) ==
  /\ caller[t] = "up"
  /\ stop_' = [stop_ EXCEPT ![t] = TRUE]
  /\ caller' = [caller EXCEPT ![t] = "stop_notify"]
  /\ UNCHANGED <<loop_thread_, accepting, server_connections_, shared, conns, net>>

listen_mutex_free == \A t \in Task : loop_thread_[t] # "decided"

Sleepers == { t \in Task : loop_thread_[t] = "asleep" }

\* Bug: notify_one
StopNotifyOne(t) ==
  /\ caller[t] = "stop_notify"
  /\ listen_mutex_free
  /\ \/ /\ Sleepers = {}
        /\ UNCHANGED loop_thread_
     \/ \E u \in Sleepers : loop_thread_' = [loop_thread_ EXCEPT ![u] = "check"]
  /\ caller' = [caller EXCEPT ![t] = "stop_join"]
  /\ UNCHANGED <<accepting, stop_, server_connections_, shared, conns, net>>

\* notify_all
StopNotify(t) ==
  /\ caller[t] = "stop_notify"
  /\ listen_mutex_free
  /\ loop_thread_' = [u \in Task |-> IF u \in Sleepers THEN "check" ELSE loop_thread_[u]]
  /\ caller' = [caller EXCEPT ![t] = "stop_join"]
  /\ UNCHANGED <<accepting, stop_, server_connections_, shared, conns, net>>

StopJoin(t) ==
  /\ caller[t] = "stop_join"
  /\ loop_thread_[t] = "exited"
  /\ caller' = [caller EXCEPT ![t] = "stop_conns"]
  /\ UNCHANGED <<loop_thread_, accepting, stop_, server_connections_, shared, conns,
                 net>>

\* Connection::stop, one connection after the other
ConnStopLock(t, c) ==
  /\ caller[t] = "stop_conns" /\ c \in server_connections_[t]
  /\ \A d \in Client : task_mtx_[d] # t
  /\ task_mtx_[c] = None
  /\ task_mtx_' = [task_mtx_ EXCEPT ![c] = t]
  /\ UNCHANGED <<caller, loop_thread_, accepting, stop_, server_connections_,
                 shared, connections_, connections_mtx_, net>>

\* Bug: task_mtx_ is not released
ConnStopRecvKeeps(t, c) ==
  /\ task_mtx_[c] = t
  /\ lock[<<c, t>>] = "in"
  /\ lock' = [lock EXCEPT ![<<c, t>>] = "taken"]
  /\ server_connections_' = [server_connections_ EXCEPT ![t] = @ \ {c}]
  /\ UNCHANGED <<caller, loop_thread_, accepting, stop_, shared, conns, backlog,
                 listen_event, dialled>>

ConnStopRecv(t, c) ==
  /\ task_mtx_[c] = t
  /\ lock[<<c, t>>] = "in"
  /\ lock' = [lock EXCEPT ![<<c, t>>] = "taken"]
  /\ task_mtx_' = [task_mtx_ EXCEPT ![c] = None]
  /\ server_connections_' = [server_connections_ EXCEPT ![t] = @ \ {c}]
  /\ UNCHANGED <<caller, loop_thread_, accepting, stop_, shared, connections_,
                 connections_mtx_, backlog, listen_event, dialled>>

unrecv == \E p \in Client \X Task : p[1] \in connections_ /\ lock[p] = "in"

\* what closing the sockets does to the peers: the frames under way are lost
Closed ==
  /\ connections_' = {} /\ backlog' = {} /\ listen_event' = FALSE
  /\ dialled' = {} /\ is_inited_' = FALSE
  /\ lock' = [p \in Client \X Task |-> IF lock[p] = "wire" THEN "lost" ELSE lock[p]]

\* Bug: any task that stops closes the sockets
StopCloseAlways(t) ==
  /\ caller[t] = "stop_conns" /\ server_connections_[t] = {}
  /\ connections_mtx_ = None
  /\ task_count_' = task_count_ - 1
  /\ Closed
  /\ caller' = [caller EXCEPT ![t] = "stopped"]
  /\ UNCHANGED <<loop_thread_, accepting, stop_, server_connections_, listen_count_,
                 connections_mtx_, task_mtx_>>

\* the last task closes the sockets, unless data was left unread
StopLast(t) ==
  /\ caller[t] = "stop_conns" /\ server_connections_[t] = {}
  /\ task_count_' = task_count_ - 1
  /\ \/ /\ task_count_ = 1 /\ ~unrecv
        /\ connections_mtx_ = None
        /\ Closed
     \/ /\ task_count_ = 1 /\ unrecv
        /\ connections_mtx_ = None
        /\ UNCHANGED <<is_inited_, connections_, net>>
     \/ /\ task_count_ # 1
        /\ UNCHANGED <<is_inited_, connections_, net>>
  /\ caller' = [caller EXCEPT ![t] = "stopped"]
  /\ UNCHANGED <<loop_thread_, accepting, stop_, server_connections_, listen_count_,
                 connections_mtx_, task_mtx_>>
-----------------------------------------------------------------------------
(* loop_main: wait for one's turn, serve, hand over.                       *)

\* t's loop thread has the turn ...
Serving(t) == loop_thread_[t] \in {"gather", "gather_check", "serve"}

\* ... and is at epoll_wait, not at one of its two locks of connections_mtx_
Polling(t) == loop_thread_[t] \in {"gather", "serve"} /\ accepting[t] = None

\* Bug: listen_count_ is not looked at
LoopTurnAny(t) ==
  /\ loop_thread_[t] = "check" /\ listen_mutex_free
  /\ listen_count_' = listen_count_ + 1
  /\ loop_thread_' = [loop_thread_ EXCEPT ![t] = "gather"]
  /\ UNCHANGED <<caller, accepting, stop_, server_connections_, task_count_,
                 is_inited_, conns, net>>

LoopTurn(t) ==
  /\ loop_thread_[t] = "check" /\ listen_mutex_free
  /\ \/ /\ stop_[t]
        /\ loop_thread_' = [loop_thread_ EXCEPT ![t] = "exited"]
        /\ UNCHANGED listen_count_
     \/ /\ ~stop_[t] /\ listen_count_ = 0
        /\ loop_thread_' = [loop_thread_ EXCEPT ![t] = "gather"]
        /\ listen_count_' = listen_count_ + 1
     \/ /\ ~stop_[t] /\ listen_count_ # 0
        /\ loop_thread_' = [loop_thread_ EXCEPT ![t] = "decided"]
        /\ UNCHANGED listen_count_
  /\ UNCHANGED <<caller, accepting, stop_, server_connections_, task_count_,
                 is_inited_, conns, net>>

LoopSleep(t) ==
  /\ loop_thread_[t] = "decided"
  /\ loop_thread_' = [loop_thread_ EXCEPT ![t] = "asleep"]
  /\ UNCHANGED <<caller, accepting, stop_, server_connections_, shared, conns, net>>

\* after an event, the gathering loop looks whether all clients are there
AfterEvent(t) ==
  loop_thread_' = [loop_thread_ EXCEPT ![t] = IF @ = "gather" THEN "gather_check" ELSE @]

(* handle_accept: the edge is used up, and only an insertion re-arms it.   *)
(* The early returns close the socket of a client that this task does not  *)
(* expect, or whose ack or id went wrong, expected or not; such a client   *)
(* dials again or, when it has sent its id, takes itself for connected.    *)

Accept(t, c) ==
  /\ Polling(t)
  /\ listen_event /\ c \in backlog
  /\ backlog' = backlog \ {c} /\ listen_event' = FALSE

AcceptDrops(t, c) ==
  /\ Accept(t, c)
  /\ \/ c \notin Expected[t] /\ UNCHANGED dialled
     \/ AcceptMayFail /\ dialled' \in {dialled, dialled \ {c}}
  /\ AfterEvent(t)
  /\ UNCHANGED <<caller, accepting, stop_, server_connections_, shared, conns,
                 lock>>

HandleAccept(t, c) ==
  /\ Accept(t, c)
  /\ c \in Expected[t]
  /\ accepting' = [accepting EXCEPT ![t] = c]
  /\ UNCHANGED <<caller, loop_thread_, stop_, server_connections_, shared, conns,
                 dialled, lock>>

InsertConnection(t) ==
  /\ accepting[t] # None
  /\ connections_mtx_ = None
  /\ connections_' = connections_ \cup {accepting[t]}
  /\ accepting' = [accepting EXCEPT ![t] = None]
  /\ listen_event' = (backlog # {})
  /\ AfterEvent(t)
  /\ UNCHANGED <<caller, stop_, server_connections_, shared, connections_mtx_,
                 task_mtx_, backlog, dialled, lock>>

HandleRead(t, c) ==
  /\ Polling(t)
  /\ c \in connections_ /\ \E u \in Task : lock[<<c, u>>] = "wire"
  /\ lock' = [p \in Client \X Task |->
                IF p[1] = c /\ lock[p] = "wire" THEN "in" ELSE lock[p]]
  /\ AfterEvent(t)
  /\ UNCHANGED <<caller, accepting, stop_, server_connections_, shared, conns,
                 backlog, listen_event, dialled>>

\* epoll_wait timed out
LoopIdle(t) ==
  /\ Polling(t) /\ loop_thread_[t] = "gather"
  /\ ~listen_event /\ \A c \in connections_, u \in Task : lock[<<c, u>>] # "wire"
  /\ loop_thread_' = [loop_thread_ EXCEPT ![t] = "gather_check"]
  /\ UNCHANGED <<caller, accepting, stop_, server_connections_, shared, conns, net>>

GatherCheck(t) ==
  /\ loop_thread_[t] = "gather_check"
  /\ connections_mtx_ = None
  /\ loop_thread_' = [loop_thread_ EXCEPT ![t] =
                        IF Expected[t] \subseteq connections_ THEN "serve" ELSE "gather"]
  /\ UNCHANGED <<caller, accepting, stop_, server_connections_, shared, conns, net>>

\* notify_one
LoopExit(t) ==
  /\ Polling(t) /\ stop_[t]
  /\ listen_mutex_free
  /\ listen_count_' = listen_count_ - 1
  /\ \/ /\ Sleepers = {}
        /\ loop_thread_' = [loop_thread_ EXCEPT ![t] = "exited"]
     \/ \E u \in Sleepers :
          loop_thread_' = [loop_thread_ EXCEPT ![t] = "exited", ![u] = "check"]
  /\ UNCHANGED <<caller, accepting, stop_, server_connections_, task_count_,
                 is_inited_, conns, net>>
-----------------------------------------------------------------------------
(* The peers: each starts each task once, over one connection.             *)

PeerStart(c, t) ==
  /\ c \in Expected[t] /\ lock[<<c, t>>] = "none"
  /\ lock' = [lock EXCEPT ![<<c, t>>] = "pending"]
  /\ UNCHANGED <<caller, loop_thread_, accepting, stop_, server_connections_,
                 shared, conns, backlog, listen_event, dialled>>

Dial(c) ==
  /\ is_inited_ /\ c \notin dialled
  /\ \E t \in Task : lock[<<c, t>>] = "pending"
  /\ dialled' = dialled \cup {c}
  /\ backlog' = backlog \cup {c}
  /\ listen_event' = TRUE
  /\ UNCHANGED <<caller, loop_thread_, accepting, stop_, server_connections_,
                 shared, conns, lock>>

PeerSendsLock(c, t) ==
  /\ lock[<<c, t>>] = "pending" /\ c \in connections_
  /\ lock' = [lock EXCEPT ![<<c, t>>] = "wire"]
  /\ UNCHANGED <<caller, loop_thread_, accepting, stop_, server_connections_,
                 shared, conns, backlog, listen_event, dialled>>
-----------------------------------------------------------------------------
Loop(t) ==
  \/ LoopTurn(t) \/ LoopSleep(t) \/ LoopIdle(t) \/ GatherCheck(t) \/ LoopExit(t)
  \/ InsertConnection(t)
  \/ \E c \in Client : AcceptDrops(t, c) \/ HandleAccept(t, c) \/ HandleRead(t, c)

Stop(t) ==
  \/ StopNotify(t) \/ StopJoin(t) \/ StopLast(t)
  \/ \E c \in Client : ConnStopLock(t, c) \/ ConnStopRecv(t, c)

Put(t, c) == FindConnection(t, c) \/ PutConnection(t, c)

Peer(c) == Dial(c) \/ \E t \in Task : PeerStart(c, t) \/ PeerSendsLock(c, t)

Next ==
  \/ \E t \in Task : \/ StartOk(t) \/ StartFails(t) \/ InitReturn(t) \/ StopCall(t)
                     \/ Stop(t) \/ Loop(t)
                     \/ \E c \in Client : Put(t, c)
  \/ \E c \in Client : Peer(c)

Spec == Init /\ [][Next]_vars

(* Every thread that can go on goes on, the peers' too; nothing is assumed *)
(* of when a task is started or stopped here.  stop_ is tested after every *)
(* loop_once, so events without end do not keep the loop from ending.      *)
Fairness ==
  /\ \A t \in Task : /\ WF_vars(Loop(t)) /\ SF_vars(LoopExit(t))
                     /\ WF_vars(Stop(t)) /\ WF_vars(InitReturn(t))
                     /\ \A c \in Client : WF_vars(Put(t, c))
  /\ \A c \in Client : WF_vars(Peer(c))

FairSpec == Spec /\ Fairness
-----------------------------------------------------------------------------
TypeOK ==
  /\ caller \in [Task -> {"new", "failed", "start", "up", "stop_notify", "stop_join",
                          "stop_conns", "stopped"}]
  /\ loop_thread_ \in [Task -> {"none", "check", "decided", "asleep", "gather",
                                "gather_check", "serve", "exited"}]
  /\ accepting \in [Task -> Client \cup {None}]
  /\ stop_ \in [Task -> BOOLEAN]
  /\ server_connections_ \in [Task -> SUBSET Client]
  /\ listen_count_ \in Nat /\ task_count_ \in Nat /\ is_inited_ \in BOOLEAN
  /\ connections_ \subseteq Client /\ connections_mtx_ \in (Task \X Client) \cup {None}
  /\ task_mtx_ \in [Client -> Task \cup {None}]
  /\ backlog \subseteq Client /\ listen_event \in BOOLEAN /\ dialled \subseteq Client
  /\ lock \in [Client \X Task -> {"none", "pending", "wire", "in", "taken", "lost"}]

(* One loop thread at most serves epoll: main_buffer_ apart, everything a  *)
(* handler touches is shared by the tasks.                                 *)
OneLoop ==
  /\ \A t, u \in Task : Serving(t) /\ Serving(u) => t = u
  /\ listen_count_ = IF \E t \in Task : Serving(t) THEN 1 ELSE 0

InUse(t) == caller[t] \in {"start", "up", "stop_notify", "stop_join", "stop_conns"}

(* The sockets are closed only when no loop thread polls them and no task  *)
(* has a connection or is about to get one.                                *)
NoUseAfterClose == \A t \in Task :
  /\ Serving(t) \/ InUse(t) => is_inited_
  /\ server_connections_[t] \subseteq connections_

Running(t) == caller[t] \in {"start", "up"}

\* a stop() holds task_mtx_ of c and waits for a lock frame nobody has read
Unread(c) == \E t \in Task : task_mtx_[c] = t /\ lock[<<c, t>>] \notin {"in", "taken"}

\* find_connection holds connections_mtx_ and waits for such a stop(), which
\* waits for the loop thread, which waits for connections_mtx_
MutexCycle == \E t \in Task, c \in Client :
  connections_mtx_ = <<t, c>> /\ Unread(c) /\ \E u \in Task : Serving(u) /\ ~Polling(u)

(* While tasks are running some loop thread gets to epoll_wait, whoever    *)
(* stops in between and whomever the hand-over wakes: only the cycle of    *)
(* connections_mtx_, task_mtx_ and the unread lock frame keeps it away.    *)
EpollServed ==
  (\E t \in Task : Running(t)) ~>
    (\E t \in Task : Polling(t)) \/ (\A t \in Task : ~Running(t)) \/ MutexCycle

(* stop() returns.                                                         *)
StopReturns == \A t \in Task : caller[t] = "stop_notify" ~> caller[t] = "stopped"

Stopping(t) == caller[t] \in {"stop_notify", "stop_join", "stop_conns"}

\* t's stop() is held up by one of the two things that can do so for good:
\* a lock frame nobody reads, as no loop thread is left, and the mutex cycle
Hung(t) ==
  \/ /\ caller[t] = "stop_conns"
     /\ \E c \in server_connections_[t] : Unread(c)
     /\ MutexCycle \/ \A u \in Task : ~Serving(u)
  \/ caller[t] = "stop_join" /\ Serving(t) /\ MutexCycle

(* A stop() that does not return stays hung in one of these two ways, at   *)
(* its own connections or at its own loop thread: nothing else, neither    *)
(* the join, nor the hand-over of the loop, nor another task's stop() that *)
(* got its frame, holds it up for good.                                    *)
StopReturnsUnlessHung == \A t \in Task : []<>(~Stopping(t)) \/ <>[]Hung(t)
=============================================================================
