----------------------------- MODULE TCPClient -----------------------------
(***************************************************************************)
(* The outgoing connections of one process (client.cpp) and the nodes it   *)
(* dials.  Every task has a TCPClient object per address; the connections  *)
(* are static and shared: the first task dials, later tasks start on the   *)
(* same Connection, a task that comes while another dials waits for it,    *)
(* and the last one to close() closes them all.                            *)
(*                                                                         *)
(* The dialled nodes are there as far as they decide what a shared         *)
(* connection is worth: the table entry of this process's id, the tasks    *)
(* that put_connection() takes from it, and the close by their last task   *)
(* (server.cpp; the module TCPServer has the rest of it).  Nothing is      *)
(* exchanged between the two when a connection is reused or closed, so     *)
(* each end may have moved on without the other.                           *)
(*                                                                         *)
(* Of Connection there remain its mutex task_mtx_, which stop() holds      *)
(* until the other end's "lock:task" frame came, and these frames.         *)
(* Sockets have SO_LINGER {1, 0}: close() resets, so the other end sees    *)
(* EPOLLERR with TCP_CLOSE and not an end of file.                         *)
(***************************************************************************)
EXTENDS Naturals, FiniteSets

CONSTANTS Task, Address,
          Client,      \* the TCPClient objects: pairs <<task, address>>
          None,
          MayFail      \* whether connect() may run out of retries

ASSUME TCPClientAssumption ==
  /\ Client \subseteq Task \X Address /\ IsFiniteSet(Client)
  /\ None \notin Client /\ None \notin Nat
  /\ MayFail \in BOOLEAN

\* a client dials once, so this many connections can be made
Conn == 1..Cardinality(Client)

VARIABLES
  pc,                \* per client: where its thread is
  conn_,             \* per client: its connection
  connections_,      \* per address: the connection tasks share
  to_connect_set_,   \* the addresses being dialled
  task_count_,
  task_mtx_,         \* TCPClient::task_mtx_, when held across a step
  stopping,          \* per connection: the client whose stop() has its task_mtx_
  made,              \* connections made so far
  open,              \* those whose socket is open here
  polled,            \* those add_connection_to_epoll was called on
  reuseable_,        \* those set_reuseable(false) was not called on
  wire, inbox,       \* lock frames <<connection, task>> coming, and come
  \* the same at the other end
  peer, peer_conn, accepted, peer_stopping, peer_open, peer_reuseable,
  peer_wire, peer_inbox

table == <<connections_, to_connect_set_, task_count_>>
here == <<stopping, open, polled, reuseable_, inbox>>
there == <<peer, peer_conn, accepted, peer_stopping, peer_open, peer_reuseable, peer_inbox>>
vars == <<pc, conn_, table, task_mtx_, here, made, wire, peer_wire, there>>

TaskOf(c) == c[1]
AddressOf(c) == c[2]

Init ==
  /\ pc = [c \in Client |-> "new"] /\ conn_ = [c \in Client |-> None]
  /\ connections_ = [a \in Address |-> None]
  /\ to_connect_set_ = {} /\ task_count_ = 0 /\ task_mtx_ = None
  /\ stopping = [k \in Conn |-> None]
  /\ made = 0 /\ open = {} /\ polled = {} /\ reuseable_ = Conn
  /\ wire = {} /\ inbox = {} /\ peer_wire = {} /\ peer_inbox = {}
  /\ peer = [c \in Client |-> "off"] /\ peer_conn = [c \in Client |-> None]
  /\ accepted = [a \in Address |-> None]
  /\ peer_stopping = [k \in Conn |-> None]
  /\ peer_open = {} /\ peer_reuseable = Conn
-----------------------------------------------------------------------------
(* connect().                                                              *)

Goto(c, where) == pc' = [pc EXCEPT ![c] = where]

\* a connection to share, or one another task is making
Shareable(a) == connections_[a] # None /\ connections_[a] \in reuseable_

\* Bug: a task dials although another is dialling
ConnectAgain(c) ==
  LET a == AddressOf(c) IN
  /\ pc[c] = "new" /\ task_mtx_ = None
  /\ task_count_' = task_count_ + 1
  /\ \/ /\ Shareable(a)
        /\ conn_' = [conn_ EXCEPT ![c] = connections_[a]]
        /\ task_mtx_' = c
        /\ Goto(c, "start")
        /\ UNCHANGED <<connections_, to_connect_set_>>
     \/ /\ ~Shareable(a)
        /\ connections_' = [connections_ EXCEPT ![a] = None]
        /\ to_connect_set_' = to_connect_set_ \cup {a}
        /\ Goto(c, "dial")
        /\ UNCHANGED <<conn_, task_mtx_>>
  /\ UNCHANGED <<here, made, wire, peer_wire, there>>

Connect(c) ==
  LET a == AddressOf(c) IN
  /\ pc[c] = "new" /\ task_mtx_ = None
  /\ task_count_' = task_count_ + 1
  /\ \/ /\ Shareable(a)
        /\ conn_' = [conn_ EXCEPT ![c] = connections_[a]]
        /\ task_mtx_' = c
        /\ Goto(c, "start")
        /\ UNCHANGED <<connections_, to_connect_set_>>
     \/ /\ ~Shareable(a)
        /\ connections_' = [connections_ EXCEPT ![a] = None]
        /\ to_connect_set_' = to_connect_set_ \cup {a}
        /\ Goto(c, IF a \in to_connect_set_ THEN "wait" ELSE "dial")
        /\ UNCHANGED <<conn_, task_mtx_>>
  /\ UNCHANGED <<here, made, wire, peer_wire, there>>

\* the predicate of task_cv_ changes only where it is notified
Wake(c) ==
  /\ pc[c] = "wait" /\ task_mtx_ = None
  /\ connections_[AddressOf(c)] # None
  /\ conn_' = [conn_ EXCEPT ![c] = connections_[AddressOf(c)]]
  /\ task_mtx_' = c
  /\ Goto(c, "start")
  /\ UNCHANGED <<table, here, made, wire, peer_wire, there>>

PeerRuns(c) == peer[c] \in {"start", "found", "up", "stop", "stopping"}

\* a loop thread runs at an address: stop() joins its own before it stops
\* the connections
PeerPolls(a) == \E c \in Client : AddressOf(c) = a /\ peer[c] \in {"start", "found", "up"}

\* find_connection holds connections_mtx_ there and waits for a stop(): the
\* loop thread accepts nobody, and does not poll while it gathers its clients
PeerBlocked(a) == \E c \in Client :
  /\ AddressOf(c) = a /\ peer[c] = "start"
  /\ accepted[a] # None /\ accepted[a] \in peer_reuseable
  /\ peer_stopping[accepted[a]] # None

\* Bug: the retry loop goes on after a success
DialOkRetries(c) ==
  /\ pc[c] = "dial"
  /\ PeerPolls(AddressOf(c)) /\ ~PeerBlocked(AddressOf(c))
  /\ made' = made + 1
  /\ conn_' = [conn_ EXCEPT ![c] = made']
  /\ open' = open \cup {made'} /\ peer_open' = peer_open \cup {made'}
  /\ accepted' = [accepted EXCEPT ![AddressOf(c)] = made']
  /\ UNCHANGED <<pc, table, task_mtx_, stopping, polled, reuseable_, inbox, wire,
                 peer_wire, peer, peer_conn, peer_stopping, peer_reuseable,
                 peer_inbox>>

\* socket, connect, the acknowledgement of the acceptor and the own id: the
\* acceptor puts the connection into its table, in the place of an older one
DialOk(c) ==
  /\ pc[c] = "dial"
  /\ PeerPolls(AddressOf(c)) /\ ~PeerBlocked(AddressOf(c))
  /\ made' = made + 1
  /\ conn_' = [conn_ EXCEPT ![c] = made']
  /\ open' = open \cup {made'} /\ peer_open' = peer_open \cup {made'}
  /\ accepted' = [accepted EXCEPT ![AddressOf(c)] = made']
  /\ Goto(c, "publish")
  /\ UNCHANGED <<table, task_mtx_, stopping, polled, reuseable_, inbox, wire,
                 peer_wire, peer, peer_conn, peer_stopping, peer_reuseable,
                 peer_inbox>>

\* the retries are used up; what connect() had recorded stays
DialFails(c) ==
  /\ MayFail
  /\ pc[c] = "dial"
  /\ Goto(c, "failed")
  /\ UNCHANGED <<conn_, table, task_mtx_, here, made, wire, peer_wire, there>>

\* Bug: the connection does not get into the table
PublishForgets(c) ==
  /\ pc[c] = "publish" /\ task_mtx_ = None
  /\ to_connect_set_' = to_connect_set_ \ {AddressOf(c)}
  /\ Goto(c, "first")
  /\ UNCHANGED <<conn_, connections_, task_count_, task_mtx_, here, made, wire,
                 peer_wire, there>>

\* map::insert keeps an entry there is
Publish(c) ==
  LET a == AddressOf(c) IN
  /\ pc[c] = "publish" /\ task_mtx_ = None
  /\ connections_' = [connections_ EXCEPT ![a] = IF @ = None THEN conn_[c] ELSE @]
  /\ to_connect_set_' = to_connect_set_ \ {a}
  /\ Goto(c, "first")
  /\ UNCHANGED <<conn_, task_count_, task_mtx_, here, made, wire, peer_wire, there>>

\* Connection::start: after the publication for the task that dialled, under
\* task_mtx_ for the others.  What is sent on a closed socket is lost
Start(c) ==
  LET k == conn_[c] IN
  /\ pc[c] \in {"first", "start"}
  /\ stopping[k] = None
  /\ peer_wire' = IF k \in open /\ k \in peer_open
                  THEN peer_wire \cup {<<k, TaskOf(c)>>} ELSE peer_wire
  /\ task_mtx_' = IF pc[c] = "start" THEN None ELSE task_mtx_
  /\ Goto(c, IF pc[c] = "start" THEN "up" ELSE "register")
  /\ UNCHANGED <<conn_, table, here, made, wire, there>>

\* BasicIO::init has epoll watch what its client has dialled, and only now
Register(c) ==
  /\ pc[c] = "register"
  /\ polled' = polled \cup {conn_[c]}
  /\ Goto(c, "up")
  /\ UNCHANGED <<conn_, table, task_mtx_, stopping, open, reuseable_, inbox, made,
                 wire, peer_wire, there>>
-----------------------------------------------------------------------------
(* close().                                                                *)

CloseCall(c) ==
  /\ pc[c] = "up"
  /\ Goto(c, "stop")
  /\ UNCHANGED <<conn_, table, task_mtx_, here, made, wire, peer_wire, there>>

StopLock(c) ==
  /\ pc[c] = "stop" /\ stopping[conn_[c]] = None
  /\ stopping' = [stopping EXCEPT ![conn_[c]] = c]
  /\ Goto(c, "stopping")
  /\ UNCHANGED <<conn_, table, task_mtx_, open, polled, reuseable_, inbox, made,
                 wire, peer_wire, there>>


StopRecv(c) ==
  /\ pc[c] = "stopping"
  /\ <<conn_[c], TaskOf(c)>> \in inbox
  /\ inbox' = inbox \ {<<conn_[c], TaskOf(c)>>}
  /\ stopping' = [stopping EXCEPT ![conn_[c]] = None]
  /\ Goto(c, "release")
  /\ UNCHANGED <<conn_, table, task_mtx_, open, polled, reuseable_, made, wire,
                 peer_wire, there>>

get_unrecv_size_zero ==
  \A a \in Address, t \in Task : <<connections_[a], t>> \notin inbox

\* Bug: a task that stops closes the connections, whoever else uses them
ReleaseAlways(c) ==
  /\ pc[c] = "release" /\ task_mtx_ = None
  /\ task_count_' = task_count_ - 1
  /\ open' = open \ { connections_[a] : a \in Address }
  /\ connections_' = [a \in Address |-> None]
  /\ to_connect_set_' = {}
  /\ Goto(c, "closed")
  /\ UNCHANGED <<conn_, task_mtx_, stopping, polled, reuseable_, inbox, made, wire,
                 peer_wire, there>>

\* a reset discards what has not been read, and of what has not been
\* transmitted any part (Lost)
Release(c) ==
  LET last == task_count_ = 1 /\ get_unrecv_size_zero
      closed == { connections_[a] : a \in Address } IN
  /\ pc[c] = "release" /\ task_mtx_ = None
  /\ task_count_' = task_count_ - 1
  /\ \/ /\ last
        /\ open' = open \ closed
        /\ wire' = { f \in wire : f[1] \notin closed }
        /\ \E Lost \in SUBSET { f \in peer_wire : f[1] \in closed } : peer_wire' = peer_wire \ Lost
        /\ connections_' = [a \in Address |-> None]
        /\ to_connect_set_' = {}
     \/ /\ ~last
        /\ UNCHANGED <<open, wire, peer_wire, connections_, to_connect_set_>>
  /\ Goto(c, "closed")
  /\ UNCHANGED <<conn_, task_mtx_, stopping, polled, reuseable_, inbox, made,
                 there>>
-----------------------------------------------------------------------------
(* The epoll loop of this process, and of the others.                      *)

\* a task is in use here: BasicIO::close ends its clients, then its server
Polls == \E c \in Client : pc[c] \notin {"new", "closed", "failed"}

Receive ==
  \E f \in wire :
    /\ f[1] \in open \cap polled
    /\ wire' = wire \ {f} /\ inbox' = inbox \cup {f}
    /\ UNCHANGED <<pc, conn_, table, task_mtx_, stopping, open, polled, reuseable_,
                   made, peer_wire, there>>

\* handle_error after a reset: what had arrived is still read
HandleError(k) ==
  /\ k \in (open \cap polled) \ peer_open
  /\ reuseable_' = reuseable_ \ {k}
  /\ open' = open \ {k}
  /\ inbox' = inbox \cup { f \in wire : f[1] = k }
  /\ wire' = { f \in wire : f[1] # k }
  /\ UNCHANGED <<pc, conn_, table, task_mtx_, stopping, polled, made, peer_wire,
                 there>>

\* the connections to an address: a client keeps its conn_ to the end
ConnsTo(a) == { conn_[c] : c \in { d \in Client : AddressOf(d) = a } }

PeerReceive(a) ==
  \E f \in peer_wire :
    /\ f[1] \in peer_open \cap ConnsTo(a) /\ PeerPolls(a)
    /\ peer_wire' = peer_wire \ {f} /\ peer_inbox' = peer_inbox \cup {f}
    /\ UNCHANGED <<pc, conn_, table, task_mtx_, here, made, wire, peer, peer_conn,
                   accepted, peer_stopping, peer_open, peer_reuseable>>

PeerHandleError(a, k) ==
  /\ k \in (peer_open \cap ConnsTo(a)) \ open /\ PeerPolls(a)
  /\ peer_reuseable' = peer_reuseable \ {k}
  /\ peer_open' = peer_open \ {k}
  /\ peer_inbox' = peer_inbox \cup { f \in peer_wire : f[1] = k }
  /\ peer_wire' = { f \in peer_wire : f[1] # k }
  /\ UNCHANGED <<pc, conn_, table, task_mtx_, here, made, wire, peer, peer_conn,
                 accepted, peer_stopping>>
-----------------------------------------------------------------------------
(* The task at the other end: start(), put_connection(), stop().           *)

PeerStart(c) ==
  /\ peer[c] = "off"
  /\ peer' = [peer EXCEPT ![c] = "start"]
  /\ UNCHANGED <<pc, conn_, table, task_mtx_, here, made, wire, peer_wire,
                 peer_conn, accepted, peer_stopping, peer_open, peer_reuseable,
                 peer_inbox>>

\* find_connection starts the task on what the table has ...
PeerFind(c) ==
  LET k == accepted[AddressOf(c)] IN
  /\ peer[c] = "start" /\ k # None
  /\ k \in peer_reuseable /\ peer_stopping[k] = None
  /\ peer_conn' = [peer_conn EXCEPT ![c] = k]
  /\ wire' = IF k \in open /\ k \in peer_open THEN wire \cup {<<k, TaskOf(c)>>} ELSE wire
  /\ peer' = [peer EXCEPT ![c] = "found"]
  /\ UNCHANGED <<pc, conn_, table, task_mtx_, here, made, peer_wire, accepted,
                 peer_stopping, peer_open, peer_reuseable, peer_inbox>>

\* ... and put_connection looks again whether it is still good; if it is
\* not, init() calls it once more
PeerPut(c) ==
  /\ peer[c] = "found"
  /\ peer' = [peer EXCEPT ![c] = IF peer_conn[c] \in peer_reuseable THEN "up" ELSE "start"]
  /\ UNCHANGED <<pc, conn_, table, task_mtx_, here, made, wire, peer_wire,
                 peer_conn, accepted, peer_stopping, peer_open, peer_reuseable,
                 peer_inbox>>

\* the loop thread is stopped and joined
PeerStop(c) ==
  /\ peer[c] = "up"
  /\ peer' = [peer EXCEPT ![c] = "stop"]
  /\ UNCHANGED <<pc, conn_, table, task_mtx_, here, made, wire, peer_wire,
                 peer_conn, accepted, peer_stopping, peer_open, peer_reuseable,
                 peer_inbox>>

PeerStopLock(c) ==
  /\ peer[c] = "stop" /\ peer_stopping[peer_conn[c]] = None
  /\ peer_stopping' = [peer_stopping EXCEPT ![peer_conn[c]] = c]
  /\ peer' = [peer EXCEPT ![c] = "stopping"]
  /\ UNCHANGED <<pc, conn_, table, task_mtx_, here, made, wire, peer_wire,
                 peer_conn, accepted, peer_open, peer_reuseable, peer_inbox>>

\* the frame came; the last task closes the connection, unless data is unread
PeerStopRecv(c) ==
  LET a == AddressOf(c)
      k == accepted[a]
      last == /\ \A d \in Client \ {c} : AddressOf(d) = a => ~PeerRuns(d)
              /\ \A t \in Task : <<k, t>> \notin peer_inbox' IN
  /\ peer[c] = "stopping"
  /\ <<peer_conn[c], TaskOf(c)>> \in peer_inbox
  /\ peer_inbox' = peer_inbox \ {<<peer_conn[c], TaskOf(c)>>}
  /\ peer_stopping' = [peer_stopping EXCEPT ![peer_conn[c]] = None]
  /\ peer' = [peer EXCEPT ![c] = "stopped"]
  /\ \/ /\ last
        /\ peer_open' = peer_open \ {k}
        /\ accepted' = [accepted EXCEPT ![a] = None]
        /\ peer_wire' = { f \in peer_wire : f[1] # k }
        /\ \E Lost \in SUBSET { f \in wire : f[1] = k } : wire' = wire \ Lost
     \/ /\ ~last
        /\ UNCHANGED <<peer_open, accepted, wire, peer_wire>>
  /\ UNCHANGED <<pc, conn_, table, task_mtx_, here, made, peer_conn,
                 peer_reuseable>>
-----------------------------------------------------------------------------
Thread(c) ==
  \/ Connect(c) \/ Wake(c) \/ DialOk(c) \/ Publish(c) \/ Start(c) \/ Register(c)
  \/ StopLock(c) \/ StopRecv(c) \/ Release(c)

PeerThread(c) ==
  PeerStart(c) \/ PeerFind(c) \/ PeerPut(c) \/ PeerStopLock(c) \/ PeerStopRecv(c)

Epoll == Receive \/ \E k \in Conn : HandleError(k)

PeerEpoll(a) == PeerReceive(a) \/ \E k \in Conn : PeerHandleError(a, k)

Next ==
  \/ \E c \in Client : \/ Thread(c) \/ DialFails(c) \/ CloseCall(c)
                       \/ PeerThread(c) \/ PeerStop(c)
  \/ Epoll \/ \E a \in Address : PeerEpoll(a)

Spec == Init /\ [][Next]_vars

(* Every thread that can go on goes on, and both ends run every task; when *)
(* a task is closed is not assumed.  Epoll is served by the loop thread of *)
(* a task in use, at the other end unless find_connection blocks it.       *)
Fairness ==
  /\ \A c \in Client : WF_vars(Thread(c)) /\ WF_vars(PeerThread(c))
  /\ WF_vars(Polls /\ Epoll)
  /\ \A a \in Address : WF_vars(~PeerBlocked(a) /\ PeerEpoll(a))

FairSpec == Spec /\ Fairness
-----------------------------------------------------------------------------
TypeOK ==
  /\ pc \in [Client -> {"new", "wait", "dial", "publish", "first", "start", "register",
                        "up", "stop", "stopping", "release", "closed", "failed"}]
  /\ conn_ \in [Client -> Conn \cup {None}]
  /\ connections_ \in [Address -> Conn \cup {None}]
  /\ to_connect_set_ \subseteq Address /\ task_count_ \in Nat
  /\ task_mtx_ \in Client \cup {None}
  /\ stopping \in [Conn -> Client \cup {None}]
  /\ made \in 0..Cardinality(Client) /\ open \subseteq Conn /\ reuseable_ \subseteq Conn
  /\ polled \subseteq Conn
  /\ wire \subseteq Conn \X Task /\ inbox \subseteq Conn \X Task
  /\ peer \in [Client -> {"off", "start", "found", "up", "stop", "stopping", "stopped"}]
  /\ peer_conn \in [Client -> Conn \cup {None}]
  /\ accepted \in [Address -> Conn \cup {None}]
  /\ peer_stopping \in [Conn -> Client \cup {None}]
  /\ peer_open \subseteq Conn /\ peer_reuseable \subseteq Conn
  /\ peer_wire \subseteq Conn \X Task /\ peer_inbox \subseteq Conn \X Task

Dialling(c) == pc[c] \in {"dial", "publish"}
Uses(c) == pc[c] \in {"first", "start", "register", "up", "stop", "stopping"}
PeerUses(c) == peer[c] \in {"found", "up", "stop", "stopping"}

(* One task at a time makes a connection to an address, and only while     *)
(* there is none to share.                                                 *)
OneDial == \A c \in Client : Dialling(c) =>
  /\ connections_[AddressOf(c)] = None
  /\ AddressOf(c) \in to_connect_set_
  /\ \A d \in Client : Dialling(d) /\ AddressOf(d) = AddressOf(c) => d = c

(* close() closes no connection that another task has or is about to       *)
(* start: a connection in use is closed here only after the other end      *)
(* closed it.                                                              *)
ClosedUnused == \A c \in Client : Uses(c) => conn_[c] \in open \/ conn_[c] \notin peer_open

(* The two ends of a task use the same connection, unless one of them had  *)
(* closed the connection the other took.                                   *)
SameLink == \A c \in Client : Uses(c) /\ PeerUses(c) /\ conn_[c] # peer_conn[c] =>
  conn_[c] \notin peer_open \/ peer_conn[c] \notin open

\* the stop() of s, for which c waits: its own, that of its connection, or
\* that of the connection of a task that has TCPClient::task_mtx_
HeldBy(c, s) == pc[s] = "stopping" /\
  \/ c = s
  \/ pc[c] \in {"first", "start", "stop"} /\ stopping[conn_[c]] = s
  \/ /\ pc[c] \in {"new", "wait", "publish", "release"} /\ task_mtx_ # None
     /\ stopping[conn_[task_mtx_]] = s

\* the other end of s is not on its connection any more
Alone(s) == conn_[s] \notin peer_open \/ (PeerUses(s) /\ peer_conn[s] # conn_[s])

\* the task that dialled the connection waits for s before it registers it
Unregistered(s) == \E d \in Client :
  pc[d] = "first" /\ conn_[d] = conn_[s] /\ conn_[s] \notin polled

\* s waits for its other end, which waits for the stop() of another task d
\* there, which waits: for d here, itself held up or on another connection, or
\* for a frame that the loop thread there, blocked by this wait, need not read
CrossStop(s) == peer[s] = "start" /\ \E d \in Client :
  /\ peer_stopping[conn_[s]] = d
  /\ \/ conn_[d] # conn_[s] \/ \E u \in Client : HeldBy(d, u)
     \/ <<conn_[s], TaskOf(d)>> \in peer_wire

\* nobody accepts what c, or the task c waits for, dials; or that one gave up
NotDialled(c) == pc[c] \in {"dial", "wait"} /\ \A d \in Client :
  Dialling(d) /\ AddressOf(d) = AddressOf(c) =>
    pc[d] = "dial" /\ (PeerBlocked(AddressOf(d)) \/ ~PeerPolls(AddressOf(d)))

=============================================================================
