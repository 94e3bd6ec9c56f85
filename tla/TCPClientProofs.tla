-------------------------- MODULE TCPClientProofs --------------------------
(***************************************************************************)
(* Proofs about TCPClient for every set of tasks and addresses.  The two   *)
(* ends never talk about a connection they share, so what one end uses has *)
(* to be tied to the other end's table: a connection in use that is open   *)
(* at the other end is the entry of connections_ (InTable), such an entry  *)
(* is the one the other end accepted last (Accepted), and one that the     *)
(* other end uses and that is open here is that one, too (PeerInTable).    *)
(* The tables only change while nobody is left to disagree, which is what  *)
(* task_count_ is for (Counted).                                           *)
(***************************************************************************)
EXTENDS TCPClient, FiniteSetTheorems, TLAPS

\* the tasks close() has to wait for; a failed connect() remains one
Begun == { c \in Client : pc[c] \notin {"new", "closed"} }

\* the clients that may still make a connection
Undialled == { c \in Client : pc[c] \in {"new", "wait", "dial"} }

Counted == task_count_ = Cardinality(Begun)

Bounded == made + Cardinality(Undialled) <= Cardinality(Client)

\* a client that is past its dial, or shares one, has a connection
Known == \A c \in Client : Uses(c) \/ pc[c] = "publish" => conn_[c] \in Conn

\* no connection is known before it is made
Fresh ==
  /\ open \subseteq 1..made /\ peer_open \subseteq 1..made
  /\ \A c \in Client : conn_[c] # None => conn_[c] <= made
  /\ \A c \in Client : peer_conn[c] # None => peer_conn[c] <= made
  /\ \A a \in Address : connections_[a] # None => connections_[a] <= made
  /\ \A a \in Address : accepted[a] # None => accepted[a] <= made

\* a connection that failed here is closed at both ends
Failed == \A k \in Conn : k \notin reuseable_ => k <= made /\ k \notin open
   /\ k \notin peer_open

Waited == \A a \in to_connect_set_ : connections_[a] = None

\* what may be used next is open here as long as it is at the other end
OpenHere ==
  /\ \A a \in Address : connections_[a] \in open \/ connections_[a] \notin peer_open
  /\ \A c \in Client : pc[c] = "publish" => conn_[c] \in open \/ conn_[c] \notin peer_open

InTable == \A c \in Client :
  Uses(c) /\ conn_[c] \in peer_open => connections_[AddressOf(c)] = conn_[c]

Accepted ==
  /\ \A a \in Address : connections_[a] \in peer_open => accepted[a] = connections_[a]
  /\ \A c \in Client : pc[c] = "publish" /\ conn_[c] \in peer_open =>
       accepted[AddressOf(c)] = conn_[c]

PeerInTable ==
  /\ \A c \in Client : PeerUses(c) /\ peer_conn[c] \in open =>
       accepted[AddressOf(c)] = peer_conn[c]
  /\ \A a \in Address : accepted[a] \in open =>
       \/ connections_[a] = accepted[a]
       \/ \E d \in Client : pc[d] = "publish" /\ AddressOf(d) = a /\ conn_[d] = accepted[a]

TInv == TypeOK /\ Counted /\ Bounded
SInv == /\ Fresh /\ Failed /\ Waited /\ OneDial /\ OpenHere /\ ClosedUnused
        /\ InTable /\ Accepted /\ PeerInTable
IInv == TInv /\ Known /\ SInv
-----------------------------------------------------------------------------
(* A client is a task and an address.                                      *)
LEMMA Pairs ==
  \A c \in Client : AddressOf(c) \in Address /\ TaskOf(c) \in Task
BY TCPClientAssumption DEF AddressOf, TaskOf

(* Sets of clients are finite.                                             *)
LEMMA Sizes ==
  /\ IsFiniteSet(Client) /\ Cardinality(Client) \in Nat
  /\ \A S \in SUBSET Client : IsFiniteSet(S) /\ Cardinality(S) \in Nat
                              /\ Cardinality(S) <= Cardinality(Client)
BY TCPClientAssumption, FS_CardinalityType, FS_Subset

(* One client more, or one less, in a set of clients.                      *)
LEMMA OneMore ==
  ASSUME NEW S \in SUBSET Client, NEW c \in Client
  PROVE  /\ c \notin S => Cardinality(S \cup {c}) = Cardinality(S) + 1
         /\ c \in S => Cardinality(S \ {c}) = Cardinality(S) - 1
<1>1. IsFiniteSet(S)
  BY Sizes
<1> QED BY <1>1, FS_AddElement, FS_RemoveElement

(* The last task to be counted is alone.                                   *)
LEMMA LastTask ==
  ASSUME TypeOK, Counted, task_count_ = 1, NEW c \in Client, c \in Begun,
         NEW d \in Client, d # c
  PROVE  pc[d] \in {"new", "closed"}
<1>1. SUFFICES ASSUME d \in Begun PROVE FALSE
  BY DEF Begun
<1>2. Begun \ {c} \in SUBSET Client /\ Begun \in SUBSET Client /\ d \in Begun \ {c}
  BY <1>1 DEF Begun
<1>a. Cardinality(Begun) = 1
  BY DEF Counted
<1>3. Cardinality(Begun \ {c}) = 0
  BY <1>2, <1>a, OneMore
<1>4. Begun \ {c} = {}
  BY <1>2, <1>3, Sizes, FS_EmptySet
<1> QED BY <1>2, <1>4
-----------------------------------------------------------------------------
(* How the two sets of clients change.                                     *)
LEMMA Steps ==
  ASSUME TypeOK, NEW c \in Client, NEW w, pc' = [pc EXCEPT ![c] = w]
  PROVE  /\ Begun' = IF w \in {"new", "closed"} THEN Begun \ {c} ELSE Begun \cup {c}
         /\ Undialled' = IF w \in {"new", "wait", "dial"} THEN Undialled \cup {c}
                         ELSE Undialled \ {c}
BY DEF TypeOK, Begun, Undialled

(* Steps of the other threads leave the two sets alone.                    *)
LEMMA Stays ==
  pc' = pc => Begun' = Begun /\ Undialled' = Undialled
BY DEF Begun, Undialled

(* A set of clients with a member is not of size 0.                        *)
LEMMA Positive ==
  ASSUME NEW S \in SUBSET Client, NEW c \in S
  PROVE  Cardinality(S) >= 1
<1>1. Cardinality(S \ {c}) = Cardinality(S) - 1
  BY OneMore
<1>2. S \ {c} \in SUBSET Client
  OBVIOUS
<1> QED BY <1>1, <1>2, Sizes

\* client c goes to w, and counters move with it
Moves(c, w) ==
  /\ pc' = [pc EXCEPT ![c] = w]
  /\ pc[c] # "closed" /\ w # "new"
  /\ w = "closed" => pc[c] # "new"
  /\ w \in {"wait", "dial"} => pc[c] = "new"
  /\ w = "publish" => pc[c] = "dial"
  /\ task_count_' = IF w = "closed" THEN task_count_ - 1
                    ELSE IF pc[c] = "new" THEN task_count_ + 1 ELSE task_count_
  /\ made' = IF w = "publish" THEN made + 1 ELSE made

(* The counter of tasks and the bound on connections, when one client      *)
(* moves on.                                                               *)
LEMMA CountsKept ==
  ASSUME TypeOK, Counted, Bounded, NEW c \in Client, NEW w, Moves(c, w)
  PROVE  Counted' /\ Bounded' /\ task_count_' \in Nat /\ made' \in 0..Cardinality(Client)
<1> USE DEF Moves
<1>1. Begun \in SUBSET Client /\ Undialled \in SUBSET Client
  BY DEF Begun, Undialled
<1>2. /\ Cardinality(Begun) \in Nat /\ Cardinality(Undialled) \in Nat
      /\ Cardinality(Client) \in Nat
  BY <1>1, Sizes
<1>3. /\ Begun' = IF w = "closed" THEN Begun \ {c} ELSE Begun \cup {c}
      /\ Undialled' = IF w \in {"wait", "dial"} THEN Undialled \cup {c} ELSE Undialled \ {c}
  BY Steps
<1>4. /\ c \in Begun <=> pc[c] # "new"
      /\ c \in Undialled <=> pc[c] \in {"new", "wait", "dial"}
  BY DEF Begun, Undialled
<1>5. Cardinality(Begun') = task_count_' /\ task_count_' \in Nat
  <2>1. CASE w = "closed"
    BY <2>1, <1>1, <1>2, <1>3, <1>4, OneMore, Positive DEF Counted
  <2>2. CASE w # "closed" /\ pc[c] = "new"
    BY <2>2, <1>1, <1>2, <1>3, <1>4, OneMore DEF Counted
  <2>3. CASE w # "closed" /\ pc[c] # "new"
    <3>1. Begun' = Begun
      BY <2>3, <1>3, <1>4
    <3> QED BY <2>3, <3>1, <1>2 DEF Counted
  <2> QED BY <2>1, <2>2, <2>3
<1>6. made' + Cardinality(Undialled') <= Cardinality(Client) /\ made' \in 0..Cardinality(Client)
  <2>1. made \in Nat
    BY <1>2 DEF TypeOK
  <2>2. CASE w \in {"wait", "dial"}
    <3>1. Undialled' = Undialled
      BY <2>2, <1>3, <1>4
    <3> QED BY <2>1, <2>2, <3>1, <1>2 DEF Bounded
  <2>3. CASE w \notin {"wait", "dial"} /\ c \notin Undialled
    <3>1. Undialled' = Undialled
      BY <2>3, <1>3
    <3>2. w # "publish"
      BY <2>3, <1>4
    <3> QED BY <2>1, <2>3, <3>1, <3>2, <1>2 DEF Bounded
  <2>4. CASE w \notin {"wait", "dial"} /\ c \in Undialled
    <3>1. Cardinality(Undialled') = Cardinality(Undialled) - 1 /\ Cardinality(Undialled) >= 1
      BY <2>4, <1>1, <1>3, OneMore, Positive
    <3> QED BY <2>1, <2>4, <3>1, <1>2 DEF Bounded
  <2> QED BY <2>2, <2>3, <2>4
<1> QED BY <1>5, <1>6 DEF Counted, Bounded

(* The same when no client moves.                                          *)
LEMMA CountsStay ==
  ASSUME TInv, pc' = pc, task_count_' = task_count_, made' = made
  PROVE  Counted' /\ Bounded'
BY Stays DEF TInv, Counted, Bounded
-----------------------------------------------------------------------------
(* Type correctness of every step, with the counts it rests on.            *)
LEMMA TypeInductive ==
  TInv /\ Known /\ [Next]_vars => TInv'
<1> SUFFICES ASSUME TInv, Known, [Next]_vars PROVE TInv'
  OBVIOUS
<1>0. TypeOK /\ Counted /\ Bounded
  BY DEF TInv
<1>a. \A c \in Client : AddressOf(c) \in Address /\ TaskOf(c) \in Task
  BY Pairs
<1> USE DEF table, here, there, Goto
<1>1. ASSUME NEW c \in Client, Connect(c) PROVE TInv'
  <2>1. Counted' /\ Bounded' /\ task_count_' \in Nat /\ made' \in 0..Cardinality(Client)
    <3>1. \E w : Moves(c, w)
      BY <1>1 DEF Connect, Moves
    <3> QED BY <3>1, <1>0, CountsKept
  <2>2. TypeOK'
    BY <1>0, <1>a, <1>1, <2>1 DEF Connect, TypeOK
  <2> QED BY <2>1, <2>2 DEF TInv
<1>2. ASSUME NEW c \in Client, Wake(c) PROVE TInv'
  <2>1. Counted' /\ Bounded' /\ task_count_' \in Nat /\ made' \in 0..Cardinality(Client)
    <3>1. Moves(c, "start")
      BY <1>2 DEF Wake, Moves
    <3> QED BY <3>1, <1>0, CountsKept
  <2>2. TypeOK'
    BY <1>0, <1>a, <1>2, <2>1 DEF Wake, TypeOK
  <2> QED BY <2>1, <2>2 DEF TInv
<1>3. ASSUME NEW c \in Client, DialOk(c) PROVE TInv'
  <2>1. Counted' /\ Bounded' /\ task_count_' \in Nat /\ made' \in 0..Cardinality(Client)
    <3>1. Moves(c, "publish")
      BY <1>3 DEF DialOk, Moves
    <3> QED BY <3>1, <1>0, CountsKept
  <2>2. TypeOK'
    BY <1>0, <1>a, <1>3, <2>1 DEF DialOk, TypeOK, Conn
  <2> QED BY <2>1, <2>2 DEF TInv
<1>4. ASSUME NEW c \in Client, DialFails(c) PROVE TInv'
  <2>1. Counted' /\ Bounded' /\ task_count_' \in Nat /\ made' \in 0..Cardinality(Client)
    <3>1. Moves(c, "failed")
      BY <1>4 DEF DialFails, Moves
    <3> QED BY <3>1, <1>0, CountsKept
  <2>2. TypeOK'
    BY <1>0, <1>a, <1>4, <2>1 DEF DialFails, TypeOK
  <2> QED BY <2>1, <2>2 DEF TInv
<1>5. ASSUME NEW c \in Client, Publish(c) PROVE TInv'
  <2>1. Counted' /\ Bounded' /\ task_count_' \in Nat /\ made' \in 0..Cardinality(Client)
    <3>1. Moves(c, "first")
      BY <1>5 DEF Publish, Moves
    <3> QED BY <3>1, <1>0, CountsKept
  <2>2. TypeOK'
    BY <1>0, <1>a, <1>5, <2>1 DEF Publish, TypeOK
  <2> QED BY <2>1, <2>2 DEF TInv
<1>6. ASSUME NEW c \in Client, Start(c) PROVE TInv'
  <2>1. Counted' /\ Bounded' /\ task_count_' \in Nat /\ made' \in 0..Cardinality(Client)
    <3>1. Moves(c, IF pc[c] = "start" THEN "up" ELSE "register")
      BY <1>6 DEF Start, Moves
    <3> QED BY <3>1, <1>0, CountsKept
  <2>2. TypeOK'
    BY <1>0, <1>a, <1>6, <2>1 DEF Start, TypeOK
  <2> QED BY <2>1, <2>2 DEF TInv
<1>7. ASSUME NEW c \in Client, CloseCall(c) PROVE TInv'
  <2>1. Counted' /\ Bounded' /\ task_count_' \in Nat /\ made' \in 0..Cardinality(Client)
    <3>1. Moves(c, "stop")
      BY <1>7 DEF CloseCall, Moves
    <3> QED BY <3>1, <1>0, CountsKept
  <2>2. TypeOK'
    BY <1>0, <1>a, <1>7, <2>1 DEF CloseCall, TypeOK
  <2> QED BY <2>1, <2>2 DEF TInv
<1>8. ASSUME NEW c \in Client, StopLock(c) PROVE TInv'
  <2>1. Counted' /\ Bounded' /\ task_count_' \in Nat /\ made' \in 0..Cardinality(Client)
    <3>1. Moves(c, "stopping")
      BY <1>8 DEF StopLock, Moves
    <3> QED BY <3>1, <1>0, CountsKept
  <2>2. TypeOK'
    BY <1>0, <1>a, <1>8, <2>1 DEF StopLock, TypeOK
  <2> QED BY <2>1, <2>2 DEF TInv
<1>9. ASSUME NEW c \in Client, StopRecv(c) PROVE TInv'
  <2>1. Counted' /\ Bounded' /\ task_count_' \in Nat /\ made' \in 0..Cardinality(Client)
    <3>1. Moves(c, "release")
      BY <1>9 DEF StopRecv, Moves
    <3> QED BY <3>1, <1>0, CountsKept
  <2>2. TypeOK'
    BY <1>0, <1>a, <1>9, <2>1 DEF StopRecv, TypeOK
  <2> QED BY <2>1, <2>2 DEF TInv
<1>10. ASSUME NEW c \in Client, Release(c) PROVE TInv'
  <2>1. Counted' /\ Bounded' /\ task_count_' \in Nat /\ made' \in 0..Cardinality(Client)
    <3>1. Moves(c, "closed")
      BY <1>10 DEF Release, Moves
    <3> QED BY <3>1, <1>0, CountsKept
  <2>2. TypeOK'
    BY <1>0, <1>a, <1>10, <2>1 DEF Release, TypeOK
  <2> QED BY <2>1, <2>2 DEF TInv
<1>11. ASSUME Receive PROVE TInv'
  <2>1. Counted' /\ Bounded'
    BY <1>11, CountsStay DEF Receive
  <2>2. TypeOK'
    BY <1>0, <1>a, <1>11 DEF Receive, TypeOK
  <2> QED BY <2>1, <2>2 DEF TInv
<1>12. ASSUME NEW a \in Address, PeerReceive(a) PROVE TInv'
  <2>1. Counted' /\ Bounded'
    BY <1>12, CountsStay DEF PeerReceive
  <2>2. TypeOK'
    BY <1>0, <1>a, <1>12 DEF PeerReceive, TypeOK
  <2> QED BY <2>1, <2>2 DEF TInv
<1>13. ASSUME NEW k \in Conn, HandleError(k) PROVE TInv'
  <2>1. Counted' /\ Bounded'
    BY <1>13, CountsStay DEF HandleError
  <2>2. TypeOK'
    BY <1>0, <1>a, <1>13 DEF HandleError, TypeOK
  <2> QED BY <2>1, <2>2 DEF TInv
<1>14. ASSUME NEW a \in Address, NEW k \in Conn, PeerHandleError(a, k) PROVE TInv'
  <2>1. Counted' /\ Bounded'
    BY <1>14, CountsStay DEF PeerHandleError
  <2>2. TypeOK'
    BY <1>0, <1>a, <1>14 DEF PeerHandleError, TypeOK
  <2> QED BY <2>1, <2>2 DEF TInv
<1>15. ASSUME NEW c \in Client, PeerStart(c) PROVE TInv'
  <2>1. Counted' /\ Bounded'
    BY <1>15, CountsStay DEF PeerStart
  <2>2. TypeOK'
    BY <1>0, <1>a, <1>15 DEF PeerStart, TypeOK
  <2> QED BY <2>1, <2>2 DEF TInv
<1>16. ASSUME NEW c \in Client, PeerFind(c) PROVE TInv'
  <2>1. Counted' /\ Bounded'
    BY <1>16, CountsStay DEF PeerFind
  <2>2. TypeOK'
    BY <1>0, <1>a, <1>16 DEF PeerFind, TypeOK
  <2> QED BY <2>1, <2>2 DEF TInv
<1>17. ASSUME NEW c \in Client, PeerPut(c) PROVE TInv'
  <2>1. Counted' /\ Bounded'
    BY <1>17, CountsStay DEF PeerPut
  <2>2. TypeOK'
    BY <1>0, <1>a, <1>17 DEF PeerPut, TypeOK
  <2> QED BY <2>1, <2>2 DEF TInv
<1>18. ASSUME NEW c \in Client, PeerStop(c) PROVE TInv'
  <2>1. Counted' /\ Bounded'
    BY <1>18, CountsStay DEF PeerStop
  <2>2. TypeOK'
    BY <1>0, <1>a, <1>18 DEF PeerStop, TypeOK
  <2> QED BY <2>1, <2>2 DEF TInv
<1>19. ASSUME NEW c \in Client, PeerStopLock(c) PROVE TInv'
  <2>1. Counted' /\ Bounded'
    BY <1>19, CountsStay DEF PeerStopLock
  <2>2. TypeOK'
    BY <1>0, <1>a, <1>19 DEF PeerStopLock, TypeOK
  <2> QED BY <2>1, <2>2 DEF TInv
<1>20. ASSUME NEW c \in Client, PeerStopRecv(c) PROVE TInv'
  <2>1. Counted' /\ Bounded'
    BY <1>20, CountsStay DEF PeerStopRecv
  <2>2. TypeOK'
    BY <1>0, <1>a, <1>20 DEF PeerStopRecv, TypeOK
  <2> QED BY <2>1, <2>2 DEF TInv
<1>21. ASSUME NEW c \in Client, Register(c) PROVE TInv'
  <2>1. Counted' /\ Bounded' /\ task_count_' \in Nat /\ made' \in 0..Cardinality(Client)
    <3>1. Moves(c, "up")
      BY <1>21 DEF Register, Moves
    <3> QED BY <3>1, <1>0, CountsKept
  <2>2. conn_[c] \in Conn
    BY <1>21 DEF Known, Uses, Register
  <2>3. TypeOK'
    BY <1>0, <1>a, <1>21, <2>1, <2>2 DEF Register, TypeOK
  <2> QED BY <2>1, <2>3 DEF TInv
<1>22. CASE UNCHANGED vars
  <2>1. Counted' /\ Bounded'
    BY <1>22, CountsStay DEF vars
  <2>2. TypeOK'
    BY <1>0, <1>22 DEF vars, TypeOK
  <2> QED BY <2>1, <2>2 DEF TInv
<1> QED
  BY <1>1, <1>2, <1>3, <1>4, <1>5, <1>6, <1>7, <1>8, <1>9, <1>10, <1>11, <1>12, <1>13, <1>14,
     <1>15, <1>16, <1>17, <1>18, <1>19, <1>20, <1>21, <1>22 DEF Next, Thread, PeerThread, Epoll,
        PeerEpoll
-----------------------------------------------------------------------------
(* Who uses a connection has one.                                          *)
LEMMA KnownInductive ==
  TInv /\ Known /\ [Next]_vars => Known'
<1> SUFFICES ASSUME TInv, Known, [Next]_vars PROVE Known'
  OBVIOUS
<1>0. TypeOK /\ TInv' /\ Known
  BY TypeInductive DEF TInv
<1>a. \A c \in Client : AddressOf(c) \in Address
  BY Pairs
<1>b. \A a \in Address : connections_[a] # None => connections_[a] \in Conn
  BY <1>0 DEF TypeOK
<1> USE DEF Uses, Goto
<1>1. CASE UNCHANGED <<pc, conn_>>
  BY <1>0, <1>1 DEF Known
<1>2. ASSUME NEW c \in Client, NEW w, UNCHANGED conn_, pc' = [pc EXCEPT ![c] = w],
             \/ Uses(c) \/ pc[c] = "publish"
             \/ w \in {"wait", "dial", "failed", "closed"}
      PROVE  Known'
  BY <1>0, <1>2 DEF Known, TypeOK
<1>3. ASSUME NEW c \in Client, NEW k \in Conn, NEW w, pc' = [pc EXCEPT ![c] = w],
             conn_' = [conn_ EXCEPT ![c] = k]
      PROVE  Known'
  BY <1>0, <1>3 DEF Known, TypeOK
<1>4. ASSUME NEW c \in Client, Connect(c) PROVE Known'
  BY <1>a, <1>b, <1>2, <1>3, <1>4 DEF Connect, Shareable
<1>5. ASSUME NEW c \in Client, Wake(c) PROVE Known'
  BY <1>a, <1>b, <1>3, <1>5 DEF Wake
<1>6. ASSUME NEW c \in Client, DialOk(c) PROVE Known'
  <2>1. made' \in Conn
    BY <1>0, <1>6, Sizes DEF TInv, TypeOK, DialOk, Conn
  <2> QED BY <1>3, <1>6, <2>1 DEF DialOk
<1>7. ASSUME NEW c \in Client,
             \/ DialFails(c) \/ Publish(c) \/ Start(c) \/ Register(c) \/ CloseCall(c)
             \/ StopLock(c)
      PROVE  Known'
  BY <1>2, <1>7 DEF DialFails, Publish, Start, Register, CloseCall, StopLock
<1>8. ASSUME NEW c \in Client, StopRecv(c) \/ Release(c) PROVE Known'
  BY <1>2, <1>8 DEF StopRecv, Release
<1>9. ASSUME NEW c \in Client, PeerThread(c) \/ PeerStop(c) PROVE Known'
  BY <1>1, <1>9 DEF PeerThread, PeerStart, PeerFind, PeerPut, PeerStop, PeerStopLock,
     PeerStopRecv
<1>10. ASSUME Epoll \/ \E a \in Address : PeerEpoll(a) PROVE Known'
  BY <1>1, <1>10 DEF Epoll, Receive, HandleError, PeerEpoll, PeerReceive, PeerHandleError
<1>11. CASE UNCHANGED vars
  BY <1>1, <1>11 DEF vars
<1> QED
  BY <1>4, <1>5, <1>6, <1>7, <1>8, <1>9, <1>10, <1>11 DEF Next, Thread
-----------------------------------------------------------------------------
(* Every step keeps the two tables tied to each other.                     *)
LEMMA SafetyInductive ==
  IInv /\ TInv' /\ [Next]_vars => SInv'
<1> SUFFICES ASSUME IInv, TInv', [Next]_vars PROVE SInv'
  OBVIOUS
<1>0. TypeOK /\ SInv /\ TypeOK'
  BY DEF IInv, TInv
<1>a. \A c \in Client : AddressOf(c) \in Address /\ TaskOf(c) \in Task
  BY Pairs
<1>b. /\ None \notin Conn
      /\ \A k \in Conn : k \in Nat \ {0} /\ k \in 1..k
  BY TCPClientAssumption, Sizes DEF Conn
<1>c. made \in Nat
  BY <1>0, Sizes DEF TypeOK
<1>d. None \notin open /\ None \notin peer_open
  BY <1>0, <1>b DEF TypeOK
<1> USE DEF SInv, table, here, there, Goto, Uses, PeerUses, PeerRuns, Dialling
<1>1. ASSUME NEW c \in Client, Connect(c) PROVE SInv'
  <2> DEFINE a == AddressOf(c)
  <2>1. CASE Shareable(a)
    <3>1. /\ conn_' = [conn_ EXCEPT ![c] = connections_[a]]
          /\ pc' = [pc EXCEPT ![c] = "start"] /\ pc[c] = "new"
          /\ UNCHANGED <<connections_, to_connect_set_, here, made, there>>
      BY <1>1, <2>1 DEF Connect, Shareable
    <3> QED BY <1>0, <1>a, <3>1 DEF TypeOK, Fresh, Failed, Waited, OneDial, OpenHere,
       ClosedUnused, InTable, Accepted, PeerInTable
  <2>2. CASE ~Shareable(a)
    <3>1. /\ connections_' = [connections_ EXCEPT ![a] = None]
          /\ to_connect_set_' = to_connect_set_ \cup {a}
          /\ pc' = [pc EXCEPT ![c] = IF a \in to_connect_set_ THEN "wait" ELSE "dial"]
          /\ pc[c] = "new"
          /\ UNCHANGED <<conn_, here, made, there>>
      BY <1>1, <2>2 DEF Connect, Shareable
    <3>2. connections_[a] \notin open /\ connections_[a] \notin peer_open
      BY <1>0, <1>a, <1>d, <2>2 DEF Shareable, Failed, TypeOK
    <3> HIDE DEF a
    <3>3. a = AddressOf(c) /\ a \in Address
      BY <1>a DEF a
    <3>4. Fresh'
      BY <1>0, <1>a, <1>d, <3>1, <3>2, <3>3 DEF TypeOK, Fresh
    <3>5. Failed'
      BY <1>0, <1>a, <1>d, <3>1, <3>2, <3>3 DEF TypeOK, Failed
    <3>6. Waited'
      BY <1>0, <1>a, <1>d, <3>1, <3>2, <3>3 DEF TypeOK, Waited
    <3>7. OneDial'
      BY <1>0, <1>a, <1>d, <3>1, <3>2, <3>3 DEF TypeOK, OneDial, Waited
    <3>8. OpenHere'
      BY <1>0, <1>a, <1>d, <3>1, <3>2, <3>3 DEF TypeOK, OpenHere
    <3>9. ClosedUnused'
      BY <1>0, <1>a, <1>d, <3>1, <3>2, <3>3 DEF TypeOK, ClosedUnused
    <3>10. InTable'
      BY <1>0, <1>a, <1>d, <3>1, <3>2, <3>3 DEF TypeOK, InTable
    <3>11. Accepted'
      BY <1>0, <1>a, <1>d, <3>1, <3>2, <3>3 DEF TypeOK, Accepted
    <3>12. PeerInTable'
      BY <1>0, <1>a, <1>d, <3>1, <3>2, <3>3 DEF TypeOK, PeerInTable
    <3> QED BY <3>4, <3>5, <3>6, <3>7, <3>8, <3>9, <3>10, <3>11, <3>12
  <2> QED BY <2>1, <2>2
<1>2. ASSUME NEW c \in Client, Wake(c) PROVE SInv'
  BY <1>0, <1>a, <1>2 DEF Wake, TypeOK, Fresh, Failed, Waited, OneDial, OpenHere,
     ClosedUnused, InTable, Accepted, PeerInTable
<1>3. ASSUME NEW c \in Client, DialOk(c) PROVE SInv'
  <2> DEFINE new == made + 1
             a == AddressOf(c)
  <2>1. /\ made' = new /\ conn_' = [conn_ EXCEPT ![c] = new]
        /\ open' = open \cup {new} /\ peer_open' = peer_open \cup {new}
        /\ accepted' = [accepted EXCEPT ![a] = new]
        /\ pc' = [pc EXCEPT ![c] = "publish"] /\ pc[c] = "dial"
        /\ UNCHANGED <<connections_, to_connect_set_, reuseable_, peer, peer_conn>>
    BY <1>3 DEF DialOk
  <2>2. /\ new \in Nat \ {0} /\ new \notin open /\ new \notin peer_open
        /\ \A d \in Client : conn_[d] # new /\ peer_conn[d] # new
        /\ \A b \in Address : connections_[b] # new /\ accepted[b] # new
        /\ \A k \in Conn : k \notin reuseable_ => k # new
        /\ None # new
    BY <1>0, <1>b, <1>c, TCPClientAssumption DEF Fresh, Failed, TypeOK
  <2>3. /\ connections_[a] = None /\ a \in Address
        /\ \A d \in Client : Dialling(d) /\ AddressOf(d) = a => d = c
    BY <1>0, <1>a, <2>1 DEF OneDial
  <2>4. Fresh'
    <3>1. \A k \in Conn \cup {None} : k # None /\ k <= made => k <= new
      BY <1>b, <1>c
    <3>2. 1..made \subseteq 1..new /\ new \in 1..new /\ new <= new
      BY <1>c
    <3> HIDE DEF new
    <3> QED BY <1>0, <1>a, <2>1, <3>1, <3>2 DEF Fresh, TypeOK
  <2>5. Failed'
    BY <1>0, <1>b, <1>c, <2>1, <2>2 DEF Failed, TypeOK
  <2> HIDE DEF new, a
  <2>a. a = AddressOf(c)
    BY DEF a
  <2>6. Waited'
    BY <1>0, <1>a, <1>d, <2>a, <2>1, <2>2, <2>3 DEF TypeOK, Waited
  <2>7. OneDial'
    BY <1>0, <1>a, <1>d, <2>a, <2>1, <2>2, <2>3 DEF TypeOK, OneDial
  <2>8. OpenHere'
    BY <1>0, <1>a, <1>d, <2>a, <2>1, <2>2, <2>3 DEF TypeOK, OpenHere
  <2>9. ClosedUnused'
    BY <1>0, <1>a, <1>d, <2>a, <2>1, <2>2, <2>3 DEF TypeOK, ClosedUnused
  <2>10. InTable'
    BY <1>0, <1>a, <1>d, <2>a, <2>1, <2>2, <2>3 DEF TypeOK, InTable
  <2>11. Accepted'
    BY <1>0, <1>a, <1>d, <2>a, <2>1, <2>2, <2>3 DEF TypeOK, Accepted
  <2>12. PeerInTable'
    <3>1. accepted[a] \notin open
      BY <1>0, <1>d, <2>a, <2>1, <2>3 DEF PeerInTable
    <3>2. ASSUME NEW d \in Client, PeerUses(d)', (peer_conn[d] \in open)'
          PROVE  accepted'[AddressOf(d)] = peer_conn'[d]
      <4>1. PeerUses(d) /\ peer_conn[d] \in open
        BY <3>2, <2>1, <2>2
      <4>2. accepted[AddressOf(d)] = peer_conn[d] /\ AddressOf(d) # a
        BY <1>0, <3>1, <4>1 DEF PeerInTable
      <4> QED BY <1>0, <1>a, <2>1, <4>2 DEF TypeOK
    <3>3. ASSUME NEW b \in Address, (accepted[b] \in open)'
          PROVE  \/ connections_'[b] = accepted'[b]
                 \/ \E d \in Client : /\ pc'[d] = "publish" /\ AddressOf(d) = b
                                      /\ conn_'[d] = accepted'[b]
      <4>1. CASE b = a
        BY <1>0, <2>a, <2>1, <4>1 DEF TypeOK
      <4>2. CASE b # a
        <5>1. accepted'[b] = accepted[b] /\ accepted[b] \in open
          BY <1>0, <2>1, <2>2, <3>3, <4>2 DEF TypeOK
        <5>2. CASE connections_[b] = accepted[b]
          BY <2>1, <5>1, <5>2
        <5>3. ASSUME NEW d \in Client, pc[d] = "publish", AddressOf(d) = b,
           conn_[d] = accepted[b]
              PROVE  pc'[d] = "publish" /\ conn_'[d] = accepted'[b]
          BY <1>0, <2>1, <5>1, <5>3 DEF TypeOK
        <5> QED BY <1>0, <5>1, <5>2, <5>3 DEF PeerInTable
      <4> QED BY <4>1, <4>2
    <3> QED BY <3>2, <3>3 DEF PeerInTable
  <2> QED BY <2>4, <2>5, <2>6, <2>7, <2>8, <2>9, <2>10, <2>11, <2>12
<1>4. ASSUME NEW c \in Client, DialFails(c) PROVE SInv'
  BY <1>0, <1>a, <1>4 DEF DialFails, TypeOK, Fresh, Failed, Waited, OneDial,
     OpenHere, ClosedUnused, InTable, Accepted, PeerInTable
<1>5. ASSUME NEW c \in Client, Publish(c) PROVE SInv'
  <2> DEFINE a == AddressOf(c)
  <2>1. /\ connections_[a] = None /\ a \in Address
        /\ \A d \in Client : Dialling(d) /\ AddressOf(d) = a => d = c
    BY <1>0, <1>a, <1>5 DEF OneDial, Publish
  <2>2. /\ connections_' = [connections_ EXCEPT ![a] = conn_[c]]
        /\ to_connect_set_' = to_connect_set_ \ {a}
        /\ pc' = [pc EXCEPT ![c] = "first"] /\ pc[c] = "publish"
        /\ UNCHANGED <<conn_, here, made, there>>
    BY <2>1, <1>5 DEF Publish
  <2> HIDE DEF a
  <2>a. a = AddressOf(c)
    BY DEF a
  <2>3. Fresh'
    BY <1>0, <1>a, <1>d, <2>a, <2>1, <2>2 DEF TypeOK, Fresh
  <2>4. Failed'
    BY <1>0, <1>a, <1>d, <2>a, <2>1, <2>2 DEF TypeOK, Failed
  <2>5. Waited'
    BY <1>0, <1>a, <1>d, <2>a, <2>1, <2>2 DEF TypeOK, Waited
  <2>6. OneDial'
    BY <1>0, <1>a, <1>d, <2>a, <2>1, <2>2 DEF TypeOK, OneDial
  <2>7. OpenHere'
    BY <1>0, <1>a, <1>d, <2>a, <2>1, <2>2 DEF TypeOK, OpenHere
  <2>8. ClosedUnused'
    BY <1>0, <1>a, <1>d, <2>a, <2>1, <2>2 DEF TypeOK, ClosedUnused, OpenHere
  <2>9. InTable'
    BY <1>0, <1>a, <1>d, <2>a, <2>1, <2>2 DEF TypeOK, InTable
  <2>10. Accepted'
    BY <1>0, <1>a, <1>d, <2>a, <2>1, <2>2 DEF TypeOK, Accepted
  <2>11. PeerInTable'
    <3>1. ASSUME NEW b \in Address, accepted[b] \in open
          PROVE  \/ connections_'[b] = accepted[b]
                 \/ \E d \in Client : /\ pc'[d] = "publish" /\ AddressOf(d) = b
                                      /\ conn_[d] = accepted[b]
      <4>1. CASE connections_[b] = accepted[b]
        BY <1>0, <1>d, <2>1, <2>2, <3>1, <4>1 DEF TypeOK
      <4>2. ASSUME NEW d \in Client, pc[d] = "publish", AddressOf(d) = b, conn_[d] = accepted[b]
            PROVE  connections_'[b] = accepted[b] \/ pc'[d] = "publish"
        BY <1>0, <2>a, <2>1, <2>2, <4>2 DEF TypeOK
      <4> QED BY <1>0, <3>1, <4>1, <4>2 DEF PeerInTable
    <3> QED BY <1>0, <2>2, <3>1 DEF PeerInTable
  <2> QED BY <2>3, <2>4, <2>5, <2>6, <2>7, <2>8, <2>9, <2>10, <2>11
<1>6. ASSUME NEW c \in Client, Start(c) PROVE SInv'
  BY <1>0, <1>a, <1>6 DEF Start, TypeOK, Fresh, Failed, Waited, OneDial,
     OpenHere, ClosedUnused, InTable, Accepted, PeerInTable
<1>7. ASSUME NEW c \in Client, CloseCall(c) PROVE SInv'
  BY <1>0, <1>a, <1>7 DEF CloseCall, TypeOK, Fresh, Failed, Waited, OneDial,
     OpenHere, ClosedUnused, InTable, Accepted, PeerInTable
<1>8. ASSUME NEW c \in Client, StopLock(c) PROVE SInv'
  BY <1>0, <1>a, <1>8 DEF StopLock, TypeOK, Fresh, Failed, Waited, OneDial,
     OpenHere, ClosedUnused, InTable, Accepted, PeerInTable
<1>9. ASSUME NEW c \in Client, StopRecv(c) PROVE SInv'
  BY <1>0, <1>a, <1>9 DEF StopRecv, TypeOK, Fresh, Failed, Waited, OneDial,
     OpenHere, ClosedUnused, InTable, Accepted, PeerInTable
<1>10. ASSUME NEW c \in Client, Release(c) PROVE SInv'
  <2>1. /\ pc' = [pc EXCEPT ![c] = "closed"] /\ pc[c] = "release"
        /\ UNCHANGED <<conn_, made, reuseable_, there>>
    BY <1>10 DEF Release
  <2>2. CASE UNCHANGED <<open, connections_, to_connect_set_>>
    BY <1>0, <2>1, <2>2 DEF TypeOK, Fresh, Failed, Waited, OneDial, OpenHere, ClosedUnused,
       InTable, Accepted, PeerInTable
  <2>3. CASE /\ task_count_ = 1
             /\ open' = open \ { connections_[a] : a \in Address }
             /\ connections_' = [a \in Address |-> None]
             /\ to_connect_set_' = {}
    <3>1. \A d \in Client : pc'[d] \in {"new", "closed"}
      <4>1. c \in Begun
        BY <2>1 DEF Begun
      <4>2. \A d \in Client : d # c => pc[d] \in {"new", "closed"}
        BY <2>3, <4>1, LastTask DEF IInv, TInv
      <4> QED BY <1>0, <2>1, <4>2 DEF TypeOK
    <3>2. Fresh' /\ Failed' /\ Waited'
      BY <1>0, <2>1, <2>3 DEF Fresh, Failed, Waited
    <3>3. OneDial' /\ ClosedUnused' /\ InTable'
      BY <3>1 DEF OneDial, ClosedUnused, InTable
    <3>4. OpenHere' /\ Accepted'
      BY <1>d, <2>1, <2>3, <3>1 DEF OpenHere, Accepted
    <3>5. \A a \in Address : accepted[a] \notin open'
      <4> SUFFICES ASSUME NEW a \in Address, accepted[a] \in open' PROVE FALSE
        OBVIOUS
      <4>1. accepted[a] \in open /\ accepted[a] # connections_[a]
        BY <2>3
      <4>2. PICK d \in Client : pc[d] = "publish"
        BY <1>0, <4>1 DEF PeerInTable
      <4> QED BY <1>0, <2>1, <3>1, <4>2 DEF TypeOK
    <3>6. PeerInTable'
      BY <1>0, <2>1, <2>3, <3>5 DEF PeerInTable
    <3> QED BY <3>2, <3>3, <3>4, <3>6
  <2> QED BY <1>10, <2>2, <2>3 DEF Release
<1>11. ASSUME Receive PROVE SInv'
  BY <1>0, <1>a, <1>11 DEF Receive, TypeOK, Fresh, Failed, Waited, OneDial,
     OpenHere, ClosedUnused, InTable, Accepted, PeerInTable
<1>12. ASSUME NEW a \in Address, PeerReceive(a) PROVE SInv'
  BY <1>0, <1>a, <1>12 DEF PeerReceive, TypeOK, Fresh, Failed, Waited, OneDial,
     OpenHere, ClosedUnused, InTable, Accepted, PeerInTable
<1>13. ASSUME NEW k \in Conn, HandleError(k) PROVE SInv'
  BY <1>0, <1>a, <1>13 DEF HandleError, TypeOK, Fresh, Failed, Waited, OneDial,
     OpenHere, ClosedUnused, InTable, Accepted, PeerInTable
<1>14. ASSUME NEW a \in Address, NEW k \in Conn, PeerHandleError(a, k) PROVE SInv'
  BY <1>0, <1>a, <1>14 DEF PeerHandleError, TypeOK, Fresh, Failed, Waited,
     OneDial, OpenHere, ClosedUnused, InTable, Accepted, PeerInTable
<1>15. ASSUME NEW c \in Client, PeerStart(c) PROVE SInv'
  BY <1>0, <1>a, <1>15 DEF PeerStart, TypeOK, Fresh, Failed, Waited, OneDial,
     OpenHere, ClosedUnused, InTable, Accepted, PeerInTable
<1>16. ASSUME NEW c \in Client, PeerFind(c) PROVE SInv'
  BY <1>0, <1>a, <1>16 DEF PeerFind, TypeOK, Fresh, Failed, Waited, OneDial,
     OpenHere, ClosedUnused, InTable, Accepted, PeerInTable
<1>17. ASSUME NEW c \in Client, PeerPut(c) PROVE SInv'
  BY <1>0, <1>a, <1>17 DEF PeerPut, TypeOK, Fresh, Failed, Waited, OneDial,
     OpenHere, ClosedUnused, InTable, Accepted, PeerInTable
<1>18. ASSUME NEW c \in Client, PeerStop(c) PROVE SInv'
  BY <1>0, <1>a, <1>18 DEF PeerStop, TypeOK, Fresh, Failed, Waited, OneDial,
     OpenHere, ClosedUnused, InTable, Accepted, PeerInTable
<1>19. ASSUME NEW c \in Client, PeerStopLock(c) PROVE SInv'
  BY <1>0, <1>a, <1>19 DEF PeerStopLock, TypeOK, Fresh, Failed, Waited, OneDial,
     OpenHere, ClosedUnused, InTable, Accepted, PeerInTable
<1>20. ASSUME NEW c \in Client, PeerStopRecv(c) PROVE SInv'
  <2> DEFINE a == AddressOf(c)
  <2>1. /\ peer' = [peer EXCEPT ![c] = "stopped"]
        /\ UNCHANGED <<pc, conn_, table, open, reuseable_, made, peer_conn>>
    BY <1>20 DEF PeerStopRecv
  <2>2. CASE UNCHANGED <<peer_open, accepted>>
    BY <1>0, <2>1, <2>2 DEF TypeOK, Fresh, Failed, Waited, OneDial, OpenHere, ClosedUnused,
       InTable, Accepted, PeerInTable
  <2>3. CASE /\ \A d \in Client \ {c} : AddressOf(d) = a => ~PeerRuns(d)
             /\ peer_open' = peer_open \ {accepted[a]}
             /\ accepted' = [accepted EXCEPT ![a] = None]
    <3>1. a \in Address
      BY <1>a
    <3>2. Fresh'
      BY <1>0, <2>1, <2>3, <3>1 DEF TypeOK, Fresh
    <3>a. Failed' /\ Waited' /\ OneDial'
      BY <1>0, <2>1, <2>3 DEF TypeOK, Failed, Waited, OneDial
    <3>b. OpenHere' /\ ClosedUnused' /\ InTable'
      BY <1>0, <2>1, <2>3 DEF TypeOK, OpenHere, ClosedUnused, InTable
    <3>3. Accepted'
      BY <1>0, <1>a, <2>1, <2>3, <3>1 DEF TypeOK, Accepted
    <3>4. \A d \in Client : PeerUses(d)' => PeerUses(d) /\ AddressOf(d) # a
      BY <1>0, <2>1, <2>3 DEF TypeOK
    <3>5. PeerInTable'
      BY <1>0, <1>a, <1>d, <2>1, <2>3, <3>1, <3>4 DEF TypeOK, PeerInTable
    <3> QED BY <3>2, <3>a, <3>b, <3>3, <3>5
  <2> QED BY <1>20, <2>2, <2>3 DEF PeerStopRecv
<1>21. ASSUME NEW c \in Client, Register(c) PROVE SInv'
  BY <1>0, <1>a, <1>21 DEF Register, TypeOK, Fresh, Failed, Waited, OneDial,
     OpenHere, ClosedUnused, InTable, Accepted, PeerInTable
<1>22. CASE UNCHANGED vars
  BY <1>0, <1>22 DEF vars, Fresh, Failed, Waited, OneDial, OpenHere, ClosedUnused, InTable,
     Accepted, PeerInTable
<1> QED
  BY <1>1, <1>2, <1>3, <1>4, <1>5, <1>6, <1>7, <1>8, <1>9, <1>10, <1>11, <1>12, <1>13, <1>14,
     <1>15, <1>16, <1>17, <1>18, <1>19, <1>20, <1>21, <1>22 DEF Next, Thread, PeerThread, Epoll,
        PeerEpoll
-----------------------------------------------------------------------------
(* Before any call the invariant holds.                                    *)
LEMMA Initial ==
  Init => IInv
<1> SUFFICES ASSUME Init PROVE IInv
  OBVIOUS
<1>1. Begun = {} /\ Undialled = Client
  BY DEF Init, Begun, Undialled
<1>2. Counted /\ Bounded
  BY <1>1, Sizes, FS_EmptySet DEF Counted, Bounded, Init
<1>3. TypeOK
  BY Sizes DEF Init, TypeOK
<1>4. None \notin Conn
  BY TCPClientAssumption, Sizes DEF Conn
<1>5. SInv
  BY <1>4 DEF Init, SInv, Fresh, Failed, Waited, OneDial, OpenHere, ClosedUnused, InTable,
     Accepted, PeerInTable, Dialling, Uses, PeerUses
<1>6. Known
  BY DEF Init, Known, Uses
<1> QED BY <1>2, <1>3, <1>5, <1>6 DEF IInv, TInv

(* The inductive invariant of the shared connections.                      *)
THEOREM SpecInv == Spec => []IInv
<1>1. IInv /\ [Next]_vars => IInv'
  BY TypeInductive, KnownInductive, SafetyInductive DEF IInv
<1> QED BY <1>1, Initial, PTL DEF Spec

(* Type correctness; in it, no more connections are made than there are    *)
(* clients, and task_count_ never gets below zero.                         *)
THEOREM TypeCorrect == Spec => []TypeOK
<1>1. IInv => TypeOK
  BY DEF IInv, TInv
<1> QED BY <1>1, SpecInv, PTL

(* However many tasks call connect() at a time, one of them dials an       *)
(* address, and only while there is no connection to share.                *)
THEOREM OneDialAlways == Spec => []OneDial
<1>1. IInv => OneDial
  BY DEF IInv, SInv
<1> QED BY <1>1, SpecInv, PTL

(* The last close() never closes a connection another task uses.           *)
THEOREM ClosedUnusedAlways == Spec => []ClosedUnused
<1>1. IInv => ClosedUnused
  BY DEF IInv, SInv
<1> QED BY <1>1, SpecInv, PTL

(* The two ends of a task are on the same connection unless one of them    *)
(* had closed the connection the other took.                               *)
THEOREM SameLinkAlways == Spec => []SameLink
<1>1. IInv => SameLink
  <2> SUFFICES ASSUME IInv, NEW c \in Client, Uses(c), PeerUses(c),
                      conn_[c] \in peer_open, peer_conn[c] \in open
               PROVE  conn_[c] = peer_conn[c]
    BY DEF SameLink
  <2>1. connections_[AddressOf(c)] = conn_[c]
    BY DEF IInv, SInv, InTable
  <2>2. accepted[AddressOf(c)] = conn_[c]
    BY <2>1, Pairs DEF IInv, SInv, Accepted
  <2>3. accepted[AddressOf(c)] = peer_conn[c]
    BY DEF IInv, SInv, PeerInTable
  <2> QED BY <2>2, <2>3
<1> QED BY <1>1, SpecInv, PTL
=============================================================================
