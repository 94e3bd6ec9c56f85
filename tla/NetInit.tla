------------------------------ MODULE NetInit ------------------------------
(***************************************************************************)
(* BasicIO::init (net_io.cpp) on every node of a Topology: one task comes  *)
(* up across the network.  A node starts its server, then runs one thread  *)
(* per peer: it dials the nodes of serverInfos (TCPClient::connect) and    *)
(* waits, in a loop that has no end of its own, for the nodes of           *)
(* clientInfos to have dialled it (put_connection).  init() returns when   *)
(* all these threads have been joined.                                     *)
(*                                                                         *)
(* A link is made in one step: connect() returns after the acceptor        *)
(* acknowledged and was sent the dialler's id.  connect() gives up after   *)
(* CONNECT_PARAMS.RETRIES attempts; how long that takes is not modelled,   *)
(* so it may give up whenever the node it dials is not serving.            *)
(***************************************************************************)
EXTENDS Topology

CONSTANT MayFail      \* whether server starts and dialling may fail

ASSUME MayFailAssumption == MayFail \in BOOLEAN

VARIABLES
  phase,              \* per node: "off", "init", "up" or "failed"
  connections_,       \* the links made: <<dialler, acceptor>>
  connection_map,     \* per node: the peers whose thread got a connection
  init_client_failed  \* per node: the peers its connect() gave up on

net == <<phase, connections_, connection_map, init_client_failed>>
netvars == <<vars, net>>

NetInitial ==
  /\ Init
  /\ phase = [n \in Node |-> "off"]
  /\ connections_ = {}
  /\ connection_map = [n \in Node |-> {}]
  /\ init_client_failed = [n \in Node |-> {}]
-----------------------------------------------------------------------------
\* the kernel completes connections to a node from listen() on
Serving(n) == phase[n] \in {"init", "up"} /\ Listens(n)

\* Bug: the clients are waited for before the server listens
ServerStartLate(n) ==
  /\ channel[n] = "made" /\ phase[n] = "off"
  /\ \A m \in clientInfos[n] : <<m, n>> \in connections_
  /\ phase' = [phase EXCEPT ![n] = "init"]
  /\ UNCHANGED <<vars, connections_, connection_map, init_client_failed>>

ServerStart(n) ==
  /\ channel[n] = "made" /\ phase[n] = "off"
  /\ \/ phase' = [phase EXCEPT ![n] = "init"]
     \/ /\ MayFail                            \* bind or listen failed
        /\ phase' = [phase EXCEPT ![n] = "failed"]
  /\ UNCHANGED <<vars, connections_, connection_map, init_client_failed>>

\* the threads of init() that have not ended
Waiting(n, m) ==
  /\ phase[n] = "init"
  /\ m \notin connection_map[n] \cup init_client_failed[n]

\* handle_accept keeps a dialler only if the server expects it; the dialler
\* does not notice
Connect(n, m) ==
  /\ Waiting(n, m) /\ m \in serverInfos[n]
  /\ Serving(m)
  /\ connections_' = IF n \in clientInfos[m]
                     THEN connections_ \cup {<<n, m>>} ELSE connections_
  /\ connection_map' = [connection_map EXCEPT ![n] = @ \cup {m}]
  /\ UNCHANGED <<vars, phase, init_client_failed>>

ConnectGivesUp(n, m) ==
  /\ MayFail
  /\ Waiting(n, m) /\ m \in serverInfos[n]
  /\ ~Serving(m)
  /\ init_client_failed' = [init_client_failed EXCEPT ![n] = @ \cup {m}]
  /\ UNCHANGED <<vars, phase, connections_, connection_map>>

PutConnection(n, m) ==
  /\ Waiting(n, m) /\ m \in clientInfos[n]
  /\ <<m, n>> \in connections_
  /\ connection_map' = [connection_map EXCEPT ![n] = @ \cup {m}]
  /\ UNCHANGED <<vars, phase, connections_, init_client_failed>>

\* Bug: the threads that dial are joined, the ones that wait are not
InitReturnEarly(n) ==
  /\ phase[n] = "init"
  /\ serverInfos[n] \subseteq connection_map[n] \cup init_client_failed[n]
  /\ phase' = [phase EXCEPT ![n] = IF init_client_failed[n] = {}
                                   THEN "up" ELSE "failed"]
  /\ UNCHANGED <<vars, connections_, connection_map, init_client_failed>>

\* all threads joined
InitReturn(n) ==
  /\ phase[n] = "init"
  /\ \A m \in serverInfos[n] \cup clientInfos[n] : ~Waiting(n, m)
  /\ phase' = [phase EXCEPT ![n] = IF init_client_failed[n] = {}
                                   THEN "up" ELSE "failed"]
  /\ UNCHANGED <<vars, connections_, connection_map, init_client_failed>>

Create(n) == CreateInternalChannel(n) /\ UNCHANGED net

\* the thread that calls CreateInternalChannel, and one thread of init()
Caller(n) == Create(n) \/ ServerStart(n) \/ InitReturn(n)
Conn(n, m) == Connect(n, m) \/ PutConnection(n, m)

NetNext == \E n \in Node :
  \/ Caller(n)
  \/ \E m \in Node : Conn(n, m) \/ ConnectGivesUp(n, m)

NetSpec == NetInitial /\ [][NetNext]_netvars

(* Every party runs its program, and every thread of init() runs.          *)
NetFairness == \A n \in Node :
  /\ WF_netvars(Caller(n))
  /\ \A m \in Node \ {n} : WF_netvars(Conn(n, m))

FairNetSpec == NetSpec /\ NetFairness
-----------------------------------------------------------------------------
(* A node whose init() succeeded was linked to every member its roles      *)
(* require, by one connection, made by one of the two, whatever the        *)
(* configuration and whatever failed elsewhere.                            *)
UpIsLinked == \A n \in Node : phase[n] = "up" =>
  \A m \in Node :
    Member(m) /\ m # n /\ (n \in compute_nodes_ \/ m \in compute_nodes_) =>
      (<<n, m>> \in connections_) # (<<m, n>> \in connections_)

\* configurations that can come up: every node is described and has a role,
\* and of two nodes that are to be linked one has a port
Deployable ==
  /\ \A n \in Node : Member(n)
  /\ \A n, m \in Node :
       n # m /\ n \in compute_nodes_ => Listens(n) \/ Listens(m)

Failure == \E n \in Node : phase[n] = "failed" \/ init_client_failed[n] # {}

(* Nobody waits for somebody who waits in turn: every party creates its    *)
(* channel, and every init() returns success unless something failed.      *)
ComesUp == <>(Deployable => (\A n \in Node : phase[n] = "up") \/ Failure)
=============================================================================
