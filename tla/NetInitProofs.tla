--------------------------- MODULE NetInitProofs ---------------------------
(***************************************************************************)
(* Proofs about Topology and NetInit for every network and every           *)
(* configuration.                                                          *)
(*                                                                         *)
(* Topology: Computed, that a made channel holds what its node computes    *)
(* from the configuration, is the inductive invariant; what the nodes'     *)
(* computations have to do with each other is then a matter of the         *)
(* configuration alone (PeersAre, DialsOpposite).                          *)
(*                                                                         *)
(* NetInit: a node that dials cannot see whether the other end kept its    *)
(* connection (handle_accept may drop it), so UpIsLinked rests on          *)
(* Topology: the end that is dialled computed that it is to wait for the   *)
(* dialler.  Linked says so of every single connection and thread of       *)
(* init().                                                                 *)
(***************************************************************************)
EXTENDS NetInit, TLAPS

Computed == \A n \in Node : channel[n] = "made" =>
  /\ Usable(n)
  /\ serverInfos[n] = { m \in Peers(n) : Dials(n, m) }
  /\ clientInfos[n] = { m \in Peers(n) : ~Dials(n, m) }

IInv == TypeOK /\ Computed
-----------------------------------------------------------------------------
(* A usable node's peers are what the README's subnetworks say, whichever  *)
(* of the three branches of CreateInternalChannel its type selects.        *)
LEMMA PeersAre ==
  ASSUME TypeOK, NEW n \in Node, Usable(n)
  PROVE  Peers(n) = { m \in Node : /\ Member(m) /\ m # n
                                   /\ n \in compute_nodes_ \/ m \in compute_nodes_ }
<1> DEFINE L == { m \in Node : /\ Member(m) /\ m # n
                               /\ n \in compute_nodes_ \/ m \in compute_nodes_ }
<1> USE DEF TypeOK, Usable, GetNodeFinds, Member, compute_config_, data_config_,
            result_config_, pure_data_nodes_, pure_result_nodes_
<1>1. CASE n \in pure_data_nodes_
  <2>1. GetPrimaryNodeType(n) = "DATA"
    BY <1>1 DEF GetPrimaryNodeType
  <2>2. Peers(n) = compute_config_
    BY <2>1 DEF Peers
  <2> QED BY <2>2, <1>1
<1>2. CASE n \in compute_nodes_
  <2>1. GetPrimaryNodeType(n) = "COMPUTE"
    BY <1>2 DEF GetPrimaryNodeType
  <2>2. Peers(n) = data_config_ \cup (compute_config_ \ {n}) \cup result_config_
    BY <2>1 DEF Peers
  <2> QED BY <2>2, <1>2
<1>3. CASE n \in pure_result_nodes_
  <2>1. GetPrimaryNodeType(n) = "RESULT"
    BY <1>3 DEF GetPrimaryNodeType
  <2>2. Peers(n) = compute_config_
    BY <2>1 DEF Peers
  <2> QED BY <2>2, <1>3
<1> QED BY <1>1, <1>2, <1>3

(* A usable node is a member.                                              *)
LEMMA UsableIsMember ==
  ASSUME NEW n \in Node, Usable(n)
  PROVE  Member(n)
  BY DEF Usable, GetNodeFinds, Member, compute_config_, data_config_, result_config_

(* Of two different nodes of which one listens, exactly one dials, and it  *)
(* dials a node that listens.                                              *)
LEMMA DialsOpposite ==
  ASSUME TypeOK, NEW n \in Node, NEW m \in Node, n # m, Listens(n) \/ Listens(m)
  PROVE  /\ Dials(n, m) <=> ~Dials(m, n)
         /\ Dials(n, m) => Listens(m)
<1>1. n \in Int /\ m \in Int
  BY NodeAssumption
<1>2. PORT[n] \in Int /\ PORT[m] \in Int
  BY PortAssumption DEF TypeOK
<1> QED BY <1>1, <1>2 DEF Dials, Listens
-----------------------------------------------------------------------------
(* The configuration is fixed, so what a node computed stays computed.     *)
LEMMA Inductive ==
  IInv /\ [Next]_vars => IInv'
<1> SUFFICES ASSUME IInv, [Next]_vars PROVE IInv'
  OBVIOUS
<1>1. CASE UNCHANGED vars
  <2>1. \A n \in Node : /\ Usable(n)' <=> Usable(n)
                        /\ Peers(n)' = Peers(n)
                        /\ \A m \in Node : Dials(n, m)' <=> Dials(n, m)
    BY <1>1 DEF vars, config, Usable, GetNodeFinds, Peers, Dials, GetPrimaryNodeType,
                compute_config_, data_config_, result_config_, pure_data_nodes_,
                pure_result_nodes_
  <2>2. \A n \in Node : Usable(n) => Peers(n) \subseteq node_info_config_
    BY PeersAre DEF IInv, Member
  <2>3. Computed'
    BY <1>1, <2>1, <2>2 DEF IInv, TypeOK, Computed, vars
  <2> QED BY <1>1, <2>3 DEF IInv, TypeOK, vars, config
<1>2. ASSUME NEW k \in Node, CreateInternalChannel(k) PROVE IInv'
  <2>1. \A n \in Node : /\ Usable(n)' <=> Usable(n)
                        /\ Peers(n)' = Peers(n)
                        /\ \A m \in Node : Dials(n, m)' <=> Dials(n, m)
    BY <1>2 DEF CreateInternalChannel, config, Usable, GetNodeFinds, Peers, Dials,
                GetPrimaryNodeType, compute_config_, data_config_, result_config_,
                pure_data_nodes_, pure_result_nodes_
  <2>2. \A n \in Node : Usable(n) => Peers(n) \subseteq node_info_config_
    BY PeersAre DEF IInv, Member
  <2>3. TypeOK'
    <3>1. CASE Usable(k)
      BY <1>2, <2>2, <3>1 DEF CreateInternalChannel, config, IInv, TypeOK
    <3>2. CASE ~Usable(k)
      BY <1>2, <3>2 DEF CreateInternalChannel, config, IInv, TypeOK
    <3> QED BY <3>1, <3>2
  <2>4. Computed'
    <3> SUFFICES ASSUME NEW n \in Node, channel'[n] = "made"
                 PROVE  /\ Usable(n)
                        /\ serverInfos'[n] = { m \in Peers(n) : Dials(n, m) }
                        /\ clientInfos'[n] = { m \in Peers(n) : ~Dials(n, m) }
      BY <2>1, <2>2 DEF Computed, IInv, TypeOK
    <3>1. CASE n = k
      BY <1>2, <3>1 DEF CreateInternalChannel, IInv, TypeOK
    <3>2. CASE n # k
      <4>1. channel'[n] = channel[n] /\ serverInfos'[n] = serverInfos[n]
            /\ clientInfos'[n] = clientInfos[n]
        BY <1>2, <3>2 DEF CreateInternalChannel, IInv, TypeOK
      <4> QED BY <4>1 DEF IInv, Computed
    <3> QED BY <3>1, <3>2
  <2> QED BY <2>3, <2>4 DEF IInv
<1> QED BY <1>1, <1>2 DEF Next

(* What every reachable state satisfies.                                   *)
THEOREM SpecInv == Spec => []IInv
<1>1. Init => IInv
  BY DEF Init, IInv, TypeOK, Computed
<1> QED BY <1>1, Inductive, PTL DEF Spec

(* Type correctness of the configuration and of the computed lists.        *)
THEOREM TypeCorrect == Spec => []TypeOK
<1>1. IInv => TypeOK
  BY DEF IInv
<1> QED BY <1>1, SpecInv, PTL

(* What the channels hold being computed from the configuration, they are  *)
(* the ones the roles call for.                                            *)
LEMMA RolesFollow == IInv => RolesLinked
<1> SUFFICES ASSUME IInv, NEW n \in Node, channel[n] = "made"
             PROVE  clientInfos[n] \cup serverInfos[n] =
                      { m \in Node : /\ Member(m) /\ m # n
                                     /\ n \in compute_nodes_ \/ m \in compute_nodes_ }
  BY DEF RolesLinked
<1>1. clientInfos[n] \cup serverInfos[n] = Peers(n)
  BY DEF IInv, Computed
<1>2. Usable(n)
  BY DEF IInv, Computed
<1> QED BY <1>1, <1>2, PeersAre DEF IInv

(* ... and the two ends of a link are opposite.                            *)
LEMMA LinksFollow == IInv => LinksAgree
<1> SUFFICES ASSUME IInv, NEW n \in Node, NEW m \in Node,
                    channel[n] = "made", channel[m] = "made",
                    Listens(n) \/ Listens(m)
             PROVE  /\ m \in serverInfos[n] <=> n \in clientInfos[m]
                    /\ m \in serverInfos[n] => Listens(m)
  BY DEF LinksAgree
<1>1. Usable(n) /\ Usable(m) /\ TypeOK
  BY DEF IInv, Computed
<1>2. Member(n) /\ Member(m)
  BY <1>1, UsableIsMember
<1>3. m \in Peers(n) <=> n \in Peers(m)
  BY <1>1, <1>2, PeersAre
<1>4. m \in Peers(n) => n # m
  BY <1>1, PeersAre
<1>5. m \in serverInfos[n] <=> m \in Peers(n) /\ Dials(n, m)
  BY DEF IInv, Computed
<1>6. n \in clientInfos[m] <=> n \in Peers(m) /\ ~Dials(m, n)
  BY DEF IInv, Computed
<1> QED BY <1>1, <1>3, <1>4, <1>5, <1>6, DialsOpposite

(* Every channel CreateInternalChannel makes links its node to the members *)
(* of the subnetworks its roles put it in, and to no other node.           *)
THEOREM RolesLinkedAlways == Spec => []RolesLinked
BY RolesFollow, SpecInv, PTL

(* The two ends of a link, each from its own reading of the configuration, *)
(* agree on who dials, and whoever is dialled listens.                     *)
THEOREM LinksAgreeAlways == Spec => []LinksAgree
BY LinksFollow, SpecInv, PTL
-----------------------------------------------------------------------------
(* The network.                                                            *)

NetTypeOK ==
  /\ phase \in [Node -> {"off", "init", "up", "failed"}]
  /\ connection_map \in [Node -> SUBSET Node]
  /\ init_client_failed \in [Node -> SUBSET Node]

\* only a node that has its channel takes part
Begun == \A n \in Node :
  phase[n] # "off" \/ connection_map[n] # {} => channel[n] = "made"

\* a connection is one both ends count on
Matched == \A n, m \in Node : <<n, m>> \in connections_ =>
  /\ channel[n] = "made" /\ m \in serverInfos[n]
  /\ channel[m] = "made" /\ n \in clientInfos[m]

\* a thread of init() that got its connection has one
Linked == \A n, m \in Node : m \in connection_map[n] =>
  /\ m \in serverInfos[n] => <<n, m>> \in connections_
  /\ m \in clientInfos[n] => <<m, n>> \in connections_

\* an init() that succeeded has joined all its threads
Joined == \A n \in Node : phase[n] = "up" =>
  serverInfos[n] \cup clientInfos[n] \subseteq connection_map[n]

NetIInv == IInv /\ NetTypeOK /\ Begun /\ Matched /\ Linked /\ Joined
-----------------------------------------------------------------------------
(* A step of the network is a step of Topology or leaves it alone.         *)
LEMMA TopologyStep ==
  [NetNext]_netvars => [Next]_vars
BY DEF NetNext, netvars, Next, Caller, Conn, Create, ServerStart, InitReturn, Connect,
       PutConnection, ConnectGivesUp

(* Every step keeps connections matched and threads linked.                *)
LEMMA NetInductive ==
  NetIInv /\ [NetNext]_netvars => NetIInv'
<1> SUFFICES ASSUME NetIInv, [NetNext]_netvars PROVE NetIInv'
  OBVIOUS
<1>0. IInv' /\ IInv
  BY TopologyStep, Inductive DEF NetIInv
<1>t. TypeOK
  BY <1>0 DEF IInv
<1> USE DEF NetTypeOK, Begun, Matched, Linked, Joined
<1>1. CASE UNCHANGED netvars
  BY <1>0, <1>1 DEF netvars, net, vars, NetIInv
<1>2. ASSUME NEW n \in Node, Create(n) PROVE NetIInv'
  <2>1. UNCHANGED net /\ channel[n] = "none"
    BY <1>2 DEF Create, CreateInternalChannel
  <2>2. \A m \in Node : channel[m] = "made" =>
          /\ channel'[m] = "made"
          /\ serverInfos'[m] = serverInfos[m] /\ clientInfos'[m] = clientInfos[m]
    BY <1>2, <1>t DEF Create, CreateInternalChannel, TypeOK
  <2>3. phase[n] = "off" /\ connection_map[n] = {}
    BY <2>1 DEF NetIInv
  <2> QED BY <1>0, <2>1, <2>2, <2>3 DEF net, NetIInv
<1>3. ASSUME NEW n \in Node, ServerStart(n) PROVE NetIInv'
  BY <1>0, <1>3 DEF ServerStart, vars, NetIInv
<1>4. ASSUME NEW n \in Node, InitReturn(n) PROVE NetIInv'
  <2>1. /\ UNCHANGED <<connections_, connection_map, init_client_failed>>
        /\ UNCHANGED <<channel, serverInfos, clientInfos>>
        /\ phase[n] = "init" /\ phase' \in [Node -> {"off", "init", "up", "failed"}]
        /\ \A m \in Node : m # n => phase'[m] = phase[m]
    BY <1>4 DEF InitReturn, vars, NetIInv
  <2>2. phase'[n] = "up" => serverInfos[n] \cup clientInfos[n] \subseteq connection_map[n]
    <3>1. \A m \in serverInfos[n] \cup clientInfos[n] :
            m \in connection_map[n] \cup init_client_failed[n]
      BY <1>4, <2>1 DEF InitReturn, Waiting
    <3>2. phase'[n] = "up" => init_client_failed[n] = {}
      BY <1>4 DEF InitReturn, NetIInv
    <3> QED BY <3>1, <3>2
  <2> QED BY <1>0, <2>1, <2>2 DEF NetIInv
<1>5. ASSUME NEW n \in Node, NEW m \in Node, Connect(n, m) PROVE NetIInv'
  <2>1. /\ UNCHANGED <<phase, init_client_failed, channel, serverInfos, clientInfos>>
        /\ phase[n] = "init" /\ m \in serverInfos[n]
        /\ connection_map' = [connection_map EXCEPT ![n] = @ \cup {m}]
        /\ phase[m] # "off" /\ Listens(m)
    BY <1>5 DEF Connect, vars, Waiting, Serving
  <2>2. channel[n] = "made" /\ channel[m] = "made"
    BY <2>1 DEF NetIInv
  <2>3. n \in clientInfos[m]
    BY <1>0, <2>1, <2>2, LinksFollow DEF LinksAgree
  <2>4. connections_' = connections_ \cup {<<n, m>>}
    BY <1>5, <2>3 DEF Connect
  <2>5. m \notin clientInfos[n]
    BY <1>0, <2>1, <2>2 DEF IInv, Computed
  <2>6. Matched'
    BY <2>1, <2>2, <2>3, <2>4 DEF NetIInv
  <2>7. Linked'
    BY <2>1, <2>4, <2>5 DEF NetIInv
  <2>8. NetTypeOK' /\ Begun' /\ Joined'
    BY <2>1, <2>2 DEF NetIInv
  <2> QED BY <1>0, <2>6, <2>7, <2>8 DEF NetIInv
<1>6. ASSUME NEW n \in Node, NEW m \in Node, PutConnection(n, m) PROVE NetIInv'
  <2>1. /\ UNCHANGED <<phase, init_client_failed, channel, serverInfos, clientInfos,
                       connections_>>
        /\ phase[n] = "init" /\ m \in clientInfos[n] /\ <<m, n>> \in connections_
        /\ connection_map' = [connection_map EXCEPT ![n] = @ \cup {m}]
    BY <1>6 DEF PutConnection, vars, Waiting
  <2>2. channel[n] = "made"
    BY <2>1 DEF NetIInv
  <2>3. m \notin serverInfos[n]
    BY <1>0, <2>1, <2>2 DEF IInv, Computed
  <2>4. NetTypeOK' /\ Begun' /\ Matched' /\ Joined'
    BY <2>1, <2>2 DEF NetIInv
  <2>5. Linked'
    BY <2>1, <2>3 DEF NetIInv
  <2> QED BY <1>0, <2>4, <2>5 DEF NetIInv
<1>7. ASSUME NEW n \in Node, NEW m \in Node, ConnectGivesUp(n, m) PROVE NetIInv'
  BY <1>0, <1>7 DEF ConnectGivesUp, vars, NetIInv
<1> QED BY <1>1, <1>2, <1>3, <1>4, <1>5, <1>6, <1>7 DEF NetNext, Caller, Conn

(* What every reachable state of a network satisfies.                      *)
THEOREM NetSpecInv == NetSpec => []NetIInv
<1>1. NetInitial => NetIInv
  <2>1. Init => IInv
    BY DEF Init, IInv, TypeOK, Computed
  <2> QED BY <2>1 DEF NetInitial, NetIInv, NetTypeOK, Begun, Matched, Linked, Joined
<1> QED BY <1>1, NetInductive, PTL DEF NetSpec

(* In every network, a node whose BasicIO::init succeeded has exactly one  *)
(* connection with each member its roles require, whatever has failed at   *)
(* other nodes.                                                            *)
THEOREM UpIsLinkedAlways == NetSpec => []UpIsLinked
<1>1. NetIInv => UpIsLinked
  <2> SUFFICES ASSUME NetIInv, NEW n \in Node, phase[n] = "up", NEW m \in Node,
                      Member(m), m # n, n \in compute_nodes_ \/ m \in compute_nodes_
               PROVE  (<<n, m>> \in connections_) # (<<m, n>> \in connections_)
    BY DEF UpIsLinked
  <2>1. channel[n] = "made"
    BY DEF NetIInv, Begun
  <2>2. m \in clientInfos[n] \cup serverInfos[n]
    BY <2>1, RolesFollow DEF NetIInv, RolesLinked
  <2>3. m \in connection_map[n]
    BY <2>2 DEF NetIInv, Joined
  <2>4. ~(m \in clientInfos[n] /\ m \in serverInfos[n])
    BY <2>1 DEF NetIInv, IInv, Computed
  <2>5. CASE m \in serverInfos[n]
    BY <2>3, <2>4, <2>5 DEF NetIInv, Linked, Matched
  <2>6. CASE m \in clientInfos[n]
    BY <2>3, <2>4, <2>6 DEF NetIInv, Linked, Matched
  <2> QED BY <2>2, <2>5, <2>6
<1> QED BY <1>1, NetSpecInv, PTL
=============================================================================
