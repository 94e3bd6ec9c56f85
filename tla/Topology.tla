------------------------------ MODULE Topology ------------------------------
(***************************************************************************)
(* Which node dials which.  Every node reads the same configuration        *)
(* (ChannelConfig, config.cpp) and from it, alone, computes the nodes it   *)
(* will connect to (serverInfos) and the nodes it will wait for            *)
(* (clientInfos): CreateInternalChannel, channel.cpp.  Nothing is          *)
(* negotiated, so the two ends of a link must come to opposite answers.    *)
(*                                                                         *)
(* A node id is a string compared with "<"; here it is an integer.  The    *)
(* lists of the JSON document are sets: an id is listed once.              *)
(***************************************************************************)
EXTENDS Integers

CONSTANTS Node,       \* node ids
          Port        \* values of PORT: <= 0 means the node does not listen

ASSUME NodeAssumption == Node \subseteq Int
ASSUME PortAssumption == Port \subseteq Int

VARIABLES
  node_info_config_,  \* the ids NODE_INFO describes
  PORT,               \* per node: its PORT field
  data_nodes_, compute_nodes_, result_nodes_,   \* the three role lists
  channel,            \* per node: "none", "made", or "throw"
  clientInfos, serverInfos

config == <<node_info_config_, PORT, data_nodes_, compute_nodes_, result_nodes_>>
vars == <<config, channel, clientInfos, serverInfos>>

Init ==
  /\ node_info_config_ \in SUBSET Node
  /\ PORT \in [Node -> Port]
  /\ data_nodes_ \in SUBSET Node
  /\ compute_nodes_ \in SUBSET Node
  /\ result_nodes_ \in SUBSET Node
  /\ channel = [n \in Node |-> "none"]
  /\ clientInfos = [n \in Node |-> {}]
  /\ serverInfos = [n \in Node |-> {}]
-----------------------------------------------------------------------------
(* What parse_* and process_node_type leave: an id listed in several roles *)
(* keeps the first of computation, data, result.  The *_config_ lists hold *)
(* only the nodes that NODE_INFO describes.                                *)

pure_data_nodes_ == data_nodes_ \ compute_nodes_
pure_result_nodes_ == result_nodes_ \ (compute_nodes_ \cup pure_data_nodes_)

compute_config_ == compute_nodes_ \cap node_info_config_

\* Bug: node_info_config_[id] is taken without the find, so an id NODE_INFO
\* does not describe comes with an empty NodeInfo
data_config_Unfound == data_nodes_ \ compute_config_

data_config_ == (data_nodes_ \cap node_info_config_) \ compute_config_

\* Bug: a computation node that is also a result node stays in both lists
result_config_Overlap == (result_nodes_ \cap node_info_config_) \ data_config_

result_config_ ==
  (result_nodes_ \cap node_info_config_) \ (compute_config_ \cup data_config_)

GetPrimaryNodeType(n) ==
  CASE n \in pure_data_nodes_ -> "DATA"
    [] n \in compute_nodes_ -> "COMPUTE"
    [] n \in pure_result_nodes_ -> "RESULT"
    [] OTHER -> "INVALID"

\* GetNode(n) finds a node instead of throwing
GetNodeFinds(n) == n \in data_config_ \cup compute_config_ \cup result_config_

Peers(n) ==
  CASE GetPrimaryNodeType(n) = "DATA" -> compute_config_
    [] GetPrimaryNodeType(n) = "COMPUTE" ->
         data_config_ \cup (compute_config_ \ {n}) \cup result_config_
    [] GetPrimaryNodeType(n) = "RESULT" -> compute_config_
    [] OTHER -> {}

\* Bug: only the own port and the order of the ids are looked at
DialsUnchecked(n, m) == PORT[n] <= 0 \/ n < m

\* whether n puts its peer m into serverInfos
Dials(n, m) == PORT[n] <= 0 \/ (PORT[m] > 0 /\ n < m)

\* neither GetNode nor CreateInternalChannel throws
Usable(n) == GetNodeFinds(n) /\ GetPrimaryNodeType(n) # "INVALID"

CreateInternalChannel(n) ==
  /\ channel[n] = "none"
  /\ \/ /\ Usable(n)
        /\ serverInfos' = [serverInfos EXCEPT ![n] = { m \in Peers(n) : Dials(n, m) }]
        /\ clientInfos' = [clientInfos EXCEPT ![n] = { m \in Peers(n) : ~Dials(n, m) }]
        /\ channel' = [channel EXCEPT ![n] = "made"]
     \/ /\ ~Usable(n)
        /\ channel' = [channel EXCEPT ![n] = "throw"]
        /\ UNCHANGED <<clientInfos, serverInfos>>
  /\ UNCHANGED config

Next == \E n \in Node : CreateInternalChannel(n)

Spec == Init /\ [][Next]_vars
-----------------------------------------------------------------------------
(* Besides the types: every NodeInfo a channel holds is one that NODE_INFO *)
(* describes, so init() is never given an empty address to dial.           *)
TypeOK ==
  /\ node_info_config_ \subseteq Node
  /\ PORT \in [Node -> Port]
  /\ data_nodes_ \subseteq Node /\ compute_nodes_ \subseteq Node
  /\ result_nodes_ \subseteq Node
  /\ channel \in [Node -> {"none", "made", "throw"}]
  /\ clientInfos \in [Node -> SUBSET node_info_config_]
  /\ serverInfos \in [Node -> SUBSET node_info_config_]

\* a described node with a role
Member(n) ==
  /\ n \in node_info_config_
  /\ n \in data_nodes_ \cup compute_nodes_ \cup result_nodes_

(* The three subnetworks of the README: a channel links its node to every  *)
(* other member when it is a computation node, and to the computation      *)
(* nodes otherwise, whatever roles the nodes combine.                      *)
RolesLinked == \A n \in Node : channel[n] = "made" =>
  clientInfos[n] \cup serverInfos[n] =
    { m \in Node : /\ Member(m) /\ m # n
                   /\ n \in compute_nodes_ \/ m \in compute_nodes_ }

Listens(n) == PORT[n] > 0

(* The two ends of a link agree on its direction, each from its own        *)
(* computation: one dials, the other waits for it, and the one that is     *)
(* dialled listens.  Two nodes without a port cannot be linked at all.     *)
LinksAgree == \A n, m \in Node :
  channel[n] = "made" /\ channel[m] = "made" /\ (Listens(n) \/ Listens(m)) =>
    /\ m \in serverInfos[n] <=> n \in clientInfos[m]
    /\ m \in serverInfos[n] => Listens(m)
=============================================================================
