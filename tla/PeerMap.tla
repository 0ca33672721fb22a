------------------------------- MODULE PeerMap -------------------------------
(***************************************************************************)
(* The peers a node talks to: network/p2p/comm.rs and comm/peer_map.rs,    *)
(* with the tasks that share the map behind its lock: the network task,    *)
(* which propagates items and solicits blocks, one task per client         *)
(* connection (connect_and_propagate, client/connect.rs, client/mod.rs),   *)
(* and the gRPC service that serves inbound peers.                         *)
(*                                                                         *)
(* An entry has one handle per kind of item it sends: it is not            *)
(* subscribed, holds an item for a connection in progress, or feeds the    *)
(* channel of a client connection or of an inbound peer.  Items are only   *)
(* told apart by their kind.  The block solicitations and chain pulls have *)
(* one handle here ("request"): they are subscribed and closed together    *)
(* and never pending.  A channel may be full: sending to it can fail.      *)
(* The map keeps its entries from the least to the most recently used.     *)
(***************************************************************************)
EXTENDS Naturals, FiniteSets

CONSTANTS
    Nodes,        \* node ids
    Kinds,        \* kinds of items that are propagated
    BlockKind,    \* block announcements, whose inbound stream carries requests
    Conns,        \* bound: connection tasks at one time
    Capacity,     \* max_connections
    MaxClients,   \* max_client_connections
    MaxGauge      \* bound: peer_connected_cnt

ASSUME SizeAssumption ==
    /\ Capacity \in Nat \ {0}
    /\ MaxClients \in Nat
    /\ MaxGauge \in Nat

ASSUME NameAssumption ==
    /\ Nodes # {} /\ IsFiniteSet(Nodes) /\ IsFiniteSet(Conns)
    /\ BlockKind \in Kinds
    /\ "request" \notin Kinds
    /\ Conns \cap {"none", "pending", "closed", "inbound", "dropped"} = {}

VARIABLES
    members,   \* ids in the map
    older,     \* for each id, those in front of it
    entry,     \* PeerData of each id
    gauge,     \* the metric peer_connected_cnt
    conn,      \* connection tasks
    known,     \* ids that have completed a handshake as inbound peers
    fetch      \* the peer solicit_blocks_any has chosen, until it is asked

vars == <<members, older, entry, gauge, conn, known, fetch>>

Handles == Kinds \cup {"request"}
Channel == Conns \cup {"none", "pending", "closed", "inbound"}

(* connecting: the task whose ConnectHandle this is; "dropped" if the task *)
(* has dropped the other end.  client: handles with the Client direction.  *)
Entry == [connecting : Conns \cup {"none", "dropped"},
          comms : [Handles -> Channel],
          client : SUBSET Kinds]

Status == {"free", "unreached", "spawned", "connecting", "delivered", "running", "failing"}
Conn == [status : Status, node : Nodes, kind : Kinds, evict : Nat]

TypeOK ==
    /\ members \in SUBSET Nodes
    /\ older \in [Nodes -> SUBSET Nodes]
    /\ entry \in [Nodes -> Entry]
    /\ gauge \in Nat
    /\ conn \in [Conns -> Conn]
    /\ known \in SUBSET Nodes
    /\ fetch \in SUBSET Nodes

(* PeerData::new *)
Blank == [connecting |-> "none", comms |-> [k \in Handles |-> "none"], client |-> {}]

Free == [status |-> "free", node |-> CHOOSE n \in Nodes : TRUE, kind |-> BlockKind, evict |-> 0]

Init ==
    /\ members = {}
    /\ older = [n \in Nodes |-> {}]
    /\ entry = [n \in Nodes |-> Blank]
    /\ gauge = 0
    /\ conn = [c \in Conns |-> Free]
    /\ known = {}
    /\ fetch = {}

----------------------------------------------------------------------------
(* The map *)

(* What is left of the order among M. *)
Keep(M) == [n \in Nodes |-> IF n \in M THEN older[n] \cap M ELSE {}]

(* ... with n put last. *)
PutLast(M, n) == [Keep(M \ {n}) EXCEPT ![n] = M \ {n}]

(* evict_if_full in ensure_peer: what goes is the front entry, if n is new *)
(* and the map is full, or nothing.                                        *)
Evicted(M, n) ==
    IF n \notin M /\ Cardinality(M) >= Capacity
    THEN {{f} : f \in {m \in M : older[m] \cap M = {}}}
    ELSE {{}}

IsClient(n) == entry[n].client # {}

(* evict_clients: the first entries with a client subscription. *)
FirstClients(num) ==
    {n \in members : IsClient(n) /\ Cardinality({m \in older[n] : IsClient(m)}) < num}

(* PeerData::update_comm_status.  The connection's handles take the place  *)
(* of the entry's, and a pending item goes out on the new channel.         *)
Connecting(e) == e.connecting \in Conns /\ conn[e.connecting].status # "delivered"

(* Variant: the handle stays in the entry when it is complete. *)
UpdateKeepsHandle(e) ==
    IF Connecting(e) THEN e
    ELSE IF e.connecting \in Conns
    THEN [e EXCEPT !.comms = [k \in Handles |-> e.connecting], !.client = {}]
    ELSE [e EXCEPT !.connecting = "none"]

UpdateCommStatus(e) ==
    IF Connecting(e) THEN e
    ELSE IF e.connecting \in Conns
    THEN [connecting |-> "none", comms |-> [k \in Handles |-> e.connecting], client |-> {}]
    ELSE [e EXCEPT !.connecting = "none"]

(* Variant: the metric is decremented for a peer that has no entry. *)
RemoveAlwaysCounts(n) ==
    /\ members' = members \ {n}
    /\ older' = Keep(members \ {n})
    /\ entry' = [entry EXCEPT ![n] = Blank]
    /\ gauge' = gauge - 1

(* A removed entry drops its handles; see Canceled and Orphan. *)
RemovePeer(n) ==
    /\ members' = members \ {n}
    /\ older' = Keep(members \ {n})
    /\ entry' = [entry EXCEPT ![n] = Blank]
    /\ gauge' = IF n \in members THEN gauge - 1 ELSE gauge

UpdateEntry(n) ==
    /\ entry' = [entry EXCEPT ![n] = UpdateCommStatus(entry[n])]
    /\ UNCHANGED <<members, older, gauge>>

(* A task that ends closes its channels, and drops its end of the handle.  *)
CloseChannels(e, c) ==
    [e EXCEPT !.connecting = IF e.connecting = c THEN "dropped" ELSE e.connecting,
              !.comms = [k \in Handles |-> IF e.comms[k] = c THEN "closed" ELSE e.comms[k]]]

----------------------------------------------------------------------------
(* The network task *)

(* CommHandle::try_send *)
MaySend(e, h) == e.comms[h] \in Conns \cup {"inbound", "pending"}
MayFail(e, h) == e.comms[h] # "pending"

(* handle_propagation_msg for one peer: propagate_with or                  *)
(* propagate_gossip_to.  The item is sent or left for the connection in    *)
(* progress, or the entry is removed and the peer is to be connected to.   *)
PropagateSent(n, k) ==
    LET e == UpdateCommStatus(entry[n]) IN
    /\ fetch = {}
    /\ n \in members
    /\ \/ /\ Connecting(e)
          /\ entry' = [entry EXCEPT ![n] =
                         [e EXCEPT !.comms[k] = "pending", !.client = @ \cup {k}]]
       \/ /\ ~Connecting(e)
          /\ MaySend(e, k)
          /\ entry' = [entry EXCEPT ![n] = e]
    /\ UNCHANGED <<members, older, gauge, conn, known, fetch>>

PropagateFailed(n, k, c) ==
    LET e == UpdateCommStatus(entry[n]) IN
    /\ fetch = {}
    /\ n \in members => ~Connecting(e) /\ MayFail(e, k)
    /\ RemovePeer(n)
    /\ conn[c].status = "free"
    /\ conn' = [conn EXCEPT ![c] = [status |-> "unreached", node |-> n, kind |-> k, evict |-> 0]]
    /\ UNCHANGED <<known, fetch>>

(* solicit_blocks_any: the most recently used peer that is not connecting. *)
ChoosePeer(n) ==
    /\ fetch = {}
    /\ n \in members
    /\ ~Connecting(entry[n])
    /\ \A m \in members : n \in older[m] => Connecting(entry[m])
    /\ UpdateEntry(n)
    /\ fetch' = {n}
    /\ UNCHANGED <<conn, known>>

(* solicit_blocks_peer and pull_headers, for that peer or one that a       *)
(* message names.                                                          *)
Request(n) ==
    LET e == UpdateCommStatus(entry[n]) IN
    /\ fetch \subseteq {n}
    /\ fetch' = {}
    /\ \/ n \in members /\ MaySend(e, "request") /\ UpdateEntry(n)
       \/ n \in members /\ MayFail(e, "request") /\ RemovePeer(n)
       \/ n \notin members /\ UNCHANGED <<members, older, entry, gauge>>
    /\ UNCHANGED <<conn, known>>

----------------------------------------------------------------------------
(* A connection task *)

ClientCount == Cardinality({c \in Conns : conn[c].status = "running"})

(* num_clients_to_bump, when the task is spawned. *)
ClientsToBump == IF ClientCount + 1 > MaxClients THEN ClientCount + 1 - MaxClients ELSE 0

Spawn(c) ==
    /\ conn[c].status = "unreached"
    /\ conn' = [conn EXCEPT ![c].status = "spawned", ![c].evict = ClientsToBump]
    /\ UNCHANGED <<members, older, entry, gauge, known, fetch>>

(* Peers::add_connecting: evict_clients, ensure_peer, the new handle, which *)
(* drops the one the entry may have, and the pending item.                 *)
AddConnecting(c) ==
    LET n == conn[c].node
        k == conn[c].kind
        M == members \ FirstClients(conn[c].evict)
        e == IF n \in M THEN entry[n] ELSE Blank
    IN
    /\ conn[c].status = "spawned"
    /\ gauge < MaxGauge
    /\ \E E \in Evicted(M, n) :
          /\ members' = (M \ E) \cup {n}
          /\ older' = IF n \in M THEN Keep(M) ELSE PutLast(M \ E, n)
          /\ entry' = [m \in Nodes |->
                         IF m = n
                         THEN [connecting |-> c,
                               comms |-> [e.comms EXCEPT ![k] = "pending"],
                               client |-> e.client \cup {k}]
                         ELSE IF m \in M \ E THEN entry[m] ELSE Blank]
          /\ gauge' = IF n \in M THEN gauge ELSE gauge + 1 - Cardinality(E)
    /\ conn' = [conn EXCEPT ![c].status = "connecting"]
    /\ UNCHANGED <<known, fetch>>

(* ConnectFuture::poll: the handle was dropped. *)
Canceled(c) ==
    /\ conn[c].status = "connecting"
    /\ entry[conn[c].node].connecting # c
    /\ conn' = [conn EXCEPT ![c] = Free]
    /\ UNCHANGED <<members, older, entry, gauge, known, fetch>>

Connected(c) ==
    /\ conn[c].status = "connecting"
    /\ entry[conn[c].node].connecting = c
    /\ conn' = [conn EXCEPT ![c].status = "delivered"]
    /\ UNCHANGED <<members, older, entry, gauge, known, fetch>>

(* Transport, handshake or subscription error.  The sender is dropped, the *)
(* topology is told, ...                                                   *)
Fails(c) ==
    /\ conn[c].status = "connecting"
    /\ entry[conn[c].node].connecting = c
    /\ conn' = [conn EXCEPT ![c].status = "failing"]
    /\ entry' = [entry EXCEPT ![conn[c].node] = CloseChannels(entry[conn[c].node], c)]
    /\ UNCHANGED <<members, older, gauge, known, fetch>>

(* Variant: the entry stays. *)
FailedStays(c) ==
    /\ conn[c].status = "failing"
    /\ conn' = [conn EXCEPT ![c] = Free]
    /\ UNCHANGED <<members, older, entry, gauge, known, fetch>>

(* Variant: the attempt is repeated. *)
RetryFailed(c) ==
    /\ conn[c].status = "failing"
    /\ conn' = [conn EXCEPT ![c].status = "connecting"]
    /\ entry' = [n \in Nodes |-> IF n = conn[c].node /\ n \in members
                                 THEN [entry[n] EXCEPT !.connecting = c] ELSE entry[n]]
    /\ UNCHANGED <<members, older, gauge, known, fetch>>

(* ... and what is the entry of the peer by then is removed. *)
RemoveFailed(c) ==
    /\ conn[c].status = "failing"
    /\ RemovePeer(conn[c].node)
    /\ conn' = [conn EXCEPT ![c] = Free]
    /\ UNCHANGED <<known, fetch>>

StartClient(c) ==
    /\ conn[c].status = "delivered"
    /\ UpdateEntry(conn[c].node)
    /\ conn' = [conn EXCEPT ![c].status = "running"]
    /\ UNCHANGED <<known, fetch>>

(* Client::poll ends: the peer closes a stream, an error, or the channel   *)
(* of the requests is closed because its sender is gone.                   *)
Orphan(c) == entry[conn[c].node].comms["request"] # c

EndClient(c) ==
    /\ conn[c].status = "running"
    /\ conn' = [conn EXCEPT ![c] = Free]
    /\ entry' = [entry EXCEPT ![conn[c].node] = CloseChannels(entry[conn[c].node], c)]
    /\ UNCHANGED <<members, older, gauge, known, fetch>>

----------------------------------------------------------------------------
(* Inbound peers: the gRPC service *)

(* Variant: the new entry is not counted. *)
HandshakeUncounted(n) ==
    /\ gauge < MaxGauge
    /\ known' = known \cup {n}
    /\ \E E \in Evicted(members, n) :
          /\ members' = (members \ E) \cup {n}
          /\ older' = IF n \in members THEN older ELSE PutLast(members \ E, n)
          /\ entry' = [m \in Nodes |->
                         IF m = n THEN UpdateCommStatus(entry[n])
                         ELSE IF m \in E THEN Blank ELSE entry[m]]
          /\ gauge' = gauge - Cardinality(E)
    /\ UNCHANGED <<conn, fetch>>

(* complete_handshake, then add_client. *)
Handshake(n) ==
    /\ gauge < MaxGauge
    /\ known' = known \cup {n}
    /\ \E E \in Evicted(members, n) :
          /\ members' = (members \ E) \cup {n}
          /\ older' = IF n \in members THEN older ELSE PutLast(members \ E, n)
          /\ entry' = [m \in Nodes |->
                         IF m = n THEN UpdateCommStatus(entry[n])
                         ELSE IF m \in E THEN Blank ELSE entry[m]]
          /\ gauge' = IF n \in members THEN gauge ELSE gauge + 1 - Cardinality(E)
    /\ UNCHANGED <<conn, fetch>>

(* subscribe_to_block_events, _fragments, _gossip: server_comms cancels a  *)
(* connection in progress and the items that wait for it.  The id was read *)
(* from the handshakes earlier: the entry may be another one by now.       *)
Subscribe(n, k) ==
    /\ n \in known
    /\ n \in members
    /\ entry' = [entry EXCEPT ![n].connecting = "none",
                             ![n].comms = [h \in Handles |->
                                IF h = k \/ (k = BlockKind /\ h = "request") THEN "inbound"
                                ELSE IF entry[n].comms[h] = "pending" THEN "none"
                                ELSE entry[n].comms[h]]]
    /\ UNCHANGED <<members, older, gauge, conn, known, fetch>>

(* refresh_peer: something was received from the peer. *)
Refresh(n) ==
    /\ n \in members
    /\ older' = PutLast(members, n)
    /\ UNCHANGED <<members, entry, gauge, conn, known, fetch>>

----------------------------------------------------------------------------

NetworkTask ==
    \E n \in Nodes :
       \/ \E k \in Kinds : PropagateSent(n, k) \/ \E c \in Conns : PropagateFailed(n, k, c)
       \/ ChoosePeer(n)
       \/ Request(n)

Attempt(c) ==
    \/ Spawn(c) \/ AddConnecting(c) \/ Canceled(c) \/ Connected(c) \/ Fails(c)
    \/ RemoveFailed(c) \/ StartClient(c)

Inbound == \E n \in Nodes : Handshake(n) \/ Refresh(n) \/ \E k \in Kinds : Subscribe(n, k)

Next ==
    \/ NetworkTask
    \/ \E c \in Conns : Attempt(c) \/ EndClient(c)
    \/ Inbound

Spec == Init /\ [][Next]_vars

(* Requests have a timeout (Endpoint::timeout), so an attempt ends; a      *)
(* client whose channels are closed is woken and ends.                     *)
FairSpec ==
    /\ Spec
    /\ \A c \in Conns : WF_vars(Attempt(c)) /\ WF_vars(Orphan(c) /\ EndClient(c))

----------------------------------------------------------------------------
(* Properties *)

(* The map never has more entries than max_connections, whichever of the   *)
(* two sides adds them.                                                    *)
MapBounded == Cardinality(members) <= Capacity

(* The metric never falls below the number of entries, so that no removal  *)
(* takes it below zero, where the unsigned gauge would wrap.               *)
GaugeCovers == Cardinality(members) <= gauge

(* An item that waits for a connection has one to wait for: the connection *)
(* task holds the other end of the handle, or has failed and is about to   *)
(* remove the entry.                                                       *)
PendingIsWatched ==
    \A n \in members, k \in Kinds :
        entry[n].comms[k] = "pending" =>
          \/ entry[n].connecting \in Conns
          \/ \E c \in Conns : conn[c].status = "failing" /\ conn[c].node = n

(* A handle an entry holds belongs to a task that connects to this peer    *)
(* and has not come to its end, and no channel feeds a task that is gone.  *)
HandlesAlive ==
    \A n \in members, c \in Conns :
        /\ entry[n].connecting = c =>
             conn[c].node = n /\ conn[c].status \in {"connecting", "delivered"}
        /\ (\E h \in Handles : entry[n].comms[h] = c) =>
             conn[c].node = n /\ conn[c].status \in {"delivered", "running"}

(* An item does not wait for ever: it is sent, or the peer is dropped or   *)
(* taken over by its own connection to this node.                          *)
PendingResolved ==
    \A n \in Nodes, k \in Kinds :
        entry[n].comms[k] = "pending" ~> entry[n].comms[k] # "pending"

(* "the maximum number of client P2P connections this node should keep     *)
(* open": once no attempt is underway, no more are open than that.         *)
ClientsBounded ==
    (\A c \in Conns : conn[c].status \in {"free", "running"} /\ ~(conn[c].status = "running" /\ Orphan(c)))
        => ClientCount <= MaxClients
=============================================================================
