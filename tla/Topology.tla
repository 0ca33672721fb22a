------------------------------ MODULE Topology ------------------------------
(***************************************************************************)
(* The peers a node knows of: the topology task (topology/process.rs),     *)
(* P2pTopology (topology/topology.rs) and the reports against peers        *)
(* (topology/quarantine.rs), with the connection attempts that make the    *)
(* reports (network/mod.rs).                                               *)
(*                                                                         *)
(* Poldercast is external.  Of it the module has what the code relies on:  *)
(* the three pools, of bounded size, between which a peer moves by one     *)
(* when it is promoted or removed; dirty is the quarantine.  Which peer a  *)
(* full pool loses, whether a gossip about a known peer is news, and       *)
(* whether a quarantined peer is found by its id, are left open.  view     *)
(* stands for the layers peers are chosen from.                            *)
(*                                                                         *)
(* max_num_quarantine_records, 24 000 unless configured, is taken to be no *)
(* less than the number of peers: the records and the grace list are then  *)
(* never full.                                                             *)
(*                                                                         *)
(* Time is the age of each report and of the last gossip; ages stop to     *)
(* count where nothing depends on them any more.                           *)
(***************************************************************************)
EXTENDS Naturals, FiniteSets

CONSTANTS
    Nodes,            \* peers
    Whitelist,        \* those with an address of quarantine_whitelist
    PoolSize,         \* poldercast: size of each pool
    ReportDuration,   \* quarantine_duration
    StuckCheck,       \* network_stuck_check
    MaxAttempts,      \* bound: connection attempts to one peer at one time
    MaxQuarantined    \* bound: peer_quarantined_cnt

ASSUME TopologyAssumption ==
    /\ IsFiniteSet(Nodes)
    /\ Whitelist \subseteq Nodes
    /\ PoolSize \in Nat \ {0}
    /\ ReportDuration \in Nat
    /\ StuckCheck \in Nat
    /\ MaxAttempts \in Nat
    /\ MaxQuarantined \in Nat

VARIABLES
    pool, trusted, dirty,   \* poldercast's pools
    view,                   \* peers in its layers
    records,                \* report_records
    older,                  \* for each of them, those in front of it
    age,                    \* time since its report
    grace,                  \* report_grace
    available,              \* the metric peer_available_cnt
    quarantined,            \* the metric peer_quarantined_cnt
    quiet,                  \* time since last_update
    attempts                \* connection attempts by peer

pools == <<pool, trusted, dirty>>
reports == <<records, older, age, grace>>
vars == <<pools, view, reports, available, quarantined, quiet, attempts>>

TypeOK ==
    /\ pool \subseteq Nodes /\ trusted \subseteq Nodes /\ dirty \subseteq Nodes
    /\ view \subseteq Nodes
    /\ records \subseteq Nodes
    /\ older \in [Nodes -> SUBSET Nodes]
    /\ age \in [Nodes -> 0..ReportDuration]
    /\ grace \subseteq Nodes
    /\ available \in Nat /\ quarantined \in Nat
    /\ quiet \in 0..StuckCheck + 1
    /\ attempts \in [Nodes -> 0..MaxAttempts]

Init ==
    /\ pool = {} /\ trusted = {} /\ dirty = {} /\ view = {}
    /\ records = {} /\ older = [n \in Nodes |-> {}] /\ age = [n \in Nodes |-> 0]
    /\ grace = {}
    /\ available = 0 /\ quarantined = 0
    /\ quiet = 0
    /\ attempts = [n \in Nodes |-> 0]

----------------------------------------------------------------------------

(* What an LRU cache S of some size can be after the entries New are put.  *)
Put(S, New, size) ==
    {P \in SUBSET (S \cup New) :
        \/ P = S \cup New /\ Cardinality(P) <= size
        \/ /\ Cardinality(S \cup New) > size
           /\ Cardinality(P) = size
           /\ Cardinality(New) <= size => New \subseteq P}

Available == pool \cup trusted

(* peer_available_cnt, after a change. *)
CountAvailable == available' = Cardinality(pool') + Cardinality(trusted')

(* AcceptGossip: P2pTopology::accept_gossips.  The peers A are new, or the *)
(* gossip is newer than what is known of them; a quarantined peer stays    *)
(* where it is.                                                            *)
AcceptGossips(S) ==
    /\ \E A \in SUBSET (S \ dirty) :
          /\ S \ (Available \cup dirty) \subseteq A
          /\ pool' \in Put(pool, A \ trusted, PoolSize)
          /\ UNCHANGED trusted
          /\ IF A = {} THEN UNCHANGED available ELSE CountAvailable
          /\ view' = view \cup A
          /\ grace' = grace \ A
    /\ quiet' = 0
    /\ UNCHANGED <<dirty, records, older, age, quarantined, attempts>>

(* poldercast::Topology::promote_peer *)
PromotePeer(n) ==
    \/ /\ n \in dirty
       /\ dirty' = dirty \ {n}
       /\ pool' \in Put(pool, {n}, PoolSize)
       /\ UNCHANGED trusted
    \/ /\ n \in pool \ dirty
       /\ pool' = pool \ {n}
       /\ trusted' \in Put(trusted, {n}, PoolSize)
       /\ UNCHANGED dirty
    \/ /\ n \notin pool \cup dirty
       /\ UNCHANGED pools

(* Variant: the metric is not updated. *)
PromoteUncounted(n) ==
    /\ PromotePeer(n)
    /\ UNCHANGED <<view, reports, available, quarantined, quiet>>

(* P2pTopology::promote_node *)
PromoteNode(n) ==
    /\ PromotePeer(n)
    /\ CountAvailable
    /\ UNCHANGED <<view, reports, quarantined, quiet>>

(* poldercast::Topology::remove_peer.  A peer that is quarantined stays.   *)
RemovePeer(n) ==
    \/ /\ n \in trusted
       /\ trusted' = trusted \ {n}
       /\ pool' \in Put(pool, {n}, PoolSize)
       /\ UNCHANGED dirty
    \/ /\ n \in pool \ trusted
       /\ pool' = pool \ {n}
       /\ dirty' \in Put(dirty, {n}, PoolSize)
       /\ UNCHANGED trusted
    \/ /\ n \in dirty
       /\ UNCHANGED pools

(* Variant: a peer that has a record keeps its place. *)
PutRecordInPlace(n) ==
    /\ records' = records \cup {n}
    /\ older' = IF n \in records THEN older ELSE [older EXCEPT ![n] = records]
    /\ age' = [age EXCEPT ![n] = 0]

(* report_records.put: the record becomes the last. *)
PutRecord(n) ==
    /\ records' = records \cup {n}
    /\ older' = [m \in Nodes |-> IF m = n THEN records \ {n} ELSE older[m] \ {n}]
    /\ age' = [age EXCEPT ![n] = 0]

(* ReportRecords::report_node does not answer Ok. *)
Reportable(n) == n \notin Whitelist \cup grace

(* Variant: only the first report of a peer counts. *)
CountFirstReport(n) ==
    quarantined' = IF n \in dirty' \ records THEN quarantined + 1 ELSE quarantined

CountQuarantined(n) ==
    quarantined' = IF n \in dirty' THEN quarantined + 1 ELSE quarantined

(* P2pTopology::report_node *)
ReportIgnored(n) ==
    /\ n \notin Available \/ ~Reportable(n)
    /\ UNCHANGED <<pools, view, reports, available, quarantined, quiet>>

ReportTaken(n) ==
    /\ n \in Available \cup dirty
    /\ Reportable(n)
    /\ quarantined < MaxQuarantined
    /\ RemovePeer(n)
    /\ view' = view \ {n}
    /\ PutRecord(n)
    /\ CountAvailable
    /\ CountQuarantined(n)
    /\ UNCHANGED <<grace, quiet>>

(* ReportRecords::lift_reports: from the first record on, those that are   *)
(* old enough.                                                             *)
Lifted == {n \in records : \A m \in older[n] \cup {n} : age[m] = ReportDuration}

(* Variant: the lifted peers are not promoted. *)
NonePromoted == {}

(* P2pTopology::lift_reports: the lifted peers that are still quarantined. *)
Promoted == Lifted \cap dirty

(* New attempts to the peers of C: gossip is sent to them and they are not *)
(* connected.                                                              *)
Attempt(C) ==
    /\ \A n \in C : attempts[n] < MaxAttempts
    /\ attempts' = [n \in Nodes |-> IF n \in C THEN attempts[n] + 1 ELSE attempts[n]]

(* The tick of quarantine_check: reports are lifted, then gossip goes to   *)
(* the peers that leave the quarantine and, when none has come for long,   *)
(* to available ones.                                                      *)
QuarantineCheck ==
    LET Stuck == quiet > StuckCheck
    IN
    /\ records' = records \ Lifted
    /\ older' = [n \in Nodes |-> older[n] \ Lifted]
    /\ grace' = grace \cup Lifted
    /\ dirty' = dirty \ Promoted
    /\ pool' \in Put(pool, Promoted, PoolSize)
    /\ UNCHANGED trusted
    /\ IF Promoted = {} THEN UNCHANGED available ELSE CountAvailable
    /\ quarantined' = quarantined - Cardinality(Promoted)
    /\ quiet' = IF Stuck THEN 0 ELSE quiet
    /\ \E C \in SUBSET (Promoted \cup (IF Stuck THEN pool' \cup trusted' ELSE {})) : Attempt(C)
    /\ UNCHANGED <<view, age>>

(* The tick of gossip_interval, and propagation to the peers of a view.    *)
GossipTick ==
    /\ \E C \in SUBSET (view \cap Available) : C # {} /\ Attempt(C)
    /\ UNCHANGED <<pools, view, reports, available, quarantined, quiet>>

AttemptEnds(n) ==
    /\ attempts[n] > 0
    /\ attempts' = [attempts EXCEPT ![n] = @ - 1]

(* connect_and_propagate: DemotePeer or PromotePeer. *)
AttemptFails(n) == AttemptEnds(n) /\ (ReportTaken(n) \/ ReportIgnored(n))

AttemptSucceeds(n) == AttemptEnds(n) /\ PromoteNode(n)

(* The first gossip of an inbound peer's stream (GossipProcessor).         *)
InboundPromotes(n) == PromoteNode(n) /\ UNCHANGED attempts

Tick ==
    /\ age' = [n \in Nodes |-> IF n \in records /\ age[n] < ReportDuration THEN age[n] + 1 ELSE age[n]]
    /\ quiet' = IF quiet <= StuckCheck THEN quiet + 1 ELSE quiet
    /\ UNCHANGED <<pools, view, records, older, grace, available, quarantined, attempts>>

Next ==
    \/ \E S \in SUBSET Nodes : AcceptGossips(S)
    \/ QuarantineCheck
    \/ GossipTick
    \/ \E n \in Nodes : AttemptFails(n) \/ AttemptSucceeds(n) \/ InboundPromotes(n)
    \/ Tick

Spec == Init /\ [][Next]_vars

(* The interval of the check ticks, and time passes. *)
FairSpec == Spec /\ WF_vars(QuarantineCheck) /\ WF_vars(Tick)

----------------------------------------------------------------------------
(* Properties *)

(* A peer is in one pool at most, and the metric counts those that are not *)
(* quarantined, whatever pools are full.                                   *)
AvailableExact ==
    /\ pool \cap trusted = {} /\ Available \cap dirty = {}
    /\ available = Cardinality(Available)

(* The metric of the quarantined peers is never below their number: what   *)
(* lift_reports subtracts was added before, although a promotion and an    *)
(* eviction from the quarantine do not subtract.                           *)
QuarantinedCovers == Cardinality(dirty) <= quarantined

(* A quarantined peer has a report, so that it will be lifted, and is not  *)
(* chosen for gossip or propagation meanwhile.                             *)
QuarantineIsTemporary == dirty \subseteq records \ view

(* "do not report again nodes that were recently lifted from a report": a  *)
(* peer in the grace list has no report and is not quarantined.            *)
GraceRespected == grace \cap (records \cup dirty) = {}

(* "not to ban a node forever from the topology": a peer leaves the        *)
(* quarantine, although lifting stops at the first record that is not due, *)
(* and although attempts underway may report it, and the peers in front of *)
(* it, again.                                                              *)
Forgiven == \A n \in Nodes : n \in dirty ~> n \notin dirty
=============================================================================
