--------------------------- MODULE TopologyProofs ---------------------------
(***************************************************************************)
(* The invariants of Topology for every set of peers, pool size, duration  *)
(* and bound.                                                              *)
(***************************************************************************)
EXTENDS Topology, FiniteSetTheorems, TLAPS

(* The pool is within its size: putting nothing into it changes nothing.   *)
Inv ==
    /\ TypeOK
    /\ Cardinality(pool) <= PoolSize
    /\ AvailableExact
    /\ QuarantinedCovers
    /\ QuarantineIsTemporary
    /\ GraceRespected

(* Sets of peers are finite: the pools of poldercast can be counted.       *)
LEMMA FinitePeers ==
    ASSUME NEW S, S \subseteq Nodes
    PROVE  IsFiniteSet(S) /\ Cardinality(S) \in Nat
BY TopologyAssumption, FS_Subset, FS_CardinalityType

(* LruCache::put keeps or adds the entries put, never others, and keeps    *)
(* the cache within its size.                                              *)
LEMMA PutResult ==
    ASSUME NEW S, S \subseteq Nodes, NEW New, New \subseteq Nodes,
           NEW P, P \in Put(S, New, PoolSize)
    PROVE  /\ P \subseteq S \cup New
           /\ P \subseteq Nodes
           /\ Cardinality(P) <= PoolSize
           /\ New = {} /\ Cardinality(S) <= PoolSize => P = S
<1>1. P \subseteq S \cup New /\ P \subseteq Nodes
    BY DEF Put
<1>2. Cardinality(S) \in Nat /\ Cardinality(P) \in Nat /\ PoolSize \in Nat
    BY <1>1, FinitePeers, TopologyAssumption
<1>3. Cardinality(P) <= PoolSize
    BY <1>2 DEF Put
<1>4. ASSUME New = {}, Cardinality(S) <= PoolSize PROVE P = S
    <2>1. S \cup New = S
        BY <1>4
    <2>2. ~(Cardinality(S) > PoolSize)
        BY <1>2, <1>4
    <2> QED BY <2>1, <2>2 DEF Put
<1> QED BY <1>1, <1>3, <1>4

(* The same for a single entry, as promotions and reports put it.          *)
LEMMA PutOne ==
    ASSUME NEW S, S \subseteq Nodes, NEW n \in Nodes, NEW P, P \in Put(S, {n}, PoolSize)
    PROVE  P \subseteq S \cup {n} /\ P \subseteq Nodes /\ Cardinality(P) <= PoolSize
<1>1. {n} \subseteq Nodes
    OBVIOUS
<1> QED BY <1>1, PutResult

(* The sum that peer_available_cnt computes over the two chained pools is  *)
(* the number of available peers when no peer is in both.                  *)
LEMMA CountIsExact ==
    ASSUME NEW P, P \subseteq Nodes, NEW T, T \subseteq Nodes, P \cap T = {}
    PROVE  Cardinality(P) + Cardinality(T) = Cardinality(P \cup T)
<1>1. IsFiniteSet(P) /\ IsFiniteSet(T)
    BY FinitePeers
<1>2. Cardinality(P \cup T) = Cardinality(P) + Cardinality(T) - Cardinality(P \cap T)
    BY <1>1, FS_Union
<1>3. Cardinality(P \cap T) = 0
    BY FS_EmptySet
<1>4. Cardinality(P) \in Nat /\ Cardinality(T) \in Nat
    BY FinitePeers
<1> QED BY <1>2, <1>3, <1>4

(* At most one peer is added to a set by a report.                         *)
LEMMA AddsOne ==
    ASSUME NEW S, S \subseteq Nodes, NEW n \in Nodes,
           NEW P, P \subseteq S \cup {n}
    PROVE  Cardinality(P) <= Cardinality(S) + 1
<1>1. IsFiniteSet(S) /\ IsFiniteSet(S \cup {n}) /\ Cardinality(S) \in Nat
    BY FinitePeers
<1>2. Cardinality(S \cup {n}) <= Cardinality(S) + 1
    BY <1>1, FS_AddElement
<1>3. Cardinality(P) <= Cardinality(S \cup {n})
    BY <1>1, FS_Subset
<1>4. Cardinality(P) \in Nat /\ Cardinality(S \cup {n}) \in Nat
    BY FinitePeers
<1> QED BY <1>1, <1>2, <1>3, <1>4

(* A topology that starts without peers satisfies the invariant.           *)
LEMMA InitInv == Init => Inv
<1> SUFFICES ASSUME Init PROVE Inv
    OBVIOUS
<1>1. Cardinality({}) = 0
    BY FS_EmptySet
<1>2. TypeOK
    BY TopologyAssumption DEF Init, TypeOK
<1>3. pool = {} /\ Available = {} /\ dirty = {} /\ available = 0 /\ quarantined = 0 /\ grace = {}
    BY DEF Init, Available
<1>4. pool \cap trusted = {}
    BY <1>3
<1>5. Cardinality(pool) <= PoolSize
    BY <1>1, <1>3, TopologyAssumption
<1>6. AvailableExact
    BY <1>1, <1>3, <1>4 DEF AvailableExact
<1>7. QuarantinedCovers
    BY <1>1, <1>3 DEF QuarantinedCovers
<1>8. QuarantineIsTemporary /\ GraceRespected
    BY <1>3 DEF QuarantineIsTemporary, GraceRespected
<1> QED BY <1>2, <1>5, <1>6, <1>7, <1>8 DEF Inv

(* accept_gossips preserves it. *)
LEMMA AcceptGossipsInv ==
    ASSUME Inv, NEW S \in SUBSET Nodes, AcceptGossips(S)
    PROVE  Inv'
<1> USE DEF Inv
<1>1. PICK A \in SUBSET (S \ dirty) :
          /\ pool' \in Put(pool, A \ trusted, PoolSize)
          /\ UNCHANGED trusted
          /\ IF A = {} THEN UNCHANGED available ELSE CountAvailable
          /\ view' = view \cup A
          /\ grace' = grace \ A
    BY DEF AcceptGossips
<1>2. UNCHANGED <<dirty, records, older, age, quarantined, attempts>> /\ quiet' = 0
    BY DEF AcceptGossips
<1>3. pool \subseteq Nodes /\ trusted \subseteq Nodes /\ A \subseteq Nodes
    BY DEF TypeOK
<1>4. /\ pool' \subseteq pool \cup (A \ trusted) /\ pool' \subseteq Nodes
      /\ Cardinality(pool') <= PoolSize
      /\ A = {} => pool' = pool
    BY <1>1, <1>3, PutResult
<1>5. pool' \cap trusted' = {} /\ (pool' \cup trusted') \cap dirty' = {}
    BY <1>1, <1>2, <1>4 DEF AvailableExact, Available
<1>6. available' = Cardinality(pool' \cup trusted')
    <2>1. CASE A = {}
        BY <1>1, <1>4, <2>1 DEF AvailableExact, Available
    <2>2. CASE A # {}
        BY <1>1, <1>3, <1>4, <1>5, <2>2, CountIsExact DEF CountAvailable
    <2> QED BY <2>1, <2>2
<1>7. AvailableExact'
    BY <1>5, <1>6 DEF AvailableExact, Available
<1>8. available' \in Nat
    BY <1>1, <1>3, <1>4, <1>6, FinitePeers
<1>9. TypeOK'
    BY <1>1, <1>2, <1>3, <1>4, <1>8, TopologyAssumption DEF TypeOK
<1>10. QuarantinedCovers' /\ QuarantineIsTemporary' /\ GraceRespected'
    BY <1>1, <1>2 DEF QuarantinedCovers, QuarantineIsTemporary, GraceRespected
<1> QED BY <1>4, <1>7, <1>9, <1>10

(* promote_node preserves it. *)
LEMMA PromoteNodeInv ==
    ASSUME Inv, NEW n \in Nodes, PromoteNode(n), attempts' \in [Nodes -> 0..MaxAttempts]
    PROVE  Inv'
<1> USE DEF Inv
<1>1. UNCHANGED <<view, records, older, age, grace, quarantined, quiet>>
    BY DEF PromoteNode, reports
<1>2. PromotePeer(n) /\ CountAvailable
    BY DEF PromoteNode
<1>3. pool \subseteq Nodes /\ trusted \subseteq Nodes /\ dirty \subseteq Nodes /\ {n} \subseteq Nodes
    BY DEF TypeOK
<1>4. /\ pool' \subseteq Nodes /\ trusted' \subseteq Nodes /\ dirty' \subseteq dirty
      /\ Cardinality(pool') <= PoolSize
      /\ pool' \cap trusted' = {} /\ (pool' \cup trusted') \cap dirty' = {}
    <2>1. CASE n \in dirty /\ dirty' = dirty \ {n} /\ pool' \in Put(pool, {n}, PoolSize) /\ UNCHANGED trusted
        <3>1. pool' \subseteq pool \cup {n} /\ pool' \subseteq Nodes /\ Cardinality(pool') <= PoolSize
            BY <1>3, <2>1, PutOne
        <3> QED BY <1>3, <2>1, <3>1 DEF AvailableExact, Available
    <2>2. CASE n \in pool \ dirty /\ pool' = pool \ {n} /\ trusted' \in Put(trusted, {n}, PoolSize) /\ UNCHANGED dirty
        <3>1. trusted' \subseteq trusted \cup {n} /\ trusted' \subseteq Nodes
            BY <1>3, <2>2, PutOne
        <3>2. Cardinality(pool') <= Cardinality(pool)
            BY <1>3, <2>2, FinitePeers, FS_Subset
        <3>3. Cardinality(pool') <= PoolSize
            BY <1>3, <2>2, <3>2, FinitePeers, TopologyAssumption
        <3> QED BY <1>3, <2>2, <3>1, <3>3 DEF AvailableExact, Available
    <2>3. CASE UNCHANGED pools
        BY <1>3, <2>3 DEF pools, AvailableExact, Available
    <2> QED BY <1>2, <2>1, <2>2, <2>3 DEF PromotePeer
<1>5. available' = Cardinality(pool' \cup trusted')
    BY <1>2, <1>4, CountIsExact DEF CountAvailable
<1>6. available' \in Nat
    BY <1>4, <1>5, FinitePeers
<1>7. TypeOK'
    BY <1>1, <1>3, <1>4, <1>6 DEF TypeOK
<1>8. AvailableExact'
    BY <1>4, <1>5 DEF AvailableExact, Available
<1>9. QuarantinedCovers'
    <2>1. Cardinality(dirty') <= Cardinality(dirty)
        BY <1>3, <1>4, FinitePeers, FS_Subset
    <2>2. Cardinality(dirty') \in Nat /\ Cardinality(dirty) \in Nat
        BY <1>3, <1>4, FinitePeers
    <2> QED BY <1>1, <2>1, <2>2 DEF QuarantinedCovers, TypeOK
<1>10. QuarantineIsTemporary' /\ GraceRespected'
    BY <1>1, <1>4 DEF QuarantineIsTemporary, GraceRespected
<1> QED BY <1>4, <1>7, <1>8, <1>9, <1>10

(* report_node preserves it. *)
LEMMA ReportTakenInv ==
    ASSUME Inv, NEW n \in Nodes, ReportTaken(n), attempts' \in [Nodes -> 0..MaxAttempts]
    PROVE  Inv'
<1> USE DEF Inv
<1>1. /\ UNCHANGED <<grace, quiet>>
      /\ view' = view \ {n}
      /\ n \notin grace
    BY DEF ReportTaken, Reportable
<1>2. RemovePeer(n) /\ CountAvailable /\ CountQuarantined(n)
    BY DEF ReportTaken
<1>3. pool \subseteq Nodes /\ trusted \subseteq Nodes /\ dirty \subseteq Nodes /\ {n} \subseteq Nodes
    BY DEF TypeOK
<1>4. /\ records' = records \cup {n}
      /\ older' = [m \in Nodes |-> IF m = n THEN records \ {n} ELSE older[m] \ {n}]
      /\ age' = [age EXCEPT ![n] = 0]
    BY DEF ReportTaken, PutRecord
<1>5. /\ pool' \subseteq Nodes /\ trusted' \subseteq Nodes /\ dirty' \subseteq dirty \cup {n}
      /\ Cardinality(pool') <= PoolSize
      /\ pool' \cap trusted' = {} /\ (pool' \cup trusted') \cap dirty' = {}
    <2>1. CASE n \in trusted /\ trusted' = trusted \ {n} /\ pool' \in Put(pool, {n}, PoolSize) /\ UNCHANGED dirty
        <3>1. pool' \subseteq pool \cup {n} /\ pool' \subseteq Nodes /\ Cardinality(pool') <= PoolSize
            BY <1>3, <2>1, PutOne
        <3> QED BY <1>3, <2>1, <3>1 DEF AvailableExact, Available
    <2>2. CASE n \in pool \ trusted /\ pool' = pool \ {n} /\ dirty' \in Put(dirty, {n}, PoolSize) /\ UNCHANGED trusted
        <3>1. dirty' \subseteq dirty \cup {n}
            BY <1>3, <2>2, PutOne
        <3>2. Cardinality(pool') <= Cardinality(pool)
            BY <1>3, <2>2, FinitePeers, FS_Subset
        <3>3. Cardinality(pool') <= PoolSize
            BY <1>3, <2>2, <3>2, FinitePeers, TopologyAssumption
        <3> QED BY <1>3, <2>2, <3>1, <3>3 DEF AvailableExact, Available
    <2>3. CASE UNCHANGED pools
        BY <1>3, <2>3 DEF pools, AvailableExact, Available
    <2> QED BY <1>2, <2>1, <2>2, <2>3 DEF RemovePeer
<1>6. available' = Cardinality(pool' \cup trusted')
    BY <1>2, <1>5, CountIsExact DEF CountAvailable
<1>7. available' \in Nat
    BY <1>5, <1>6, FinitePeers
<1>8. quarantined' \in Nat
    BY <1>2 DEF CountQuarantined, TypeOK
<1>9. records' \subseteq Nodes /\ older' \in [Nodes -> SUBSET Nodes] /\ age' \in [Nodes -> 0..ReportDuration]
    BY <1>4, TopologyAssumption DEF TypeOK
<1>10. TypeOK'
    BY <1>1, <1>3, <1>5, <1>7, <1>8, <1>9 DEF TypeOK
<1>11. AvailableExact'
    BY <1>5, <1>6 DEF AvailableExact, Available
<1>12. QuarantinedCovers'
    <2>1. Cardinality(dirty) \in Nat /\ Cardinality(dirty') \in Nat
        BY <1>3, <1>5, FinitePeers
    <2>2. CASE n \in dirty'
        <3>1. Cardinality(dirty') <= Cardinality(dirty) + 1
            BY <1>3, <1>5, AddsOne
        <3> QED BY <1>2, <2>1, <2>2, <3>1 DEF CountQuarantined, QuarantinedCovers, TypeOK
    <2>3. CASE n \notin dirty'
        <3>1. dirty' \subseteq dirty
            BY <1>5, <2>3
        <3>2. Cardinality(dirty') <= Cardinality(dirty)
            BY <1>3, <3>1, FinitePeers, FS_Subset
        <3> QED BY <1>2, <2>1, <2>3, <3>2 DEF CountQuarantined, QuarantinedCovers, TypeOK
    <2> QED BY <2>2, <2>3
<1>13. QuarantineIsTemporary' /\ GraceRespected'
    BY <1>1, <1>4, <1>5 DEF QuarantineIsTemporary, GraceRespected
<1> QED BY <1>5, <1>10, <1>11, <1>12, <1>13

(* lift_reports preserves it. *)
LEMMA QuarantineCheckInv ==
    ASSUME Inv, QuarantineCheck
    PROVE  Inv'
<1> USE DEF Inv
<1>1. /\ records' = records \ Lifted
      /\ older' = [n \in Nodes |-> older[n] \ Lifted]
      /\ grace' = grace \cup Lifted
      /\ dirty' = dirty \ Promoted
      /\ pool' \in Put(pool, Promoted, PoolSize)
      /\ UNCHANGED <<trusted, view, age>>
      /\ IF Promoted = {} THEN UNCHANGED available ELSE CountAvailable
      /\ quarantined' = quarantined - Cardinality(Promoted)
      /\ quiet' = 0 \/ quiet' = quiet
    BY DEF QuarantineCheck
<1>2. attempts' \in [Nodes -> 0..MaxAttempts]
    <2>1. PICK C : Attempt(C)
        BY DEF QuarantineCheck
    <2> QED BY <2>1, TopologyAssumption DEF Attempt, TypeOK
<1>3. /\ pool \subseteq Nodes /\ trusted \subseteq Nodes /\ dirty \subseteq Nodes
      /\ Lifted \subseteq records /\ records \subseteq Nodes
      /\ Promoted = Lifted \cap dirty /\ Promoted \subseteq Nodes
    BY DEF TypeOK, Lifted, Promoted
<1> HIDE DEF Inv
<1>4. /\ pool' \subseteq pool \cup Promoted /\ pool' \subseteq Nodes
      /\ Cardinality(pool') <= PoolSize
      /\ Promoted = {} => pool' = pool
    BY <1>1, <1>3, PutResult DEF Inv
<1>5. pool' \cap trusted' = {} /\ (pool' \cup trusted') \cap dirty' = {}
    BY <1>1, <1>3, <1>4 DEF AvailableExact, Available, Inv
<1>6. available' = Cardinality(pool' \cup trusted')
    <2>1. CASE Promoted = {}
        BY <1>1, <1>4, <2>1 DEF AvailableExact, Available, Inv
    <2>2. CASE Promoted # {}
        BY <1>1, <1>3, <1>4, <1>5, <2>2, CountIsExact DEF CountAvailable
    <2> QED BY <2>1, <2>2
<1>7. available' \in Nat
    BY <1>1, <1>3, <1>4, <1>6, FinitePeers
<1>8. quarantined' \in Nat /\ QuarantinedCovers'
    <2>1. /\ IsFiniteSet(dirty) /\ Cardinality(dirty) \in Nat
          /\ Cardinality(Promoted) \in Nat /\ Cardinality(dirty') \in Nat
        BY <1>1, <1>3, FinitePeers
    <2>2. Cardinality(dirty \ Promoted) = Cardinality(dirty) - Cardinality(dirty \cap Promoted)
        BY <2>1, FS_Difference
    <2>3. dirty \cap Promoted = Promoted
        BY <1>3
    <2>4. quarantined \in Nat /\ Cardinality(dirty) <= quarantined
        BY DEF Inv, TypeOK, QuarantinedCovers
    <2>5. Cardinality(dirty') = Cardinality(dirty) - Cardinality(Promoted)
        BY <1>1, <2>2, <2>3
    <2> QED BY <1>1, <2>1, <2>4, <2>5 DEF QuarantinedCovers
<1>9. older' \in [Nodes -> SUBSET Nodes]
    BY <1>1 DEF TypeOK, Inv
<1>10. TypeOK'
    BY <1>1, <1>2, <1>3, <1>4, <1>7, <1>8, <1>9, TopologyAssumption DEF TypeOK, Inv
<1>11. AvailableExact'
    BY <1>5, <1>6 DEF AvailableExact, Available
<1>12. QuarantineIsTemporary' /\ GraceRespected'
    BY <1>1, <1>3 DEF QuarantineIsTemporary, GraceRespected, Inv
<1> QED BY <1>4, <1>8, <1>10, <1>11, <1>12 DEF Inv

(* Every step of the topology task and of the attempts preserves it.       *)
LEMMA NextInv == Inv /\ [Next]_vars => Inv'
<1> SUFFICES ASSUME Inv, [Next]_vars PROVE Inv'
    OBVIOUS
<1>1. ASSUME NEW n \in Nodes, AttemptEnds(n) PROVE attempts' \in [Nodes -> 0..MaxAttempts]
    BY <1>1, TopologyAssumption DEF AttemptEnds, Inv, TypeOK
<1>2. ASSUME attempts' \in [Nodes -> 0..MaxAttempts],
             UNCHANGED <<pools, view, reports, available, quarantined, quiet>>
      PROVE  Inv'
    BY <1>2 DEF Inv, TypeOK, pools, reports, AvailableExact, Available, QuarantinedCovers,
                QuarantineIsTemporary, GraceRespected
<1>3. ASSUME NEW S \in SUBSET Nodes, AcceptGossips(S) PROVE Inv'
    BY <1>3, AcceptGossipsInv
<1>4. CASE QuarantineCheck
    BY <1>4, QuarantineCheckInv
<1>5. CASE GossipTick
    <2>1. PICK C : Attempt(C)
        BY <1>5 DEF GossipTick
    <2>2. attempts' \in [Nodes -> 0..MaxAttempts]
        BY <2>1, TopologyAssumption DEF Attempt, Inv, TypeOK
    <2> QED BY <1>2, <1>5, <2>2 DEF GossipTick
<1>6. ASSUME NEW n \in Nodes, AttemptFails(n) PROVE Inv'
    <2>1. CASE ReportTaken(n)
        BY <1>1, <1>6, <2>1, ReportTakenInv DEF AttemptFails
    <2>2. CASE ReportIgnored(n)
        BY <1>1, <1>2, <1>6, <2>2 DEF AttemptFails, ReportIgnored
    <2> QED BY <1>6, <2>1, <2>2 DEF AttemptFails
<1>7. ASSUME NEW n \in Nodes, AttemptSucceeds(n) PROVE Inv'
    BY <1>1, <1>7, PromoteNodeInv DEF AttemptSucceeds
<1>8. ASSUME NEW n \in Nodes, InboundPromotes(n) PROVE Inv'
    <2>1. attempts' \in [Nodes -> 0..MaxAttempts]
        BY <1>8 DEF InboundPromotes, Inv, TypeOK
    <2> QED BY <1>8, <2>1, PromoteNodeInv DEF InboundPromotes
<1>9. CASE Tick
    <2>1. UNCHANGED <<pool, trusted, dirty, view, records, older, grace, available, quarantined, attempts>>
        BY <1>9 DEF Tick, pools
    <2>2. age' \in [Nodes -> 0..ReportDuration]
        BY <1>9, TopologyAssumption DEF Tick, Inv, TypeOK
    <2>3. quiet' \in 0..StuckCheck + 1
        BY <1>9, TopologyAssumption DEF Tick, Inv, TypeOK
    <2> QED BY <2>1, <2>2, <2>3 DEF Inv, TypeOK, AvailableExact, Available, QuarantinedCovers,
                                   QuarantineIsTemporary, GraceRespected
<1>10. CASE UNCHANGED vars
    <2>1. attempts' \in [Nodes -> 0..MaxAttempts]
        BY <1>10 DEF vars, Inv, TypeOK
    <2> QED BY <1>2, <1>10, <2>1 DEF vars
<1> QED BY <1>3, <1>4, <1>5, <1>6, <1>7, <1>8, <1>9, <1>10 DEF Next

(* The invariant holds in every reachable state.                           *)
LEMMA AlwaysInv == Spec => []Inv
BY InitInv, NextInv, PTL DEF Spec

(* The metric of the available peers is exact and no peer is both          *)
(* available and quarantined, whichever pools overflow (P2pTopology).      *)
THEOREM MetricIsExact == Spec => []AvailableExact
<1>1. Inv => AvailableExact
    BY DEF Inv
<1> QED BY <1>1, AlwaysInv, PTL

(* lift_reports never takes the metric of the quarantined peers below      *)
(* their number, hence never below zero.                                   *)
THEOREM MetricCovers == Spec => []QuarantinedCovers
<1>1. Inv => QuarantinedCovers
    BY DEF Inv
<1> QED BY <1>1, AlwaysInv, PTL

(* A quarantined peer always has a report that will be lifted, and is not  *)
(* in the layers peers are contacted from.                                 *)
THEOREM QuarantineAlwaysRecorded == Spec => []QuarantineIsTemporary
<1>1. Inv => QuarantineIsTemporary
    BY DEF Inv
<1> QED BY <1>1, AlwaysInv, PTL

(* A peer in the grace list is neither reported nor quarantined, whichever *)
(* attempts fail late.                                                     *)
THEOREM GraceAlwaysRespected == Spec => []GraceRespected
<1>1. Inv => GraceRespected
    BY DEF Inv
<1> QED BY <1>1, AlwaysInv, PTL
=============================================================================
