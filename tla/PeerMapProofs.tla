---------------------------- MODULE PeerMapProofs ----------------------------
(***************************************************************************)
(* Proofs about PeerMap, for every set of peers, number of connection      *)
(* tasks, kinds of items, capacity other than 0 and limit of clients.      *)
(***************************************************************************)
EXTENDS PeerMap, FiniteSetTheorems, TLAPS

(* A peer that has no entry has no handles. *)
BlankOutside == \A n \in Nodes \ members : entry[n] = Blank

(* HandlesAlive and PendingIsWatched for one entry. *)
Alive(n) ==
    \A c \in Conns :
        /\ entry[n].connecting = c =>
             conn[c].node = n /\ conn[c].status \in {"connecting", "delivered"}
        /\ (\E h \in Handles : entry[n].comms[h] = c) =>
             conn[c].node = n /\ conn[c].status \in {"delivered", "running"}

Watched(n) ==
    \A k \in Kinds :
        entry[n].comms[k] = "pending" =>
          \/ entry[n].connecting \in Conns
          \/ \E c \in Conns : conn[c].status = "failing" /\ conn[c].node = n

(* The entries that are not in the map count as well: an entry that is     *)
(* added starts from Blank.  What is watched depends on what is alive: a   *)
(* task that ends takes its handle along, so it must not be the one an     *)
(* item of another peer waits for.                                         *)
IInv ==
    /\ TypeOK
    /\ BlankOutside
    /\ \A n \in Nodes : Alive(n) /\ Watched(n)
    /\ MapBounded
    /\ GaugeCovers

LEMMA Constants ==
  /\ Capacity \in Nat /\ Capacity >= 1
  /\ Blank \in Entry
  /\ Free \in Conn /\ Free.status = "free"
  /\ \A k \in Kinds : k \in Handles
  BY SizeAssumption, NameAssumption DEF Blank, Entry, Free, Conn, Status, Channel, Handles

(* Facts about the sizes of the map. *)
LEMMA Sizes ==
  ASSUME NEW M \in SUBSET Nodes
  PROVE  /\ IsFiniteSet(M)
         /\ Cardinality(M) \in Nat
         /\ \A x : Cardinality(M \cup {x}) = IF x \in M THEN Cardinality(M) ELSE Cardinality(M) + 1
         /\ \A x : Cardinality(M \ {x}) = IF x \in M THEN Cardinality(M) - 1 ELSE Cardinality(M)
         /\ \A x \in M : Cardinality(M) >= 1
         /\ \A S \in SUBSET M : Cardinality(S) <= Cardinality(M) /\ Cardinality(S) \in Nat
<1>1. IsFiniteSet(M)
  BY NameAssumption, FS_Subset
<1>2. Cardinality(M) \in Nat
  BY <1>1, FS_CardinalityType
<1>3. \A x : Cardinality(M \cup {x}) = IF x \in M THEN Cardinality(M) ELSE Cardinality(M) + 1
  BY <1>1, FS_AddElement
<1>4. \A x : Cardinality(M \ {x}) = IF x \in M THEN Cardinality(M) - 1 ELSE Cardinality(M)
  BY <1>1, FS_RemoveElement
<1>5. \A x \in M : Cardinality(M) >= 1
  <2> TAKE x \in M
  <2>1. Cardinality(M) # 0
    BY <1>1, FS_EmptySet
  <2> QED
    BY <1>2, <2>1
<1>6. \A S \in SUBSET M : Cardinality(S) <= Cardinality(M) /\ Cardinality(S) \in Nat
  BY <1>1, FS_Subset, FS_CardinalityType
<1> QED
  BY <1>1, <1>2, <1>3, <1>4, <1>5, <1>6

LEMMA InitIInv == Init => IInv
<1> SUFFICES ASSUME Init PROVE IInv
  OBVIOUS
<1>1. TypeOK
  BY Constants DEF Init, TypeOK
<1>2. \A n \in Nodes : Alive(n) /\ Watched(n)
  BY Constants, NameAssumption DEF Init, Alive, Watched, Blank, Handles
<1>3. Cardinality(members) = 0
  BY FS_EmptySet DEF Init
<1> QED
  BY <1>1, <1>2, <1>3, Constants DEF Init, IInv, BlankOutside, MapBounded, GaugeCovers

----------------------------------------------------------------------------
(* The building blocks of the actions *)

LEMMA KeepType == 
  ASSUME TypeOK
  PROVE  /\ \A M \in SUBSET Nodes : Keep(M) \in [Nodes -> SUBSET Nodes]
         /\ \A M \in SUBSET Nodes, n \in Nodes : PutLast(M, n) \in [Nodes -> SUBSET Nodes]
  BY DEF TypeOK, Keep, PutLast

(* An entry is well typed after its status was updated; a handle it has    *)
(* then was its own before; and an item that still waits is still watched. *)
LEMMA UpdateKeepsEntry ==
  ASSUME IInv, NEW n \in Nodes, NEW e, e = UpdateCommStatus(entry[n])
  PROVE  /\ e \in Entry
         /\ e.connecting = "none" \/ (e = entry[n] /\ Connecting(entry[n]))
         /\ \A c \in Conns : e.connecting = c => entry[n].connecting = c
         /\ \A c \in Conns, h \in Handles :
              e.comms[h] = c => \/ entry[n].comms[h] = c
                                \/ entry[n].connecting = c /\ conn[c].status = "delivered"
         /\ \A k \in Kinds : e.comms[k] = "pending" =>
              /\ entry[n].comms[k] = "pending"
              /\ e.connecting = entry[n].connecting \/ entry[n].connecting \notin Conns
<1>1. entry[n] \in Entry
  BY DEF IInv, TypeOK
<1>2. CASE Connecting(entry[n])
  <2>1. e = entry[n]
    BY <1>2 DEF UpdateCommStatus
  <2> QED
    BY <2>1, <1>1, <1>2
<1>3. CASE ~Connecting(entry[n]) /\ entry[n].connecting \in Conns
  <2> DEFINE c0 == entry[n].connecting
  <2>1. e = [connecting |-> "none", comms |-> [k \in Handles |-> c0], client |-> {}]
    BY <1>3 DEF UpdateCommStatus
  <2>2. c0 \in Conns /\ conn[c0].status = "delivered"
    BY <1>3 DEF Connecting
  <2>3. e \in Entry
    BY <2>1, <2>2 DEF Entry, Channel
  <2>4. e.connecting = "none" /\ \A h \in Handles : e.comms[h] = c0
    BY <2>1
  <2>5. \A k \in Kinds : e.comms[k] # "pending"
    BY <2>2, <2>4, Constants, NameAssumption
  <2> QED
    BY <2>2, <2>3, <2>4, <2>5, NameAssumption
<1>4. CASE ~Connecting(entry[n]) /\ entry[n].connecting \notin Conns
  <2>1. e = [entry[n] EXCEPT !.connecting = "none"]
    BY <1>4 DEF UpdateCommStatus
  <2>2. e \in Entry /\ e.connecting = "none" /\ e.comms = entry[n].comms
    BY <1>1, <2>1 DEF Entry
  <2> QED
    BY <2>2, <1>4, NameAssumption
<1> QED
  BY <1>2, <1>3, <1>4

(* The facts of Alive and Watched, for an entry e of n in place of the     *)
(* one in the map.                                                         *)
Fits(n, e) ==
    /\ \A c \in Conns :
         /\ e.connecting = c =>
              conn[c].node = n /\ conn[c].status \in {"connecting", "delivered"}
         /\ (\E h \in Handles : e.comms[h] = c) =>
              conn[c].node = n /\ conn[c].status \in {"delivered", "running"}
    /\ \A k \in Kinds :
         e.comms[k] = "pending" =>
           \/ e.connecting \in Conns
           \/ \E c \in Conns : conn[c].status = "failing" /\ conn[c].node = n

LEMMA BlankFits == \A n \in Nodes : Fits(n, Blank)
  BY Constants, NameAssumption DEF Fits, Blank, Handles

LEMMA EntryFits ==
  ASSUME IInv
  PROVE  \A n \in Nodes : Fits(n, entry[n])
  BY DEF IInv, Alive, Watched, Fits

LEMMA UpdateFits ==
  ASSUME IInv, NEW n \in Nodes
  PROVE  UpdateCommStatus(entry[n]) \in Entry /\ Fits(n, UpdateCommStatus(entry[n]))
<1> DEFINE e == UpdateCommStatus(entry[n])
<1>1. e = UpdateCommStatus(entry[n])
  OBVIOUS
<1> HIDE DEF e
<1>2. Fits(n, entry[n])
  BY EntryFits
<1>3. e \in Entry /\ Fits(n, e)
  BY <1>1, <1>2, UpdateKeepsEntry DEF Fits
<1> QED
  BY <1>1, <1>3

(* Every step that leaves the connection tasks alone.                      *)
LEMMA FitsEnough ==
  ASSUME IInv, UNCHANGED conn, TypeOK', BlankOutside', MapBounded', GaugeCovers',
         \A n \in Nodes : Fits(n, entry'[n])
  PROVE  IInv'
  BY DEF IInv, Fits, Alive, Watched

(* RemovePeer keeps types, sizes and what is said of the other entries.    *)
LEMMA RemovePeerFacts ==
  ASSUME IInv, NEW n \in Nodes, RemovePeer(n)
  PROVE  /\ members' \in SUBSET Nodes /\ members' = members \ {n}
         /\ older' \in [Nodes -> SUBSET Nodes]
         /\ entry' \in [Nodes -> Entry]
         /\ gauge' \in Nat
         /\ entry'[n] = Blank /\ \A m \in Nodes \ {n} : entry'[m] = entry[m]
         /\ BlankOutside'
         /\ MapBounded'
         /\ GaugeCovers'
<1>1. members' = members \ {n} /\ members \in SUBSET Nodes /\ gauge \in Nat
        /\ entry \in [Nodes -> Entry]
  BY DEF RemovePeer, IInv, TypeOK
<1>2. older' \in [Nodes -> SUBSET Nodes]
  BY <1>1, KeepType DEF RemovePeer, IInv
<1>3. /\ entry' \in [Nodes -> Entry]
      /\ entry'[n] = Blank /\ \A m \in Nodes \ {n} : entry'[m] = entry[m]
  BY <1>1, Constants DEF RemovePeer
<1>4. BlankOutside'
  BY <1>1, <1>3 DEF BlankOutside, IInv
<1>5. /\ Cardinality(members) \in Nat
      /\ Cardinality(members') = IF n \in members THEN Cardinality(members) - 1
                                 ELSE Cardinality(members)
      /\ n \in members => Cardinality(members) >= 1
  BY <1>1, Sizes
<1>6. gauge' = IF n \in members THEN gauge - 1 ELSE gauge
  BY DEF RemovePeer
<1>7. gauge' \in Nat /\ Cardinality(members') <= gauge' /\ Cardinality(members') <= Capacity
  BY <1>1, <1>5, <1>6, Constants DEF IInv, GaugeCovers, MapBounded
<1> QED
  BY <1>1, <1>2, <1>3, <1>4, <1>7 DEF GaugeCovers, MapBounded

(* Adding a peer keeps the map within its limits.                          *)
LEMMA AddPeerSizes ==
  ASSUME IInv, NEW n \in Nodes, NEW M \in SUBSET members, NEW E \in Evicted(M, n)
  PROVE  /\ E \in SUBSET M /\ Cardinality(E) \in Nat
         /\ n \in M => E = {}
         /\ Cardinality((M \ E) \cup {n}) <= Capacity
         /\ LET g == IF n \in M THEN gauge ELSE gauge + 1 - Cardinality(E)
            IN  g \in Nat /\ Cardinality((M \ E) \cup {n}) <= g
<1>1. /\ members \in SUBSET Nodes /\ M \in SUBSET Nodes /\ gauge \in Nat
      /\ Cardinality(members) <= Capacity /\ Cardinality(members) <= gauge
  BY DEF IInv, TypeOK, MapBounded, GaugeCovers
<1>2. Cardinality(M) \in Nat /\ Cardinality(members) \in Nat
        /\ Cardinality(M) <= Cardinality(members)
  BY <1>1, Sizes
<1>3. CASE n \in M
  <2>1. E = {} /\ (M \ E) \cup {n} = M
    BY <1>3 DEF Evicted
  <2>2. Cardinality(E) = 0
    BY <2>1, FS_EmptySet
  <2>3. Cardinality((M \ E) \cup {n}) = Cardinality(M)
    BY <2>1
  <2>4. Cardinality(M) <= Capacity /\ Cardinality(M) <= gauge
    BY <1>1, <1>2, Constants
  <2> QED
    BY <1>1, <1>2, <1>3, <2>1, <2>2, <2>3, <2>4
<1>4. CASE n \notin M /\ Cardinality(M) >= Capacity
  <2>1. PICK f \in M : E = {f}
    BY <1>4 DEF Evicted
  <2>2. Cardinality(M \ {f}) = Cardinality(M) - 1 /\ Cardinality(M) >= 1
    BY <1>1, <2>1, Sizes
  <2>3. Cardinality((M \ {f}) \cup {n}) = Cardinality(M)
    <3>1. M \ {f} \in SUBSET Nodes /\ n \notin M \ {f}
      BY <1>1, <1>4
    <3>2. Cardinality((M \ {f}) \cup {n}) = Cardinality(M \ {f}) + 1
      BY <3>1, Sizes
    <3> QED
      BY <3>2, <2>2, <1>2
  <2>4. Cardinality({f}) = 1
    BY FS_Singleton
  <2> QED
    BY <1>1, <1>2, <1>4, <2>1, <2>2, <2>3, <2>4, Constants
<1>5. CASE n \notin M /\ ~(Cardinality(M) >= Capacity)
  <2>1. E = {} /\ (M \ E) \cup {n} = M \cup {n}
    BY <1>5 DEF Evicted
  <2>2. Cardinality({}) = 0 /\ Cardinality(M \cup {n}) = Cardinality(M) + 1
    BY <1>1, <1>5, Sizes, FS_EmptySet
  <2> QED
    BY <1>1, <1>2, <1>5, <2>1, <2>2, Constants
<1> QED
  BY <1>3, <1>4, <1>5

----------------------------------------------------------------------------
(* Steps that leave the connection tasks alone *)

LEMMA PropagateSentIInv ==
  ASSUME IInv, NEW n \in Nodes, NEW k \in Kinds, PropagateSent(n, k)
  PROVE  IInv'
<1> DEFINE e == UpdateCommStatus(entry[n])
           f == [e EXCEPT !.comms[k] = "pending", !.client = @ \cup {k}]
<1>1. e \in Entry /\ Fits(n, e)
  BY UpdateFits
<1>2. /\ n \in members
      /\ \/ Connecting(e) /\ entry' = [entry EXCEPT ![n] = f]
         \/ entry' = [entry EXCEPT ![n] = e]
      /\ UNCHANGED <<members, older, gauge, conn, known, fetch>>
  BY DEF PropagateSent
<1> HIDE DEF e
<1>3. Connecting(e) => f \in Entry /\ Fits(n, f)
  <2> SUFFICES ASSUME Connecting(e) PROVE f \in Entry /\ Fits(n, f)
    OBVIOUS
  <2>1. /\ f.connecting = e.connecting /\ f.client = e.client \cup {k}
        /\ f.comms = [e.comms EXCEPT ![k] = "pending"]
        /\ f \in [connecting : Conns \cup {"none", "dropped"},
                  comms : {f.comms}, client : SUBSET Kinds]
    BY <1>1 DEF Entry
  <2>2. f.comms \in [Handles -> Channel]
    BY <1>1, <2>1 DEF Entry, Channel
  <2>3. f \in Entry
    BY <2>1, <2>2 DEF Entry
  <2>4. \A h \in Handles : f.comms[h] = "pending" \/ f.comms[h] = e.comms[h]
    BY <1>1, <2>1 DEF Entry
  <2>5. Fits(n, f)
    BY <1>1, <2>1, <2>4, NameAssumption DEF Fits, Connecting
  <2> QED
    BY <2>3, <2>5
<1> HIDE DEF f
<1>4. PICK g \in Entry : entry' = [entry EXCEPT ![n] = g] /\ Fits(n, g)
  BY <1>1, <1>2, <1>3
<1>5. entry \in [Nodes -> Entry] /\ \A m \in Nodes : Fits(m, entry[m])
  BY EntryFits DEF IInv, TypeOK
<1>6. entry' \in [Nodes -> Entry] /\ \A m \in Nodes : Fits(m, entry'[m])
  BY <1>4, <1>5
<1>7. TypeOK' /\ BlankOutside' /\ MapBounded' /\ GaugeCovers'
  BY <1>2, <1>4, <1>5, <1>6 DEF IInv, TypeOK, BlankOutside, MapBounded, GaugeCovers
<1> QED
  BY <1>2, <1>6, <1>7, FitsEnough

(* UpdateEntry, of a peer in the map. *)
LEMMA UpdateEntryIInv ==
  ASSUME IInv, NEW n \in members, UpdateEntry(n), UNCHANGED <<conn, known>>,
         fetch' \in SUBSET Nodes
  PROVE  IInv'
<1>1. n \in Nodes /\ entry \in [Nodes -> Entry] /\ \A m \in Nodes : Fits(m, entry[m])
  BY EntryFits DEF IInv, TypeOK
<1>2. PICK g \in Entry : entry' = [entry EXCEPT ![n] = g] /\ Fits(n, g)
  BY <1>1, UpdateFits DEF UpdateEntry
<1>3. entry' \in [Nodes -> Entry] /\ \A m \in Nodes : Fits(m, entry'[m])
  BY <1>1, <1>2
<1>4. TypeOK' /\ BlankOutside' /\ MapBounded' /\ GaugeCovers'
  BY <1>1, <1>2, <1>3 DEF IInv, TypeOK, BlankOutside, MapBounded, GaugeCovers, UpdateEntry
<1> QED
  BY <1>3, <1>4, FitsEnough

LEMMA ChoosePeerIInv ==
  ASSUME IInv, NEW n \in Nodes, ChoosePeer(n)
  PROVE  IInv'
<1>1. n \in members /\ UpdateEntry(n) /\ UNCHANGED <<conn, known>> /\ fetch' \in SUBSET Nodes
  BY DEF ChoosePeer
<1> QED
  BY <1>1, UpdateEntryIInv

LEMMA RequestIInv ==
  ASSUME IInv, NEW n \in Nodes, Request(n)
  PROVE  IInv'
<1>1. UNCHANGED <<conn, known>> /\ fetch' \in SUBSET Nodes
  BY DEF Request
<1>2. \/ n \in members /\ UpdateEntry(n)
      \/ RemovePeer(n)
      \/ UNCHANGED <<members, older, entry, gauge>>
  BY DEF Request
<1>3. CASE n \in members /\ UpdateEntry(n)
  BY <1>1, <1>3, UpdateEntryIInv
<1>4. CASE RemovePeer(n)
  <2>1. \A m \in Nodes : Fits(m, entry'[m])
    BY <1>4, RemovePeerFacts, EntryFits, BlankFits
  <2>2. TypeOK' /\ BlankOutside' /\ MapBounded' /\ GaugeCovers'
    BY <1>1, <1>4, RemovePeerFacts DEF IInv, TypeOK
  <2> QED
    BY <1>1, <2>1, <2>2, FitsEnough
<1>5. CASE UNCHANGED <<members, older, entry, gauge>>
  BY <1>1, <1>5
     DEF IInv, TypeOK, BlankOutside, MapBounded, GaugeCovers, Alive, Watched
<1> QED
  BY <1>2, <1>3, <1>4, <1>5

LEMMA HandshakeIInv ==
  ASSUME IInv, NEW n \in Nodes, Handshake(n)
  PROVE  IInv'
<1> DEFINE e == UpdateCommStatus(entry[n])
<1>1. e \in Entry /\ Fits(n, e)
  BY UpdateFits
<1>2. PICK E \in Evicted(members, n) :
        /\ members' = (members \ E) \cup {n}
        /\ older' = IF n \in members THEN older ELSE PutLast(members \ E, n)
        /\ entry' = [m \in Nodes |-> IF m = n THEN e
                                     ELSE IF m \in E THEN Blank ELSE entry[m]]
        /\ gauge' = IF n \in members THEN gauge ELSE gauge + 1 - Cardinality(E)
  BY DEF Handshake
<1>3. /\ known' \in SUBSET Nodes /\ fetch' \in SUBSET Nodes /\ UNCHANGED conn
      /\ members \in SUBSET Nodes /\ entry \in [Nodes -> Entry]
      /\ older \in [Nodes -> SUBSET Nodes]
  BY DEF Handshake, IInv, TypeOK
<1> HIDE DEF e
<1>4. /\ E \in SUBSET members
      /\ Cardinality(members') <= Capacity
      /\ gauge' \in Nat /\ Cardinality(members') <= gauge'
  BY <1>2, AddPeerSizes
<1>5. older' \in [Nodes -> SUBSET Nodes] /\ members' \in SUBSET Nodes
  BY <1>2, <1>3, KeepType DEF IInv
<1>6. entry' \in [Nodes -> Entry] /\ \A m \in Nodes : Fits(m, entry'[m])
  BY <1>1, <1>2, <1>3, EntryFits, BlankFits, Constants
<1>7. BlankOutside'
  BY <1>2, <1>3 DEF IInv, BlankOutside
<1>8. TypeOK' /\ MapBounded' /\ GaugeCovers'
  BY <1>3, <1>4, <1>5, <1>6 DEF IInv, TypeOK, MapBounded, GaugeCovers
<1> QED
  BY <1>3, <1>6, <1>7, <1>8, FitsEnough

LEMMA SubscribeIInv ==
  ASSUME IInv, NEW n \in Nodes, NEW k \in Kinds, Subscribe(n, k)
  PROVE  IInv'
<1> DEFINE e == entry[n]
           cs == [h \in Handles |->
                    IF h = k \/ (k = BlockKind /\ h = "request") THEN "inbound"
                    ELSE IF e.comms[h] = "pending" THEN "none"
                    ELSE e.comms[h]]
           f == [e EXCEPT !.connecting = "none", !.comms = cs]
<1>1. entry \in [Nodes -> Entry] /\ e \in Entry /\ Fits(n, e)
        /\ \A m \in Nodes : Fits(m, entry[m])
  BY EntryFits DEF IInv, TypeOK
<1>2. n \in members /\ UNCHANGED <<members, older, gauge, conn, known, fetch>>
  BY DEF Subscribe
<1>3. entry' = [entry EXCEPT ![n] = f]
  BY <1>1 DEF Subscribe
<1>4. \A h \in Handles : cs[h] \in {"inbound", "none"} \/ (cs[h] = e.comms[h] /\ cs[h] # "pending")
  BY <1>1 DEF Entry
<1>5. cs \in [Handles -> Channel]
  BY <1>1 DEF Entry, Channel
<1> HIDE DEF e, cs
<1>6. f \in Entry /\ f.connecting = "none" /\ f.comms = cs
  BY <1>1, <1>5 DEF Entry
<1> HIDE DEF f
<1>7. Fits(n, f)
  BY <1>1, <1>4, <1>6, Constants, NameAssumption DEF Fits
<1>8. entry' \in [Nodes -> Entry] /\ \A m \in Nodes : Fits(m, entry'[m])
  BY <1>1, <1>3, <1>6, <1>7
<1>9. TypeOK' /\ BlankOutside' /\ MapBounded' /\ GaugeCovers'
  BY <1>1, <1>2, <1>3, <1>8 DEF IInv, TypeOK, BlankOutside, MapBounded, GaugeCovers
<1> QED
  BY <1>2, <1>8, <1>9, FitsEnough

LEMMA RefreshIInv ==
  ASSUME IInv, NEW n \in Nodes, Refresh(n)
  PROVE  IInv'
<1>1. older' \in [Nodes -> SUBSET Nodes]
  BY KeepType DEF Refresh, IInv, TypeOK
<1> QED
  BY <1>1 DEF Refresh, IInv, TypeOK, BlankOutside, MapBounded, GaugeCovers, Alive, Watched

----------------------------------------------------------------------------
(* Steps of a connection task *)

(* What a step of task c leaves true of a peer it does not concern.        *)
LEMMA OthersStay ==
  ASSUME IInv, NEW c \in Conns, NEW m \in Nodes,
         \A d \in Conns \ {c} : conn'[d] = conn[d],
         \/ entry'[m] = Blank
         \/ /\ entry'[m] = entry[m]
            /\ entry[m].connecting # c
            /\ \A h \in Handles : entry[m].comms[h] # c
            /\ conn[c].status = "failing" => conn[c].node # m
  PROVE  Alive(m)' /\ Watched(m)'
<1>1. CASE entry'[m] = Blank
  BY <1>1, Constants, NameAssumption DEF Alive, Watched, Blank, Handles
<1>2. CASE /\ entry'[m] = entry[m]
           /\ entry[m].connecting # c
           /\ \A h \in Handles : entry[m].comms[h] # c
           /\ conn[c].status = "failing" => conn[c].node # m
  BY <1>2 DEF IInv, Alive, Watched
<1> QED
  BY <1>1, <1>2

(* No entry holds a handle of a task that has not begun, or has failed; a  *)
(* task holds handles of one entry only; and so on.                        *)
LEMMA HoldersOf ==
  ASSUME IInv, NEW c \in Conns, NEW m \in Nodes
  PROVE  /\ entry[m].connecting = c =>
              conn[c].node = m /\ conn[c].status \in {"connecting", "delivered"}
         /\ \A h \in Handles : entry[m].comms[h] = c =>
              conn[c].node = m /\ conn[c].status \in {"delivered", "running"}
  BY DEF IInv, Alive

LEMMA PropagateFailedIInv ==
  ASSUME IInv, NEW n \in Nodes, NEW k \in Kinds, NEW c \in Conns, PropagateFailed(n, k, c)
  PROVE  IInv'
<1>1. /\ RemovePeer(n) /\ conn[c].status = "free" /\ UNCHANGED <<known, fetch>>
      /\ conn' = [conn EXCEPT ![c] = [status |-> "unreached", node |-> n, kind |-> k, evict |-> 0]]
  BY DEF PropagateFailed
<1>2. conn \in [Conns -> Conn]
  BY DEF IInv, TypeOK
<1>3. conn' \in [Conns -> Conn] /\ \A d \in Conns \ {c} : conn'[d] = conn[d]
  BY <1>1, <1>2 DEF Conn, Status
<1>4. \A m \in Nodes : Alive(m)' /\ Watched(m)'
  <2> TAKE m \in Nodes
  <2>1. entry'[m] = Blank \/ entry'[m] = entry[m]
    BY <1>1, RemovePeerFacts
  <2>2. entry[m].connecting # c /\ \A h \in Handles : entry[m].comms[h] # c
    BY <1>1, HoldersOf
  <2> QED
    BY <1>1, <1>3, <2>1, <2>2, OthersStay
<1>5. TypeOK' /\ BlankOutside' /\ MapBounded' /\ GaugeCovers'
  BY <1>1, <1>3, RemovePeerFacts DEF IInv, TypeOK
<1> QED
  BY <1>4, <1>5 DEF IInv

LEMMA SpawnIInv ==
  ASSUME IInv, NEW c \in Conns, Spawn(c)
  PROVE  IInv'
<1>1. /\ conn[c].status = "unreached" /\ UNCHANGED <<members, older, entry, gauge, known, fetch>>
      /\ conn' = [conn EXCEPT ![c].status = "spawned", ![c].evict = ClientsToBump]
  BY DEF Spawn
<1>2. conn \in [Conns -> Conn]
  BY DEF IInv, TypeOK
<1>3. ClientsToBump \in Nat
  <2>1. IsFiniteSet({d \in Conns : conn[d].status = "running"})
    BY NameAssumption, FS_Subset
  <2>2. ClientCount \in Nat
    BY <2>1, FS_CardinalityType DEF ClientCount
  <2> QED
    BY <2>2, SizeAssumption DEF ClientsToBump
<1>4. conn' \in [Conns -> Conn] /\ \A d \in Conns \ {c} : conn'[d] = conn[d]
  BY <1>1, <1>2, <1>3 DEF Conn, Status
<1>5. \A m \in Nodes : Alive(m)' /\ Watched(m)'
  <2> TAKE m \in Nodes
  <2>1. entry[m].connecting # c /\ \A h \in Handles : entry[m].comms[h] # c
    BY <1>1, HoldersOf
  <2> QED
    BY <1>1, <1>4, <2>1, OthersStay
<1> QED
  BY <1>1, <1>4, <1>5 DEF IInv, TypeOK, BlankOutside, MapBounded, GaugeCovers

LEMMA AddConnectingIInv ==
  ASSUME IInv, NEW c \in Conns, AddConnecting(c)
  PROVE  IInv'
<1> DEFINE n == conn[c].node
           k == conn[c].kind
           M == members \ FirstClients(conn[c].evict)
           e == IF n \in M THEN entry[n] ELSE Blank
           f == [connecting |-> c, comms |-> [e.comms EXCEPT ![k] = "pending"],
                 client |-> e.client \cup {k}]
<1>1. /\ conn[c].status = "spawned" /\ UNCHANGED <<known, fetch>>
      /\ conn' = [conn EXCEPT ![c].status = "connecting"]
  BY DEF AddConnecting
<1>2. PICK E \in Evicted(M, n) :
        /\ members' = (M \ E) \cup {n}
        /\ older' = IF n \in M THEN Keep(M) ELSE PutLast(M \ E, n)
        /\ entry' = [m \in Nodes |-> IF m = n THEN f
                                     ELSE IF m \in M \ E THEN entry[m] ELSE Blank]
        /\ gauge' = IF n \in M THEN gauge ELSE gauge + 1 - Cardinality(E)
  BY DEF AddConnecting
<1>3. /\ conn \in [Conns -> Conn] /\ n \in Nodes /\ k \in Kinds /\ M \in SUBSET members
      /\ members \in SUBSET Nodes /\ entry \in [Nodes -> Entry]
  BY DEF IInv, TypeOK, Conn
<1>4. e \in Entry /\ \A h \in Handles : e.comms[h] # c
  <2>1. CASE n \in M
    BY <1>1, <1>3, <2>1, HoldersOf
  <2>2. CASE n \notin M
    BY <2>2, Constants, NameAssumption DEF Blank
  <2> QED
    BY <2>1, <2>2
<1>5. conn'[c].node = n /\ conn'[c].status = "connecting"
        /\ conn' \in [Conns -> Conn] /\ \A d \in Conns \ {c} : conn'[d] = conn[d]
  BY <1>1, <1>3 DEF Conn, Status
<1>6. Fits(n, e)
  BY <1>3, EntryFits, BlankFits
<1> HIDE DEF n, k, M, e
<1>7. f \in Entry /\ f.connecting = c
        /\ \A h \in Handles : f.comms[h] = "pending" \/ f.comms[h] = e.comms[h]
  BY <1>3, <1>4 DEF Entry, Channel
<1> HIDE DEF f
<1>8. /\ E \in SUBSET M
      /\ Cardinality(members') <= Capacity
      /\ gauge' \in Nat /\ Cardinality(members') <= gauge'
  BY <1>2, <1>3, AddPeerSizes
<1>9. older' \in [Nodes -> SUBSET Nodes] /\ members' \in SUBSET Nodes
        /\ entry' \in [Nodes -> Entry]
  BY <1>2, <1>3, <1>7, KeepType, Constants DEF IInv
<1>10. \A m \in Nodes : Alive(m)' /\ Watched(m)'
  <2> TAKE m \in Nodes
  <2>1. CASE m = n
    <3>1. entry'[m] = f
      BY <1>2, <2>1
    <3>2. Alive(m)'
      BY <1>4, <1>5, <1>6, <1>7, <2>1, <3>1, NameAssumption DEF Alive, Fits
    <3>3. Watched(m)'
      BY <1>7, <3>1 DEF Watched
    <3> QED
      BY <3>2, <3>3
  <2>2. CASE m # n
    <3>1. entry'[m] = Blank \/ entry'[m] = entry[m]
      BY <1>2, <2>2
    <3>2. entry[m].connecting # c /\ \A h \in Handles : entry[m].comms[h] # c
      BY <1>1, HoldersOf
    <3> QED
      BY <1>1, <1>5, <3>1, <3>2, OthersStay
  <2> QED
    BY <2>1, <2>2
<1>11. BlankOutside'
  BY <1>2, <1>3 DEF BlankOutside
<1> QED
  BY <1>1, <1>5, <1>8, <1>9, <1>10, <1>11 DEF IInv, TypeOK, MapBounded, GaugeCovers

(* The task changes its own state only. *)
LEMMA ConnOnly ==
  ASSUME IInv, NEW c \in Conns, NEW x \in Conn, conn' = [conn EXCEPT ![c] = x]
  PROVE  /\ conn' \in [Conns -> Conn] /\ conn'[c] = x
         /\ \A d \in Conns \ {c} : conn'[d] = conn[d]
  BY DEF IInv, TypeOK

LEMMA StatusOnly ==
  ASSUME IInv, NEW c \in Conns, NEW x \in Status, conn' = [conn EXCEPT ![c].status = x]
  PROVE  /\ conn' \in [Conns -> Conn]
         /\ conn'[c].status = x /\ conn'[c].node = conn[c].node
         /\ \A d \in Conns \ {c} : conn'[d] = conn[d]
  BY DEF IInv, TypeOK, Conn

LEMMA CanceledIInv ==
  ASSUME IInv, NEW c \in Conns, Canceled(c)
  PROVE  IInv'
<1>1. /\ conn[c].status = "connecting" /\ entry[conn[c].node].connecting # c
      /\ conn' = [conn EXCEPT ![c] = Free]
      /\ UNCHANGED <<members, older, entry, gauge, known, fetch>>
  BY DEF Canceled
<1>2. conn' \in [Conns -> Conn] /\ \A d \in Conns \ {c} : conn'[d] = conn[d]
  BY <1>1, ConnOnly, Constants
<1>3. \A m \in Nodes : Alive(m)' /\ Watched(m)'
  <2> TAKE m \in Nodes
  <2>1. entry[m].connecting # c /\ \A h \in Handles : entry[m].comms[h] # c
    BY <1>1, HoldersOf
  <2> QED
    BY <1>1, <1>2, <2>1, OthersStay
<1> QED
  BY <1>1, <1>2, <1>3 DEF IInv, TypeOK, BlankOutside, MapBounded, GaugeCovers

LEMMA ConnectedIInv ==
  ASSUME IInv, NEW c \in Conns, Connected(c)
  PROVE  IInv'
<1>1. /\ conn[c].status = "connecting"
      /\ conn' = [conn EXCEPT ![c].status = "delivered"]
      /\ UNCHANGED <<members, older, entry, gauge, known, fetch>>
  BY DEF Connected
<1>2. /\ conn' \in [Conns -> Conn] /\ \A d \in Conns \ {c} : conn'[d] = conn[d]
      /\ conn'[c].status = "delivered" /\ conn'[c].node = conn[c].node
  BY <1>1, StatusOnly DEF Status
<1>3. \A m \in Nodes : Alive(m)' /\ Watched(m)'
  BY <1>1, <1>2 DEF IInv, Alive, Watched
<1> QED
  BY <1>1, <1>2, <1>3 DEF IInv, TypeOK, BlankOutside, MapBounded, GaugeCovers

LEMMA CloseChannelsFacts ==
  ASSUME NEW e \in Entry, NEW c \in Conns
  PROVE  LET f == CloseChannels(e, c) IN
         /\ f \in Entry
         /\ f.connecting = IF e.connecting = c THEN "dropped" ELSE e.connecting
         /\ \A h \in Handles : f.comms[h] = IF e.comms[h] = c THEN "closed" ELSE e.comms[h]
  BY DEF CloseChannels, Entry, Channel

(* The entry of a peer that is not in the map holds nothing to close. *)
LEMMA CloseBlank ==
  ASSUME NEW c \in Conns
  PROVE  CloseChannels(Blank, c) = Blank
<1> DEFINE cs == [k \in Handles |-> IF Blank.comms[k] = c THEN "closed" ELSE Blank.comms[k]]
<1>1. c # "none"
  BY NameAssumption
<1>2. Blank.connecting = "none" /\ Blank.comms = [k \in Handles |-> "none"]
  BY DEF Blank
<1>3. cs = Blank.comms
  BY <1>1, <1>2
<1>4. CloseChannels(Blank, c) = [Blank EXCEPT !.connecting = Blank.connecting, !.comms = cs]
  BY <1>1, <1>2 DEF CloseChannels
<1> HIDE DEF cs
<1> QED
  BY <1>3, <1>4 DEF Blank

LEMMA FailsIInv ==
  ASSUME IInv, NEW c \in Conns, Fails(c)
  PROVE  IInv'
<1> DEFINE n == conn[c].node
           f == CloseChannels(entry[n], c)
<1>1. /\ conn[c].status = "connecting" /\ entry[n].connecting = c
      /\ conn' = [conn EXCEPT ![c].status = "failing"]
      /\ entry' = [entry EXCEPT ![n] = f]
      /\ UNCHANGED <<members, older, gauge, known, fetch>>
  BY DEF Fails
<1>2. n \in Nodes /\ entry \in [Nodes -> Entry]
  BY DEF IInv, TypeOK, Conn
<1>3. /\ conn' \in [Conns -> Conn] /\ \A d \in Conns \ {c} : conn'[d] = conn[d]
      /\ conn'[c].status = "failing" /\ conn'[c].node = n
  BY <1>1, StatusOnly DEF Status
<1>4. f \in Entry /\ f.connecting = "dropped" /\ \A h \in Handles : f.comms[h] = entry[n].comms[h]
  BY <1>1, <1>2, CloseChannelsFacts, HoldersOf
<1>5. entry[n] = Blank => f = Blank
  BY CloseBlank
<1> HIDE DEF n, f
<1>6. \A m \in Nodes : Alive(m)' /\ Watched(m)'
  <2> TAKE m \in Nodes
  <2>1. CASE m = n
    <3>1. entry'[m] = f /\ Alive(m)
      BY <1>1, <1>2, <2>1 DEF IInv
    <3>2. \A h \in Handles : f.comms[h] # c
      BY <1>1, <1>2, <1>4, HoldersOf
    <3>3. Alive(m)'
      BY <1>3, <1>4, <2>1, <3>1, <3>2, NameAssumption DEF Alive
    <3>4. Watched(m)'
      BY <1>3, <2>1 DEF Watched
    <3> QED
      BY <3>3, <3>4
  <2>2. CASE m # n
    <3>1. entry'[m] = entry[m]
      BY <1>1, <1>2, <2>2
    <3>2. entry[m].connecting # c /\ \A h \in Handles : entry[m].comms[h] # c
      BY <2>2, HoldersOf DEF n
    <3> QED
      BY <1>1, <1>3, <3>1, <3>2, OthersStay
  <2> QED
    BY <2>1, <2>2
<1>7. entry' \in [Nodes -> Entry] /\ BlankOutside'
  BY <1>1, <1>2, <1>4, <1>5 DEF IInv, BlankOutside
<1> QED
  BY <1>1, <1>3, <1>6, <1>7 DEF IInv, TypeOK, MapBounded, GaugeCovers

LEMMA RemoveFailedIInv ==
  ASSUME IInv, NEW c \in Conns, RemoveFailed(c)
  PROVE  IInv'
<1> DEFINE n == conn[c].node
<1>1. /\ conn[c].status = "failing" /\ RemovePeer(n) /\ conn' = [conn EXCEPT ![c] = Free]
      /\ UNCHANGED <<known, fetch>>
  BY DEF RemoveFailed
<1>2. n \in Nodes
  BY DEF IInv, TypeOK, Conn
<1>3. conn' \in [Conns -> Conn] /\ \A d \in Conns \ {c} : conn'[d] = conn[d]
  BY <1>1, ConnOnly, Constants
<1>4. \A m \in Nodes : Alive(m)' /\ Watched(m)'
  <2> TAKE m \in Nodes
  <2>1. entry'[m] = Blank \/ (entry'[m] = entry[m] /\ m # n)
    BY <1>1, <1>2, RemovePeerFacts
  <2>2. entry[m].connecting # c /\ \A h \in Handles : entry[m].comms[h] # c
    BY <1>1, HoldersOf
  <2> QED
    BY <1>1, <1>3, <2>1, <2>2, OthersStay
<1>5. TypeOK' /\ BlankOutside' /\ MapBounded' /\ GaugeCovers'
  BY <1>1, <1>2, <1>3, RemovePeerFacts DEF IInv, TypeOK
<1> QED
  BY <1>4, <1>5 DEF IInv

LEMMA StartClientIInv ==
  ASSUME IInv, NEW c \in Conns, StartClient(c)
  PROVE  IInv'
<1> DEFINE n == conn[c].node
           e == UpdateCommStatus(entry[n])
<1>1. /\ conn[c].status = "delivered" /\ conn' = [conn EXCEPT ![c].status = "running"]
      /\ entry' = [entry EXCEPT ![n] = e]
      /\ UNCHANGED <<members, older, gauge, known, fetch>>
  BY DEF StartClient, UpdateEntry
<1>2. n \in Nodes /\ entry \in [Nodes -> Entry]
  BY DEF IInv, TypeOK, Conn
<1>3. /\ conn' \in [Conns -> Conn] /\ \A d \in Conns \ {c} : conn'[d] = conn[d]
      /\ conn'[c].status = "running" /\ conn'[c].node = n
  BY <1>1, StatusOnly DEF Status
<1>4. e \in Entry /\ Fits(n, e)
  BY <1>2, UpdateFits
<1>5. e.connecting # c
  <2>1. e.connecting = "none" \/ (e = entry[n] /\ Connecting(entry[n]))
    BY <1>2, UpdateKeepsEntry
  <2> QED
    BY <1>1, <2>1, NameAssumption DEF Connecting
<1>6. entry[n] = Blank => e = Blank
  BY NameAssumption DEF UpdateCommStatus, Connecting, Blank
<1> HIDE DEF n, e
<1>7. \A m \in Nodes : Alive(m)' /\ Watched(m)'
  <2> TAKE m \in Nodes
  <2>1. CASE m = n
    <3>1. entry'[m] = e
      BY <1>1, <1>2, <2>1
    <3>2. Alive(m)'
      BY <1>3, <1>4, <1>5, <2>1, <3>1 DEF Alive, Fits
    <3>3. Watched(m)'
      BY <1>1, <1>3, <1>4, <2>1, <3>1 DEF Watched, Fits
    <3> QED
      BY <3>2, <3>3
  <2>2. CASE m # n
    <3>1. entry'[m] = entry[m]
      BY <1>1, <1>2, <2>2
    <3>2. entry[m].connecting # c /\ \A h \in Handles : entry[m].comms[h] # c
      BY <2>2, HoldersOf DEF n
    <3> QED
      BY <1>1, <1>3, <3>1, <3>2, OthersStay
  <2> QED
    BY <2>1, <2>2
<1>8. entry' \in [Nodes -> Entry] /\ BlankOutside'
  BY <1>1, <1>2, <1>4, <1>6 DEF IInv, BlankOutside
<1> QED
  BY <1>1, <1>3, <1>7, <1>8 DEF IInv, TypeOK, MapBounded, GaugeCovers

LEMMA EndClientIInv ==
  ASSUME IInv, NEW c \in Conns, EndClient(c)
  PROVE  IInv'
<1> DEFINE n == conn[c].node
           f == CloseChannels(entry[n], c)
<1>1. /\ conn[c].status = "running" /\ conn' = [conn EXCEPT ![c] = Free]
      /\ entry' = [entry EXCEPT ![n] = f]
      /\ UNCHANGED <<members, older, gauge, known, fetch>>
  BY DEF EndClient
<1>2. n \in Nodes /\ entry \in [Nodes -> Entry]
  BY DEF IInv, TypeOK, Conn
<1>3. conn' \in [Conns -> Conn] /\ \A d \in Conns \ {c} : conn'[d] = conn[d]
  BY <1>1, ConnOnly, Constants
<1>4. /\ f \in Entry /\ f.connecting = entry[n].connecting /\ f.connecting # c
      /\ \A h \in Handles : f.comms[h] = "closed"
                            \/ (f.comms[h] = entry[n].comms[h] /\ f.comms[h] # c)
  BY <1>1, <1>2, CloseChannelsFacts, HoldersOf
<1>5. entry[n] = Blank => f = Blank
  BY CloseBlank
<1> HIDE DEF n, f
<1>6. \A m \in Nodes : Alive(m)' /\ Watched(m)'
  <2> TAKE m \in Nodes
  <2>1. CASE m = n
    <3>1. entry'[m] = f /\ Alive(m) /\ Watched(m)
      BY <1>1, <1>2, <2>1 DEF IInv
    <3>2. Alive(m)'
      BY <1>3, <1>4, <2>1, <3>1, NameAssumption DEF Alive
    <3>3. \A k \in Kinds : f.comms[k] = "pending" => entry[n].comms[k] = "pending"
      BY <1>4, Constants
    <3>4. Watched(m)'
      BY <1>1, <1>3, <1>4, <2>1, <3>1, <3>3 DEF Watched
    <3> QED
      BY <3>2, <3>4
  <2>2. CASE m # n
    <3>1. entry'[m] = entry[m]
      BY <1>1, <1>2, <2>2
    <3>2. entry[m].connecting # c /\ \A h \in Handles : entry[m].comms[h] # c
      BY <2>2, HoldersOf DEF n
    <3> QED
      BY <1>1, <1>3, <3>1, <3>2, OthersStay
  <2> QED
    BY <2>1, <2>2
<1>7. entry' \in [Nodes -> Entry] /\ BlankOutside'
  BY <1>1, <1>2, <1>4, <1>5 DEF IInv, BlankOutside
<1> QED
  BY <1>1, <1>3, <1>6, <1>7 DEF IInv, TypeOK, MapBounded, GaugeCovers

----------------------------------------------------------------------------

LEMMA NextIInv == IInv /\ [Next]_vars => IInv'
<1> SUFFICES ASSUME IInv, [Next]_vars PROVE IInv'
  OBVIOUS
<1>1. CASE NetworkTask
  BY <1>1, PropagateSentIInv, PropagateFailedIInv, ChoosePeerIInv, RequestIInv DEF NetworkTask
<1>2. CASE \E c \in Conns : Attempt(c) \/ EndClient(c)
  BY <1>2, SpawnIInv, AddConnectingIInv, CanceledIInv, ConnectedIInv, FailsIInv,
     RemoveFailedIInv, StartClientIInv, EndClientIInv DEF Attempt
<1>3. CASE Inbound
  BY <1>3, HandshakeIInv, RefreshIInv, SubscribeIInv DEF Inbound
<1>4. CASE UNCHANGED vars
  BY <1>4 DEF vars, IInv, TypeOK, BlankOutside, MapBounded, GaugeCovers, Alive, Watched
<1> QED
  BY <1>1, <1>2, <1>3, <1>4 DEF Next

LEMMA Inductive == Spec => []IInv
  BY InitIInv, NextIInv, PTL DEF Spec

(* Whatever connects, fails, is evicted or handshakes in whatever order:   *)
(* ensure_peer and evict_clients never let the map grow past               *)
(* max_connections.                                                        *)
THEOREM MapIsBounded == Spec => []MapBounded
<1>1. IInv => MapBounded
  BY DEF IInv
<1> QED
  BY <1>1, Inductive, PTL

(* Each removal that decrements peer_connected_cnt finds it above zero:    *)
(* entries are counted once when they are added, and evict_clients, which  *)
(* does not count, can only leave the metric too high.                     *)
THEOREM GaugeNeverWraps == Spec => []GaugeCovers
<1>1. IInv => GaugeCovers
  BY DEF IInv
<1> QED
  BY <1>1, Inductive, PTL

(* The item a peer's handle keeps for a connection in progress always has  *)
(* a task that will send it or remove the entry.                           *)
THEOREM PendingAlwaysWatched == Spec => []PendingIsWatched
<1>1. IInv => PendingIsWatched
  BY DEF IInv, TypeOK, Watched, PendingIsWatched
<1> QED
  BY <1>1, Inductive, PTL

(* No entry feeds a connection task that has ended, was reused for another *)
(* peer or has not reached that point.                                     *)
THEOREM HandlesAreAlive == Spec => []HandlesAlive
<1>1. IInv => HandlesAlive
  BY DEF IInv, TypeOK, Alive, HandlesAlive
<1> QED
  BY <1>1, Inductive, PTL
=============================================================================
