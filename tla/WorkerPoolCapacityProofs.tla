---------------------- MODULE WorkerPoolCapacityProofs ----------------------
(***************************************************************************)
(* The capacity of the pool: PoolStep, proved in WorkerPoolProofs, bounds   *)
(* how a step changes the reservations and the live children; here they    *)
(* are counted.                                                            *)
(***************************************************************************)
EXTENDS WorkerPoolProofs, FiniteSetTheorems

(* Worker ids form a finite set, and sets of them have natural sizes. *)
LEMMA WorkerSets ==
  ASSUME NEW A \in SUBSET Worker
  PROVE  IsFiniteSet(A) /\ Cardinality(A) \in Nat
<1>1. IsFiniteSet(Worker)
  BY PoolAssumption, FS_Interval DEF Worker
<1>2. IsFiniteSet(A)
  BY <1>1, FS_Subset
<1> QED
  BY <1>2, FS_CardinalityType

(* A step that adds no reservation and no live child keeps the capacity. *)
LEMMA ShrinkKeepsCapacity ==
  ASSUME TypeOK, Capacity, spawning' \subseteq spawning, Live' \subseteq Live
  PROVE  Capacity'
<1>1. spawning \in SUBSET Worker /\ Live \in SUBSET Worker
  BY DEF TypeOK, Live
<1>2. /\ IsFiniteSet(spawning) /\ Cardinality(spawning) \in Nat
      /\ IsFiniteSet(Live) /\ Cardinality(Live) \in Nat
  BY <1>1, WorkerSets
<1>3. spawning' \in SUBSET Worker /\ Live' \in SUBSET Worker
  BY <1>1
<1>4. Cardinality(spawning') \in Nat /\ Cardinality(Live') \in Nat
  BY <1>3, WorkerSets
<1>5. Cardinality(spawning') =< Cardinality(spawning)
  BY <1>2, FS_Subset
<1>6. Cardinality(Live') =< Cardinality(Live)
  BY <1>2, FS_Subset
<1> QED
  BY <1>2, <1>4, <1>5, <1>6, PoolAssumption DEF Capacity, Active

(* Reserving an id when there is room keeps the capacity. *)
LEMMA ReserveKeepsCapacity ==
  ASSUME TypeOK, ReservationsSound, Active < MaxWorkers,
         ReserveSpawnSlot, Live' \subseteq Live
  PROVE  Capacity'
<1>1. spawning \in SUBSET Worker /\ Live \in SUBSET Worker
  BY DEF TypeOK, Live
<1>2. /\ IsFiniteSet(spawning) /\ Cardinality(spawning) \in Nat
      /\ IsFiniteSet(Live) /\ Cardinality(Live) \in Nat
  BY <1>1, WorkerSets
<1>3. nextId \notin spawning
  BY DEF ReservationsSound, TypeOK
<1>4. Cardinality(spawning') = Cardinality(spawning) + 1
  BY <1>2, <1>3, FS_AddElement DEF ReserveSpawnSlot
<1>5. Cardinality(Live') \in Nat /\ Cardinality(Live') =< Cardinality(Live)
  BY <1>1, <1>2, FS_Subset, WorkerSets
<1> QED
  BY <1>2, <1>4, <1>5, PoolAssumption DEF Capacity, Active

(* Installing a slot turns one reservation into at most one live child. *)
LEMMA InstallKeepsCapacity ==
  ASSUME TypeOK, Capacity, NEW n \in spawning, spawning' = spawning \ {n},
         children' = children \cup {n}, state' = state
  PROVE  Capacity'
<1>1. spawning \in SUBSET Worker /\ Live \in SUBSET Worker /\ n \in Worker
  BY DEF TypeOK, Live
<1>2. /\ IsFiniteSet(spawning) /\ Cardinality(spawning) \in Nat
      /\ IsFiniteSet(Live) /\ Cardinality(Live) \in Nat
  BY <1>1, WorkerSets
<1>3. Cardinality(spawning') = Cardinality(spawning) - 1
  BY <1>2, FS_RemoveElement
<1>4. /\ IsFiniteSet(Live \cup {n}) /\ Cardinality(Live \cup {n}) \in Nat
      /\ Cardinality(Live \cup {n}) =< Cardinality(Live) + 1
  BY <1>2, FS_AddElement
<1>5. Live' \subseteq Live \cup {n}
  BY DEF Live
<1>6. Live' \in SUBSET Worker
  BY <1>1, <1>5
<1>7. Cardinality(Live') \in Nat /\ Cardinality(Live') =< Cardinality(Live \cup {n})
  BY <1>4, <1>5, <1>6, FS_Subset, WorkerSets
<1> QED
  BY <1>2, <1>3, <1>4, <1>7, PoolAssumption DEF Capacity, Active

(* ensure_min_workers counts the children that are dead as well, so its     *)
(* limit is below the one of lease.                                        *)
LEMMA MinHasRoom ==
  ASSUME TypeOK, LiveOrReserved < Min
  PROVE  Active < MaxWorkers
<1>5. children \in SUBSET Worker /\ Live \in SUBSET children /\ spawning \in SUBSET Worker
  BY DEF TypeOK, Live
<1>6. /\ IsFiniteSet(children) /\ Cardinality(children) \in Nat
      /\ Cardinality(Live) \in Nat /\ Cardinality(spawning) \in Nat
  BY <1>5, WorkerSets
<1>7. Cardinality(Live) =< Cardinality(children)
  BY <1>5, <1>6, FS_Subset
<1> QED
  BY <1>6, <1>7, PoolAssumption DEF LiveOrReserved, Active, Min, Lesser

(* warm_min starts no more workers than max_workers. *)
LEMMA InitCapacity == Init => CapacityInv
<1> SUFFICES ASSUME Init PROVE CapacityInv
  OBVIOUS
<1>1. Min \in Nat /\ Min =< MaxWorkers /\ Min =< MaxSpawns
  BY PoolAssumption DEF Min, Lesser
<1>2. PoolInv /\ TypeOK
  BY InitInv DEF PoolInv
<1>3. Capacity
  <2>1. Cardinality(children) = Min /\ IsFiniteSet(children)
    BY <1>1, FS_Interval DEF Init
  <2>2. Cardinality(spawning) = 0
    BY FS_EmptySet DEF Init
  <2>3. Live \in SUBSET children /\ Cardinality(Live) \in Nat
    BY <1>2, WorkerSets DEF Live, TypeOK
  <2>4. Cardinality(Live) =< Min
    BY <2>1, <2>3, FS_Subset
  <2> QED
    BY <1>1, <2>2, <2>3, <2>4, PoolAssumption DEF Capacity, Active
<1> QED
  BY <1>2, <1>3 DEF CapacityInv

(* No step makes the pool exceed its capacity. *)
LEMMA NextCapacity == CapacityInv /\ [Next]_vars => CapacityInv'
<1> SUFFICES ASSUME CapacityInv, [Next]_vars PROVE CapacityInv'
  OBVIOUS
<1>1. TypeOK /\ ReservationsSound /\ Capacity /\ PoolStep
  BY NextInv DEF CapacityInv, PoolInv
<1>2. ASSUME Shrinks PROVE Capacity'
  BY <1>1, <1>2, ShrinkKeepsCapacity DEF Shrinks
<1>3. ASSUME Reserving PROVE Capacity'
  BY <1>1, <1>3, MinHasRoom, ReserveKeepsCapacity DEF Reserving
<1>4. ASSUME Installing PROVE Capacity'
  BY <1>1, <1>4, InstallKeepsCapacity DEF Installing
<1> QED
  BY <1>1, <1>2, <1>3, <1>4 DEF CapacityInv, PoolStep

(* Every reservation is accounted for once and the pool stays within       *)
(* max_workers, whatever spawns, drops and retirements interleave.         *)
THEOREM CapacityInvariant == Spec => []CapacityInv
  BY InitCapacity, NextCapacity, PTL DEF Spec

(* lease and ensure_min_workers never exceed max_workers. *)
THEOREM CapacityHolds == Spec => []Capacity
<1>1. CapacityInv => Capacity
  BY DEF CapacityInv
<1> QED
  BY <1>1, CapacityInvariant, PTL
=============================================================================
