--------------------------- MODULE TaskRegistryProofs ---------------------------
(***************************************************************************)
(* Proofs about TaskRegistry: its inductive invariant, for any number of   *)
(* tasks, sessions and keys, and that it implements TaskLifecycle.         *)
(***************************************************************************)
EXTENDS TaskRegistry, FiniteSetTheorems, TLAPS

\* An empty registry satisfies the invariant.
LEMMA InitInv == Init => RegistryInv
<1> SUFFICES ASSUME Init PROVE RegistryInv
  OBVIOUS
<1> USE RegistryAssumption DEF Init, Id, Owner
<1>1. TypeOK
  BY DEF TypeOK
<1>2. Present = {} /\ Running = {}
  BY DEF Present, Running
<1> QED
  BY <1>1, <1>2 DEF RegistryInv, WorkIsTracked, OneRunningPerKey, CancelReachesJob

\* The sweep and the reclaim take entries out, and only terminal ones.
LEMMA SweepKeepsRunning ==
  ASSUME NEW stat, NEW gone, stat \in [Id -> {"absent", "running"} \cup Final],
         \A i \in gone : i \in Id => stat[i] \in Final
  PROVE  /\ Without(stat, gone) \in [Id -> {"absent", "running"} \cup Final]
         /\ \A i \in Id : Without(stat, gone)[i] = "running" <=> stat[i] = "running"
         /\ \A i \in Id : stat[i] = "absent" => Without(stat, gone)[i] = "absent"
BY DEF Without, Final

\* create_keyed that refuses only sweeps.
LEMMA RefuseInv ==
  ASSUME RegistryInv, NEW stat, NEW why \in {"duplicate", "full"}, Refuse(stat, why),
         stat \in [Id -> {"absent", "running"} \cup Final],
         \A i \in Id : stat[i] = "running" <=> status[i] = "running",
         \A i \in Id : status[i] = "absent" => stat[i] = "absent"
  PROVE  RegistryInv'
<1> USE RegistryAssumption DEF RegistryInv, Refuse, Forget
<1>1. Running' = Running /\ Present' \subseteq Present
  BY DEF Running, Present
<1>2. \A i \in Running : i \notin {j \in Present : stat[j] = "absent"}
  BY DEF Running
<1>3. TypeOK'
  BY DEF TypeOK
<1>4. asked' \subseteq Running' /\ (Running \ unhanded \subseteq registered)'
  BY <1>1, <1>2
<1>5. Present' \subseteq 1..created'
  BY <1>1
<1>6. (WorkIsTracked /\ OneRunningPerKey /\ CancelReachesJob)'
  BY <1>1 DEF WorkIsTracked, OneRunningPerKey, CancelReachesJob
<1> QED
  BY <1>3, <1>4, <1>5, <1>6

\* create_keyed that admits a task gives it a fresh id and an unused key.
LEMMA InsertInv ==
  ASSUME RegistryInv, NEW left, NEW o \in Owner, NEW k \in Key,
         created < MaxTasks, Insert(left, created + 1, o, k),
         left \in [Id -> {"absent", "running"} \cup Final],
         \A i \in Id : left[i] = "running" <=> status[i] = "running",
         \A i \in Id : status[i] = "absent" => left[i] = "absent",
         \A i \in Running : key[i] # k
  PROVE  RegistryInv'
<1> DEFINE id == created + 1
<1> USE RegistryAssumption DEF RegistryInv, Insert, Forget
<1>1. /\ created \in Nat /\ id \in Id /\ id \notin 1..created
      /\ 1..id \subseteq Id /\ 1..created \subseteq 1..id
  BY DEF TypeOK, Id
<1>2. id \notin Present /\ id \notin Running
  BY <1>1 DEF Running, Present
<1>3. Running' = Running \cup {id} /\ Present' \subseteq Present \cup {id}
  BY <1>1 DEF Running, Present
<1>4. \A i \in Running : i \notin {j \in Present : left[j] = "absent"}
  BY DEF Running
<1>5. TypeOK'
  <2>1. updated' \in [Id -> 0..clock'] /\ created' \in 0..MaxTasks
    BY <1>1 DEF TypeOK
  <2>2. /\ status' \in [Id -> {"absent", "running"} \cup Final]
        /\ owner' \in [Id -> Owner] /\ key' \in [Id -> Key \cup {NoKey}]
    BY <1>1 DEF TypeOK
  <2> QED
    BY <1>1, <2>1, <2>2 DEF TypeOK
<1>6. asked' \subseteq Running' /\ (Running \ unhanded \subseteq registered)'
  BY <1>3, <1>4
<1>7. Present' \subseteq 1..created'
  BY <1>1, <1>3
<1>8. OneRunningPerKey'
  <2>1. key'[id] = k /\ \A i \in Running : key'[i] = key[i]
    BY <1>1, <1>2 DEF TypeOK, Running
  <2> QED
    BY <1>3, <2>1 DEF OneRunningPerKey
<1>9. (WorkIsTracked /\ CancelReachesJob)'
  BY <1>3 DEF WorkIsTracked, CancelReachesJob
<1> QED
  BY <1>5, <1>6, <1>7, <1>8, <1>9

\* Which entries create_keyed may reclaim.
LEMMA ReclaimsTerminal ==
  ASSUME NEW stat, NEW gone, Reclaims(stat, gone)
  PROVE  \A i \in gone : stat[i] \in Final
BY DEF Reclaims

\* create_keyed keeps the invariant.
LEMMA CreateInv ==
  ASSUME RegistryInv, NEW o \in Owner, NEW k \in Key, CreateKeyed(o, k)
  PROVE  RegistryInv'
<1> DEFINE pruned == Without(status, Expired(status, updated))
<1>1. status \in [Id -> {"absent", "running"} \cup Final]
  BY DEF RegistryInv, TypeOK
<1>2. /\ pruned \in [Id -> {"absent", "running"} \cup Final]
      /\ \A i \in Id : pruned[i] = "running" <=> status[i] = "running"
      /\ \A i \in Id : status[i] = "absent" => pruned[i] = "absent"
  <2>1. \A i \in Expired(status, updated) : i \in Id => status[i] \in Final
    BY DEF Expired
  <2> QED
    BY <1>1, <2>1, SweepKeepsRunning
<1> HIDE DEF pruned
<1>3. CASE Refuse(pruned, "duplicate")
  BY <1>2, <1>3, RefuseInv
<1>4. ASSUME NEW gone \in SUBSET Id, Reclaims(pruned, gone), SameWork(pruned, o, k) = {},
             \/ Refuse(Without(pruned, gone), "full")
             \/ created < MaxTasks /\ Insert(Without(pruned, gone), created + 1, o, k)
      PROVE RegistryInv'
  <2> DEFINE left == Without(pruned, gone)
  <2>1. /\ left \in [Id -> {"absent", "running"} \cup Final]
        /\ \A i \in Id : left[i] = "running" <=> status[i] = "running"
        /\ \A i \in Id : status[i] = "absent" => left[i] = "absent"
    <3>1. \A i \in gone : i \in Id => pruned[i] \in Final
      BY <1>4, ReclaimsTerminal
    <3>2. /\ left \in [Id -> {"absent", "running"} \cup Final]
          /\ \A i \in Id : left[i] = "running" <=> pruned[i] = "running"
          /\ \A i \in Id : pruned[i] = "absent" => left[i] = "absent"
      BY <1>2, <3>1, SweepKeepsRunning
    <3> QED
      BY <1>2, <3>2
  <2>2. \A i \in Running : key[i] # k
    BY <1>2, <1>4 DEF SameWork, Running
  <2> HIDE DEF left
  <2>3. CASE Refuse(left, "full")
    BY <2>1, <2>3, RefuseInv
  <2>4. CASE created < MaxTasks /\ Insert(left, created + 1, o, k)
    BY <2>1, <2>2, <2>4, InsertInv
  <2> QED
    BY <1>4, <2>3, <2>4 DEF left
<1> QED
  BY <1>3, <1>4 DEF CreateKeyed, pruned

\* A job that settles leaves a terminal entry and is gone.
LEMMA SettleInv ==
  ASSUME RegistryInv, NEW i \in jobs, NEW final \in Final, SettleIfRunning(i, final)
  PROVE  RegistryInv'
<1> DEFINE stat == [status EXCEPT ![i] = final]
           upd == [updated EXCEPT ![i] = clock]
           gone == Expired(stat, upd)
<1> USE RegistryAssumption DEF RegistryInv
<1>1. i \in Id /\ status[i] = "running"
  BY DEF WorkIsTracked, Running
<1>2. Settle(i, final)
  BY <1>1 DEF SettleIfRunning
<1>3. /\ stat \in [Id -> {"absent", "running"} \cup Final]
      /\ \A j \in Id : stat[j] = "running" <=> status[j] = "running" /\ j # i
      /\ \A j \in Id : status[j] = "absent" => stat[j] = "absent"
  BY <1>1 DEF TypeOK, Final
<1>4. \A j \in gone : j \in Id => stat[j] \in Final
  BY DEF Expired
<1>5. upd \in [Id -> 0..clock]
  BY <1>1 DEF TypeOK
<1> HIDE DEF stat, upd
<1>6. /\ Without(stat, gone) \in [Id -> {"absent", "running"} \cup Final]
      /\ \A j \in Id : Without(stat, gone)[j] = "running" <=> stat[j] = "running"
      /\ \A j \in Id : stat[j] = "absent" => Without(stat, gone)[j] = "absent"
  BY <1>3, <1>4, SweepKeepsRunning
<1> HIDE DEF gone
<1>7. /\ status' = Without(stat, gone)
      /\ updated' = [j \in Id |-> IF j \in gone THEN 0 ELSE upd[j]]
      /\ asked' = asked \ (gone \cup {i}) /\ registered' = registered \ (gone \cup {i})
      /\ jobs' = jobs \ {i} /\ answer' = "none"
      /\ UNCHANGED <<owner, key, cancelled, created, unhanded, ended, clock>>
  BY <1>2 DEF Settle, stat, upd, gone
<1>8. Running' = Running \ {i} /\ Present' \subseteq Present
  BY <1>1, <1>3, <1>6, <1>7 DEF Running, Present
<1>9. \A j \in Running' : j \notin gone
  BY <1>3, <1>4, <1>6, <1>7, <1>8 DEF Running, Final
<1>10. TypeOK'
  <2>1. updated' \in [Id -> 0..clock']
    BY <1>5, <1>7 DEF TypeOK
  <2> QED
    BY <1>6, <1>7, <2>1 DEF TypeOK
<1>11. asked' \subseteq Running' /\ (Running \ unhanded \subseteq registered)'
  BY <1>7, <1>8, <1>9
<1>12. (WorkIsTracked /\ OneRunningPerKey /\ CancelReachesJob)' /\ Present' \subseteq 1..created'
  BY <1>7, <1>8 DEF WorkIsTracked, OneRunningPerKey, CancelReachesJob
<1> QED
  BY <1>10, <1>11, <1>12

\* set_cancel_token cancels the token itself when the request came first.
LEMMA SetCancelTokenInv ==
  ASSUME RegistryInv, NEW i \in Id, SetCancelToken(i)
  PROVE  RegistryInv'
<1> USE DEF RegistryInv, SetCancelToken
<1>1. Running' = Running /\ Present' = Present /\ Running \subseteq Present
  BY DEF Running, Present
<1>2. TypeOK'
  BY DEF TypeOK
<1>3. (WorkIsTracked /\ OneRunningPerKey)'
  BY <1>1 DEF WorkIsTracked, OneRunningPerKey
<1>4. CancelReachesJob' /\ asked' \subseteq Running' /\ (Running \ unhanded \subseteq registered)'
  BY <1>1 DEF CancelReachesJob
<1> QED
  BY <1>1, <1>2, <1>3, <1>4

\* update_message moves a time stamp and nothing else.
LEMMA UpdateMessageInv ==
  ASSUME RegistryInv, NEW i \in Id, UpdateMessage(i)
  PROVE  RegistryInv'
<1> USE DEF RegistryInv, UpdateMessage
<1>1. Running' = Running /\ Present' = Present
  BY DEF Running, Present
<1>2. TypeOK'
  <2>1. clock \in 0..clock
    BY DEF TypeOK
  <2>2. updated' \in [Id -> 0..clock']
    BY <2>1 DEF TypeOK
  <2> QED
    BY <2>2 DEF TypeOK
<1> QED
  BY <1>1, <1>2 DEF WorkIsTracked, OneRunningPerKey, CancelReachesJob

\* A poll sweeps expired results away and leaves running tasks alone.
LEMMA GetInv ==
  ASSUME RegistryInv, Get
  PROVE  RegistryInv'
<1> DEFINE gone == Expired(status, updated)
<1> USE RegistryAssumption DEF RegistryInv
<1>1. \A i \in gone : i \in Id => status[i] \in Final
  BY DEF Expired
<1> HIDE DEF gone
<1>2. /\ Without(status, gone) \in [Id -> {"absent", "running"} \cup Final]
      /\ \A i \in Id : Without(status, gone)[i] = "running" <=> status[i] = "running"
      /\ \A i \in Id : status[i] = "absent" => Without(status, gone)[i] = "absent"
  BY <1>1, SweepKeepsRunning DEF TypeOK
<1>3. /\ status' = Without(status, gone) /\ Forget(gone, updated) /\ answer' = "none"
      /\ UNCHANGED <<owner, key, cancelled, created, unhanded, jobs, ended, clock>>
  BY DEF Get, gone
<1>4. Running' = Running /\ Present' \subseteq Present
  BY <1>2, <1>3 DEF Running, Present
<1>5. \A i \in Running : i \notin gone
  BY <1>1 DEF Running, Final
<1>6. TypeOK'
  BY <1>2, <1>3 DEF TypeOK, Forget
<1>7. asked' \subseteq Running' /\ (Running \ unhanded \subseteq registered)'
  BY <1>3, <1>4, <1>5 DEF Forget
<1> QED
  BY <1>3, <1>4, <1>6, <1>7 DEF WorkIsTracked, OneRunningPerKey, CancelReachesJob, Forget

\* A request to cancel marks running entries; each that has its token is told now.
LEMMA RequestCancelInv ==
  ASSUME RegistryInv, NEW which, RequestCancel(which)
  PROVE  RegistryInv'
<1> DEFINE fresh == (which \cap Running) \ asked
           upd == [i \in Id |-> IF i \in fresh THEN clock ELSE updated[i]]
           gone == IF fresh = {} THEN {} ELSE Expired(status, upd)
<1> USE RegistryAssumption DEF RegistryInv
<1>1. \A i \in gone : i \in Id => status[i] \in Final
  BY DEF Expired
<1>2. fresh \subseteq Running /\ Running \subseteq Id
  BY DEF Running
<1>3. upd \in [Id -> 0..clock]
  BY DEF TypeOK
<1>4. /\ status' = Without(status, gone)
      /\ updated' = [i \in Id |-> IF i \in gone THEN 0 ELSE upd[i]]
      /\ asked' = (asked \cup fresh) \ gone /\ registered' = registered \ gone
      /\ cancelled' = cancelled \cup (fresh \cap registered) /\ answer' = "none"
      /\ UNCHANGED <<owner, key, created, unhanded, jobs, ended, clock>>
  BY DEF RequestCancel
<1> HIDE DEF gone, fresh, upd
<1>5. /\ Without(status, gone) \in [Id -> {"absent", "running"} \cup Final]
      /\ \A i \in Id : Without(status, gone)[i] = "running" <=> status[i] = "running"
      /\ \A i \in Id : status[i] = "absent" => Without(status, gone)[i] = "absent"
  BY <1>1, SweepKeepsRunning DEF TypeOK
<1>6. Running' = Running /\ Present' \subseteq Present
  BY <1>4, <1>5 DEF Running, Present
<1>7. \A i \in Running : i \notin gone
  BY <1>1 DEF Running, Final
<1>8. TypeOK'
  <2>1. updated' \in [Id -> 0..clock']
    BY <1>3, <1>4 DEF TypeOK
  <2> QED
    BY <1>2, <1>4, <1>5, <2>1 DEF TypeOK
<1>9. asked' \subseteq Running' /\ (Running \ unhanded \subseteq registered)'
  BY <1>2, <1>4, <1>6, <1>7
<1>10. CancelReachesJob'
  BY <1>2, <1>4 DEF CancelReachesJob
<1> QED
  BY <1>4, <1>6, <1>8, <1>9, <1>10 DEF WorkIsTracked, OneRunningPerKey

\* The end of a session only adds cancelled tokens; time only passes.
LEMMA EndSessionTickInv ==
  ASSUME RegistryInv, (\E s \in Session : EndSession(s)) \/ Tick
  PROVE  RegistryInv'
<1> USE RegistryAssumption DEF RegistryInv, entry
<1>1. CASE \E s \in Session : EndSession(s)
  <2>1. PICK s \in Session : EndSession(s)
    BY <1>1
  <2>2. Running' = Running /\ Present' = Present
    BY <2>1 DEF EndSession, Running, Present
  <2>3. TypeOK'
    <3>1. 1..created \subseteq Id
      BY DEF TypeOK, Id
    <3>2. {i \in 1..created : owner[i] = s} \subseteq Id
      BY <3>1
    <3> QED
      BY <2>1, <3>2 DEF EndSession, TypeOK
  <2> QED
    BY <2>1, <2>2, <2>3 DEF EndSession, WorkIsTracked, OneRunningPerKey, CancelReachesJob
<1>2. CASE Tick
  <2>1. Running' = Running /\ Present' = Present
    BY <1>2 DEF Tick, Running, Present
  <2>2. clock \in Nat /\ clock' = clock + 1 /\ updated \in [Id -> 0..clock]
    BY <1>2 DEF Tick, TypeOK
  <2>3. 0..clock \subseteq 0..clock' /\ clock' \in Nat
    BY <2>2
  <2>4. TypeOK'
    BY <1>2, <2>2, <2>3 DEF Tick, TypeOK
  <2> QED
    BY <1>2, <2>1, <2>4 DEF Tick, WorkIsTracked, OneRunningPerKey, CancelReachesJob
<1> QED
  BY <1>1, <1>2

\* Each way for a job to end settles its entry with a final status.
LEMMA JobSettles ==
  ASSUME NEW i \in Id, JobStep(i)
  PROVE  i \in jobs /\ \E final \in Final : SettleIfRunning(i, final)
<1>1. "completed" \in Final /\ "failed" \in Final /\ "cancelled" \in Final
  BY DEF Final
<1> QED
  BY <1>1 DEF JobStep, Fail, FinishCancelled, CompleteWithCancelToken, CompleteOrDefer,
     FailAfterCleanupError, CompleteOrFail

\* Every step of the registry keeps the invariant.
LEMMA NextInv == RegistryInv /\ [Next]_vars => RegistryInv'
<1> SUFFICES ASSUME RegistryInv, [Next]_vars PROVE RegistryInv'
  OBVIOUS
<1>1. ASSUME NEW o \in Owner, NEW k \in Key, CreateKeyed(o, k) PROVE RegistryInv'
  BY <1>1, CreateInv
<1>2. ASSUME NEW i \in Id, SetCancelToken(i) \/ UpdateMessage(i) PROVE RegistryInv'
  BY <1>2, SetCancelTokenInv, UpdateMessageInv
<1>3. ASSUME NEW i \in Id, JobStep(i) PROVE RegistryInv'
  BY <1>3, JobSettles, SettleInv
<1>4. ASSUME NEW i \in Id, NEW o \in Owner, CancelForOwner(o, i) PROVE RegistryInv'
  BY <1>4, RequestCancelInv DEF CancelForOwner
<1>5. CASE CancelAllRunning
  BY <1>5, RequestCancelInv DEF CancelAllRunning
<1>6. CASE Get
  BY <1>6, GetInv
<1>7. CASE (\E s \in Session : EndSession(s)) \/ Tick
  BY <1>7, EndSessionTickInv
<1>8. CASE UNCHANGED vars
  BY <1>8 DEF vars, entry, RegistryInv, TypeOK, WorkIsTracked, OneRunningPerKey,
     CancelReachesJob, Present, Running
<1> QED
  BY <1>1, <1>2, <1>3, <1>4, <1>5, <1>6, <1>7, <1>8 DEF Next

\* The inductive invariant holds for every number of tasks, sessions and keys.
THEOREM RegistryInvariant == Spec => []RegistryInv
BY InitInv, NextInv, PTL DEF Spec

\* Deduplication: create_keyed never lets two tasks with the same key run.
THEOREM Deduplication == Spec => []OneRunningPerKey
<1>1. RegistryInv => OneRunningPerKey
  BY DEF RegistryInv
<1> QED
  BY <1>1, RegistryInvariant, PTL

\* Cancellation: no request to cancel is lost between the spawn of a job and the
\* registration of its token.
THEOREM Cancellation == Spec => []CancelReachesJob
<1>1. RegistryInv => CancelReachesJob
  BY DEF RegistryInv
<1> QED
  BY <1>1, RegistryInvariant, PTL

-----------------------------------------------------------------------------
(* The registry implements TaskLifecycle                                   *)

\* The phase of task i stays, or makes a move that the life cycle allows.
LegalMove(i) == TaskPhase'[i] = TaskPhase[i] \/ <<TaskPhase[i], TaskPhase'[i]>> \in Lifecycle!Moves

\* left is stat without some terminal entries.
Swept(stat, left) == \A i \in Id : left[i] = stat[i] \/ (stat[i] \in Final /\ left[i] = "absent")

\* The sweep takes nothing but terminal entries.
LEMMA SweptWithout ==
  ASSUME NEW stat, NEW gone, \A i \in gone : i \in Id => stat[i] \in Final
  PROVE  Swept(stat, Without(stat, gone))
BY DEF Swept, Without

\* An entry that keeps its status, or is swept away, makes a legal move; a mark
\* for cancellation is set on a running entry and is not taken back.
LEMMA SweepMoves ==
  ASSUME RegistryInv, NEW i \in Id, created' = created,
         status'[i] = status[i] \/ (status[i] \in Final /\ status'[i] = "absent"),
         i \in asked /\ status[i] = "running" => i \in asked'
  PROVE  LegalMove(i)
<1>1. i > created => status[i] = "absent"
  BY DEF RegistryInv, TypeOK, Present, Id
<1>2. status[i] \in {"absent", "running"} \cup Final
  BY DEF RegistryInv, TypeOK
<1>3. CASE status'[i] = status[i]
  BY <1>1, <1>2, <1>3 DEF LegalMove, TaskPhase, Lifecycle!Moves, Final
<1>4. CASE status[i] \in Final /\ status'[i] = "absent"
  <2>1. TaskPhase[i] = status[i] /\ TaskPhase'[i] = "gone"
    BY <1>1, <1>4 DEF TaskPhase, Final
  <2> QED
    BY <1>4, <2>1 DEF LegalMove, Lifecycle!Moves, Lifecycle!Terminal, Final
<1> QED
  BY <1>3, <1>4

\* An admitted task is born working; the others only may be swept away.
LEMMA InsertMoves ==
  ASSUME RegistryInv, NEW left, NEW o, NEW k, created < MaxTasks, Swept(status, left),
         left \in [Id -> {"absent", "running"} \cup Final], Insert(left, created + 1, o, k),
         NEW i \in Id
  PROVE  LegalMove(i)
<1> DEFINE id == created + 1
<1>1. created \in Nat /\ id \in Id /\ created' = id
  BY RegistryAssumption DEF RegistryInv, TypeOK, Id, Insert
<1>2. id \notin asked /\ id \notin asked'
  BY <1>1 DEF RegistryInv, Insert, Forget, Running, Present, Id
<1>3. status'[id] = "running" /\ \A j \in Id : j # id => status'[j] = left[j]
  BY <1>1 DEF Insert
<1>4. CASE i = id
  <2>1. TaskPhase[i] = "unborn" /\ TaskPhase'[i] = "working"
    BY <1>1, <1>2, <1>3, <1>4 DEF TaskPhase
  <2> QED
    BY <2>1 DEF LegalMove, Lifecycle!Moves
<1>5. CASE i # id
  <2>1. i > created' <=> i > created
    BY <1>1, <1>5 DEF Id
  <2>2. status[i] # "absent" => ~(i > created)
    BY <1>1 DEF RegistryInv, Present, Id
  <2>3. status[i] \in {"absent", "running"} \cup Final
    BY DEF RegistryInv, TypeOK
  <2>4. CASE left[i] = status[i]
    <3>1. status[i] = "running" => (i \in asked' <=> i \in asked)
      BY <2>4 DEF Insert, Forget
    <3> QED
      BY <1>3, <1>5, <2>1, <2>3, <2>4, <3>1 DEF LegalMove, TaskPhase, Final
  <2>5. CASE status[i] \in Final /\ left[i] = "absent"
    <3>1. TaskPhase[i] = status[i] /\ TaskPhase'[i] = "gone"
      BY <1>3, <1>5, <2>1, <2>2, <2>5 DEF TaskPhase, Final
    <3> QED
      BY <2>5, <3>1 DEF LegalMove, Lifecycle!Moves, Lifecycle!Terminal, Final
  <2> QED
    BY <2>4, <2>5 DEF Swept
<1> QED
  BY <1>4, <1>5

\* create_keyed makes legal moves only.
LEMMA CreateMoves ==
  ASSUME RegistryInv, NEW o \in Owner, NEW k \in Key, CreateKeyed(o, k), NEW i \in Id
  PROVE  LegalMove(i)
<1> DEFINE pruned == Without(status, Expired(status, updated))
<1>1. /\ Swept(status, pruned)
      /\ pruned \in [Id -> {"absent", "running"} \cup Final]
  <2>1. \A j \in Expired(status, updated) : j \in Id => status[j] \in Final
    BY DEF Expired
  <2> QED
    BY <2>1, SweptWithout, SweepKeepsRunning DEF RegistryInv, TypeOK
<1> HIDE DEF pruned
<1>2. ASSUME NEW stat, NEW why, Refuse(stat, why), Swept(status, stat) PROVE LegalMove(i)
  <2>1. created' = created /\ status' = stat /\ asked' = asked \ {j \in Present : stat[j] = "absent"}
    BY <1>2 DEF Refuse, Forget
  <2>2. stat[i] = status[i] \/ (status[i] \in Final /\ stat[i] = "absent")
    BY <1>2 DEF Swept
  <2>3. i \in asked /\ status[i] = "running" => i \in asked'
    BY <2>1, <2>2 DEF Final
  <2> QED
    BY <2>1, <2>2, <2>3, SweepMoves
<1>3. ASSUME NEW gone \in SUBSET Id, Reclaims(pruned, gone), created < MaxTasks,
             \/ Refuse(Without(pruned, gone), "full")
             \/ Insert(Without(pruned, gone), created + 1, o, k)
      PROVE LegalMove(i)
  <2> DEFINE left == Without(pruned, gone)
  <2>1. \A j \in gone : j \in Id => pruned[j] \in Final
    BY <1>3, ReclaimsTerminal
  <2>2. Swept(pruned, left) /\ left \in [Id -> {"absent", "running"} \cup Final]
    BY <1>1, <2>1, SweptWithout, SweepKeepsRunning
  <2> HIDE DEF left
  <2>3. Swept(status, left)
    BY <1>1, <2>2 DEF Swept, Final
  <2> QED
    BY <1>2, <1>3, <2>2, <2>3, InsertMoves DEF left
<1> QED
  BY <1>1, <1>2, <1>3 DEF CreateKeyed, pruned

\* A job never completes a task that was asked to cancel.
LEMMA JobResult ==
  ASSUME RegistryInv, NEW i \in Id, JobStep(i)
  PROVE  i \in jobs /\ \E final \in Final : (final = "completed" => i \notin asked) /\ SettleIfRunning(i, final)
<1>1. "completed" \in Final /\ "failed" \in Final /\ "cancelled" \in Final
  BY DEF Final
<1>2. i \in jobs => status[i] = "running"
  BY DEF RegistryInv, WorkIsTracked, Running
<1> QED
  BY <1>1, <1>2 DEF JobStep, Fail, FinishCancelled, CompleteWithCancelToken, CompleteOrDefer,
     FailAfterCleanupError, CompleteOrFail

\* Settling makes legal moves only: the settled entry survives its own sweep,
\* because its time stamp is new and the retention time is positive.
LEMMA SettleMoves ==
  ASSUME RegistryInv, NEW j \in jobs, NEW final \in Final, final = "completed" => j \notin asked,
         SettleIfRunning(j, final), NEW i \in Id
  PROVE  LegalMove(i)
<1> DEFINE stat == [status EXCEPT ![j] = final]
           gone == Expired(stat, [updated EXCEPT ![j] = clock])
<1>1. j \in Id /\ status[j] = "running" /\ j <= created /\ j \in Nat /\ created \in Nat
  BY DEF RegistryInv, TypeOK, WorkIsTracked, Running, Present, Id
<1>2. /\ created' = created /\ asked' = asked \ (gone \cup {j})
      /\ status' = Without(stat, gone)
  BY <1>1 DEF SettleIfRunning, Settle
<1>3. j \notin gone
  BY <1>1, RegistryAssumption DEF Expired, RegistryInv, TypeOK
<1>4. stat[j] = final /\ \A x \in Id \ {j} : stat[x] = status[x]
  BY <1>1 DEF RegistryInv, TypeOK
<1>5. \A x \in gone : x \in Id => stat[x] \in Final
  BY DEF Expired
<1> HIDE DEF stat, gone
<1>6. CASE i = j
  <2>1. status'[i] = final
    BY <1>2, <1>3, <1>4, <1>6 DEF Without
  <2>2. TaskPhase'[i] = final /\ TaskPhase[i] = IF i \in asked THEN "cancelling" ELSE "working"
    BY <1>1, <1>2, <1>6, <2>1 DEF TaskPhase, Final
  <2> QED
    BY <1>6, <2>2 DEF LegalMove, Lifecycle!Moves, Lifecycle!Terminal, Final
<1>7. CASE i # j
  <2>1. status'[i] = status[i] \/ (status[i] \in Final /\ status'[i] = "absent")
    BY <1>2, <1>4, <1>5, <1>7 DEF Without
  <2>2. i \in asked /\ status[i] = "running" => i \in asked'
    BY <1>2, <1>4, <1>5, <1>7 DEF Final
  <2> QED
    BY <1>2, <2>1, <2>2, SweepMoves
<1> QED
  BY <1>6, <1>7

\* A request to cancel makes legal moves only.
LEMMA RequestCancelMoves ==
  ASSUME RegistryInv, NEW which, RequestCancel(which), NEW i \in Id
  PROVE  LegalMove(i)
<1> DEFINE fresh == (which \cap Running) \ asked
           upd == [x \in Id |-> IF x \in fresh THEN clock ELSE updated[x]]
           gone == IF fresh = {} THEN {} ELSE Expired(status, upd)
<1>1. \A x \in gone : x \in Id => status[x] \in Final
  BY DEF Expired
<1>2. /\ created' = created /\ status' = Without(status, gone)
      /\ asked' = (asked \cup fresh) \ gone
  BY DEF RequestCancel
<1> HIDE DEF gone, fresh
<1>3. status'[i] = status[i] \/ (status[i] \in Final /\ status'[i] = "absent")
  BY <1>1, <1>2 DEF Without
<1>4. i \in asked /\ status[i] = "running" => i \in asked'
  BY <1>1, <1>2 DEF Final
<1> QED
  BY <1>2, <1>3, <1>4, SweepMoves

\* Every step of the registry is a step of the life cycle.
LEMMA StepRefines == RegistryInv /\ RegistryInv' /\ [Next]_vars => [Lifecycle!Next]_TaskPhase
<1> SUFFICES ASSUME RegistryInv, RegistryInv', [Next]_vars PROVE Lifecycle!Next
  OBVIOUS
<1>1. ASSUME NEW i \in Id PROVE LegalMove(i)
  <2>1. ASSUME NEW o \in Owner, NEW k \in Key, CreateKeyed(o, k) PROVE LegalMove(i)
    BY <2>1, CreateMoves
  <2>2. ASSUME NEW j \in Id, SetCancelToken(j) \/ UpdateMessage(j) PROVE LegalMove(i)
    BY <2>2, SweepMoves DEF SetCancelToken, UpdateMessage
  <2>3. ASSUME NEW j \in Id, JobStep(j) PROVE LegalMove(i)
    BY <2>3, JobResult, SettleMoves
  <2>4. ASSUME NEW j \in Id, NEW o \in Owner, CancelForOwner(o, j) PROVE LegalMove(i)
    BY <2>4, RequestCancelMoves DEF CancelForOwner
  <2>5. CASE CancelAllRunning
    BY <2>5, RequestCancelMoves DEF CancelAllRunning
  <2>6. CASE Get
    <3>1. \A x \in Expired(status, updated) : status[x] \in Final
      BY DEF Expired
    <3>2. status'[i] = status[i] \/ (status[i] \in Final /\ status'[i] = "absent")
      BY <2>6, <3>1 DEF Get, Without
    <3>3. i \in asked /\ status[i] = "running" => i \in asked'
      BY <2>6, <3>1 DEF Get, Forget, Final
    <3> QED
      BY <2>6, <3>2, <3>3, SweepMoves DEF Get
  <2>7. CASE (\E s \in Session : EndSession(s)) \/ Tick
    BY <2>7, SweepMoves DEF EndSession, Tick, entry
  <2>8. CASE UNCHANGED vars
    BY <2>8, SweepMoves DEF vars, entry
  <2> QED
    BY <2>1, <2>2, <2>3, <2>4, <2>5, <2>6, <2>7, <2>8 DEF Next
<1>2. TaskPhase' \in [Id -> Lifecycle!Phase]
  BY DEF RegistryInv, TypeOK, TaskPhase, Lifecycle!Phase, Lifecycle!Terminal, Final
<1> QED
  BY <1>1, <1>2 DEF Lifecycle!Next, LegalMove

\* The registry implements the abstract life cycle: for every number of tasks and
\* owners, clients see only legal moves of the status they poll.
THEOREM Refinement == Spec => ImplementsLifecycle
<1>1. Init => Lifecycle!Init
  BY RegistryAssumption DEF Init, Lifecycle!Init, TaskPhase, Id
<1> QED
  BY <1>1, StepRefines, RegistryInvariant, PTL DEF Spec, ImplementsLifecycle, Lifecycle!Spec

-----------------------------------------------------------------------------
(* Capacity                                                                *)

\* Only create_keyed draws an id, and then there was room.
LEMMA OnlyCreateDraws ==
  ASSUME RegistryInv, [Next]_vars, created' # created
  PROVE  \E o \in Owner, k \in Key : \E left \in [Id -> {"absent", "running"} \cup Final] :
            ~Full({i \in Id : left[i] # "absent"}) /\ Insert(left, created + 1, o, k)
<1>1. ASSUME NEW i \in Id, JobStep(i) PROVE created' = created
  <2>1. PICK final \in Final : SettleIfRunning(i, final)
    BY <1>1, JobSettles
  <2> QED
    BY <2>1 DEF SettleIfRunning, Settle
<1>2. PICK o \in Owner, k \in Key : CreateKeyed(o, k)
  BY <1>1 DEF Next, vars, SetCancelToken, UpdateMessage, CancelForOwner, RequestCancel, EndSession,
     CancelAllRunning, Get, Tick
<1> DEFINE pruned == Without(status, Expired(status, updated))
<1>3. PICK gone \in SUBSET Id :
        /\ ~Full({i \in Id : Without(pruned, gone)[i] # "absent"})
        /\ Insert(Without(pruned, gone), created + 1, o, k)
  BY <1>2 DEF CreateKeyed, Refuse
<1>4. Without(pruned, gone) \in [Id -> {"absent", "running"} \cup Final]
  BY DEF RegistryInv, TypeOK, Without
<1> HIDE DEF pruned
<1> QED
  BY <1>3, <1>4

\* A step that creates no task adds no entry.
LEMMA NoNewEntry ==
  ASSUME RegistryInv, RegistryInv', [Next]_vars, created' = created
  PROVE  Present' \subseteq Present
<1> SUFFICES ASSUME NEW i \in Id, status[i] = "absent" PROVE status'[i] = "absent"
  BY DEF Present
<1>1. TaskPhase[i] \in {"unborn", "gone"} /\ (i > created => TaskPhase'[i] = "unborn")
  BY DEF TaskPhase
<1>2. i > created => status'[i] = "absent"
  BY DEF RegistryInv, TypeOK, Present, Id
<1>3. [Lifecycle!Next]_TaskPhase
  BY StepRefines
<1>4. ~(i > created) => TaskPhase'[i] = "gone"
  <2>1. ~(i > created) => TaskPhase[i] = "gone"
    BY DEF TaskPhase
  <2>2. TaskPhase'[i] = TaskPhase[i] \/ <<TaskPhase[i], TaskPhase'[i]>> \in Lifecycle!Moves
    BY <1>3 DEF Lifecycle!Next
  <2> QED
    BY <2>1, <2>2 DEF Lifecycle!Moves, Lifecycle!Terminal
<1>5. status'[i] \in {"absent", "running"} \cup Final
  BY DEF RegistryInv, TypeOK
<1> QED
  BY <1>2, <1>4, <1>5 DEF TaskPhase, Final

\* The bound on the registry is kept by every step.
LEMMA CapacityStep == RegistryInv /\ RegistryInv' /\ WithinCapacity /\ [Next]_vars => WithinCapacity'
<1> SUFFICES ASSUME RegistryInv, RegistryInv', WithinCapacity, [Next]_vars PROVE WithinCapacity'
  OBVIOUS
<1> USE RegistryAssumption
<1>1. IsFiniteSet(Id) /\ \A S \in SUBSET Id : IsFiniteSet(S) /\ Cardinality(S) \in Nat
  <2>1. 1 \in Int /\ MaxTasks \in Int
    OBVIOUS
  <2>2. IsFiniteSet(Id)
    BY <2>1, FS_Interval DEF Id
  <2> QED
    BY <2>2, FS_Subset, FS_CardinalityType
<1>2. CASE created' = created
  <2>1. Present' \subseteq Present /\ IsFiniteSet(Present)
    BY <1>1, <1>2, NoNewEntry DEF Present
  <2>2. Cardinality(Present') <= Cardinality(Present)
    BY <2>1, FS_Subset
  <2>3. Cardinality(Present') \in Nat /\ Cardinality(Present) \in Nat
    BY <1>1 DEF Present
  <2> QED
    BY <2>2, <2>3 DEF WithinCapacity
<1>3. CASE created' # created
  <2>1. PICK o \in Owner, k \in Key, left \in [Id -> {"absent", "running"} \cup Final] :
          ~Full({i \in Id : left[i] # "absent"}) /\ Insert(left, created + 1, o, k)
    BY <1>3, OnlyCreateDraws
  <2> DEFINE kept == {i \in Id : left[i] # "absent"}
  <2>2. Present' \subseteq kept \cup {created + 1}
    BY <2>1 DEF Present, Insert
  <2>3. IsFiniteSet(kept) /\ Cardinality(kept) \in Nat /\ Cardinality(kept) < MaxEntries
    BY <1>1, <2>1 DEF Full
  <2> HIDE DEF kept
  <2>4. /\ IsFiniteSet(kept \cup {created + 1})
        /\ Cardinality(kept \cup {created + 1}) \in Nat
        /\ Cardinality(kept \cup {created + 1}) <= Cardinality(kept) + 1
    <3>1. IsFiniteSet(kept \cup {created + 1})
      BY <2>3, FS_AddElement
    <3>2. Cardinality(kept \cup {created + 1}) \in Nat
      BY <3>1, FS_CardinalityType
    <3>3. \/ Cardinality(kept \cup {created + 1}) = Cardinality(kept)
          \/ Cardinality(kept \cup {created + 1}) = Cardinality(kept) + 1
      BY <2>3, FS_AddElement
    <3> QED
      BY <2>3, <3>1, <3>2, <3>3
  <2>5. Cardinality(Present') <= Cardinality(kept \cup {created + 1}) /\ Cardinality(Present') \in Nat
    BY <2>2, <2>4, FS_Subset, FS_CardinalityType
  <2> QED
    BY <2>3, <2>4, <2>5 DEF WithinCapacity
<1> QED
  BY <1>2, <1>3

\* The registry never holds more entries than MAX_TASK_REGISTRY_ENTRIES.
THEOREM CapacityKept == Spec => []WithinCapacity
<1>1. Init => WithinCapacity
  <2>1. ASSUME Init PROVE Present = {}
    BY <2>1 DEF Init, Present
  <2> QED
    BY <2>1, FS_EmptySet, RegistryAssumption DEF WithinCapacity
<1> QED
  BY <1>1, CapacityStep, RegistryInvariant, PTL DEF Spec
-----------------------------------------------------------------------------
(* Eviction                                                                *)

\* Every set of ids is finite.
LEMMA IdsFinite ==
  \A S \in SUBSET Id : IsFiniteSet(S) /\ Cardinality(S) \in Nat
<1>1. 1 \in Int /\ MaxTasks \in Int
  BY RegistryAssumption
<1>2. IsFiniteSet(Id)
  BY <1>1, FS_Interval DEF Id
<1> QED
  BY <1>2, FS_Subset, FS_CardinalityType

\* A registry within its bound reclaims one entry at most, the oldest result,
\* only when it is full, and then has room.
LEMMA ReclaimsOne ==
  ASSUME NEW stat, NEW gone \in SUBSET Id, NEW i \in gone, Reclaims(stat, gone),
         Cardinality({j \in Id : stat[j] # "absent"}) <= MaxEntries
  PROVE  /\ gone = {i} /\ stat[i] \in Final
         /\ Cardinality({j \in Id : stat[j] # "absent"}) = MaxEntries
         /\ ~Full({j \in Id : Without(stat, gone)[j] # "absent"})
         /\ \A j \in Id : stat[j] \in Final /\ j # i => updated[i] <= updated[j]
<1> DEFINE present == {j \in Id : stat[j] # "absent"}
           terminal == {j \in Id : stat[j] \in Final}
           left == {j \in Id : Without(stat, gone)[j] # "absent"}
<1>1. /\ IsFiniteSet(present) /\ Cardinality(present) \in Nat
      /\ IsFiniteSet(terminal) /\ Cardinality(terminal) \in Nat
      /\ IsFiniteSet(gone) /\ Cardinality(gone) \in Nat
  BY IdsFinite
<1>2. i \in Id /\ i \in terminal /\ i \in present
  BY DEF Reclaims, Final
<1>3. Cardinality(present) = MaxEntries
  BY <1>1, RegistryAssumption DEF Reclaims
<1>4. Cardinality(terminal) # 0
  BY <1>1, <1>2, FS_EmptySet
<1>5. Cardinality(gone) = IF Cardinality(terminal) < (Cardinality(present) - MaxEntries) + 1
                          THEN Cardinality(terminal) ELSE (Cardinality(present) - MaxEntries) + 1
  BY <1>1, <1>3, RegistryAssumption DEF Reclaims
<1>6. Cardinality(gone) = 1
  <2> HIDE DEF present, terminal
  <2> QED
    BY <1>1, <1>3, <1>4, <1>5, RegistryAssumption
<1>7. gone = {i}
  BY <1>1, <1>6, FS_Singleton
<1>8. left = present \ {i}
  BY <1>7 DEF Without
<1>9. Cardinality(left) = MaxEntries - 1
  <2> HIDE DEF present, left
  <2> QED
    BY <1>1, <1>2, <1>3, <1>8, FS_RemoveElement
<1>10. \A j \in Id : stat[j] \in Final /\ j # i => updated[i] <= updated[j]
  BY <1>3, <1>7, RegistryAssumption DEF Reclaims
<1> HIDE DEF left, present
<1>11. ~Full(left)
  BY <1>9, RegistryAssumption DEF Full
<1> QED
  BY <1>2, <1>3, <1>7, <1>10, <1>11 DEF left, present

\* A step other than create_keyed drops a result only when its time is over.
LEMMA OthersDropExpired ==
  ASSUME RegistryInv, [Next]_vars, ~ \E o \in Owner, k \in Key : CreateKeyed(o, k),
         NEW i \in Present, status'[i] = "absent"
  PROVE  clock - updated[i] >= Ttl
<1> USE RegistryAssumption
<1>0. /\ i \in Id /\ status[i] # "absent" /\ clock \in Nat /\ updated[i] \in Nat
      /\ status \in [Id -> {"absent", "running"} \cup Final]
      /\ updated \in [Id -> 0 .. clock]
  BY DEF RegistryInv, TypeOK, Present
<1>1. ASSUME NEW j \in Id, JobStep(j) PROVE clock - updated[i] >= Ttl
  <2>1. PICK final \in Final : SettleIfRunning(j, final)
    BY <1>1, JobSettles
  <2>2. Settle(j, final)
    BY <1>0, <2>1 DEF SettleIfRunning, entry
  <2> DEFINE upd == [updated EXCEPT ![j] = clock]
             stat == [status EXCEPT ![j] = final]
  <2>3. status'[i] = IF i \in Expired(stat, upd) THEN "absent" ELSE stat[i]
    BY <1>0, <2>2 DEF Settle, Without
  <2>4. stat[i] # "absent"
    BY <1>0, <2>1 DEF Final
  <2>5. clock - upd[i] >= Ttl
    BY <2>3, <2>4 DEF Expired
  <2>6. upd[i] = IF i = j THEN clock ELSE updated[i]
    BY <1>0
  <2> QED
    BY <1>0, <2>5, <2>6
<1>2. ASSUME NEW which, RequestCancel(which) PROVE clock - updated[i] >= Ttl
  <2> DEFINE fresh == (which \cap Running) \ asked
             upd == [j \in Id |-> IF j \in fresh THEN clock ELSE updated[j]]
  <2>1. i \in Expired(status, upd)
    BY <1>0, <1>2 DEF RequestCancel, Without
  <2>2. status[i] \in Final /\ clock - upd[i] >= Ttl
    BY <2>1 DEF Expired
  <2>3. i \notin fresh
    BY <2>2 DEF Running, Final
  <2> QED
    BY <1>0, <2>2, <2>3
<1>3. CASE Get
  BY <1>0, <1>3 DEF Get, Without, Expired
<1>4. CASE UNCHANGED status
  BY <1>0, <1>4
<1> QED
  BY <1>1, <1>2, <1>3, <1>4
    DEF Next, vars, entry, SetCancelToken, UpdateMessage, CancelForOwner, CancelAllRunning,
        EndSession, Tick

\* create_keyed drops a result before its time only for the task it admits.
LEMMA CreateEvicts ==
  ASSUME RegistryInv, WithinCapacity, NEW o \in Owner, NEW k \in Key, CreateKeyed(o, k),
         NEW i \in Present, status'[i] = "absent", clock - updated[i] < Ttl
  PROVE  /\ created' = created + 1
         /\ Cardinality({j \in Present : status'[j] # "absent" \/ j = i}) = MaxEntries
         /\ \A j \in Present : status'[j] \in Final => updated[i] <= updated[j]
<1> USE RegistryAssumption
<1> DEFINE pruned == Without(status, Expired(status, updated))
           present == {j \in Id : pruned[j] # "absent"}
<1>0. /\ i \in Id /\ status[i] # "absent" /\ clock \in Nat
      /\ updated \in [Id -> 0 .. clock] /\ created \in Nat
      /\ status \in [Id -> {"absent", "running"} \cup Final]
      /\ Present \subseteq 1 .. created /\ Present \subseteq Id
  BY DEF RegistryInv, TypeOK, Present
<1>1. pruned[i] = status[i]
  BY <1>0 DEF Without, Expired
<1>2. \A j \in Id : pruned[j] \in {status[j], "absent"}
  BY DEF Without
<1>3. Cardinality(present) <= MaxEntries
  <2>1. present \subseteq Present /\ present \in SUBSET Id /\ Present \in SUBSET Id
    BY <1>2 DEF Present
  <2> HIDE DEF present
  <2>2. /\ IsFiniteSet(Present) /\ Cardinality(Present) \in Nat
        /\ Cardinality(present) \in Nat
    BY <2>1, IdsFinite
  <2>3. Cardinality(present) <= Cardinality(Present)
    BY <2>1, <2>2, FS_Subset
  <2> QED
    BY <2>2, <2>3 DEF WithinCapacity
<1>4. PICK gone \in SUBSET Id :
        /\ Reclaims(pruned, gone)
        /\ IF Full({j \in Id : Without(pruned, gone)[j] # "absent"})
           THEN Refuse(Without(pruned, gone), "full")
           ELSE Insert(Without(pruned, gone), created + 1, o, k)
  <2>1. ~ Refuse(pruned, "duplicate")
    BY <1>0, <1>1 DEF Refuse
  <2> QED
    BY <2>1 DEF CreateKeyed
<1> HIDE DEF pruned
<1>5. \A j \in Id : Without(pruned, gone)[j] = IF j \in gone THEN "absent" ELSE pruned[j]
  BY DEF Without
<1>6. i \in gone
  <2>1. CASE Refuse(Without(pruned, gone), "full")
    BY <1>0, <1>1, <1>5, <2>1 DEF Refuse
  <2>2. CASE Insert(Without(pruned, gone), created + 1, o, k)
    <3>1. created + 1 # i
      BY <1>0 DEF Present
    <3>2. Without(pruned, gone) \in [Id -> {pruned[j] : j \in Id} \cup {"absent"}]
      BY DEF Without
    <3>3. status'[i] = Without(pruned, gone)[i]
      BY <1>0, <2>2, <3>1, <3>2 DEF Insert
    <3> QED
      BY <1>0, <1>1, <1>5, <3>3
  <2> QED
    BY <1>4, <2>1, <2>2
<1>7. /\ gone = {i} /\ Cardinality(present) = MaxEntries
      /\ ~Full({j \in Id : Without(pruned, gone)[j] # "absent"})
      /\ \A j \in Id : pruned[j] \in Final /\ j # i => updated[i] <= updated[j]
  BY <1>3, <1>4, <1>6, ReclaimsOne
<1>8. Insert(Without(pruned, gone), created + 1, o, k)
  BY <1>4, <1>7
<1>9. \A j \in Present : status'[j] = IF j = i THEN "absent" ELSE pruned[j]
  <2>1. \A j \in Present : created + 1 # j /\ j \in Id
    BY <1>0
  <2>2. Without(pruned, gone) \in [Id -> {pruned[j] : j \in Id} \cup {"absent"}]
    BY DEF Without
  <2>3. \A j \in Present : status'[j] = Without(pruned, gone)[j]
    BY <1>8, <2>1, <2>2 DEF Insert
  <2> QED
    BY <1>5, <1>7, <2>1, <2>3
<1>10. {j \in Present : status'[j] # "absent" \/ j = i} = present
  BY <1>0, <1>1, <1>2, <1>9 DEF Present
<1>11. \A j \in Present : status'[j] \in Final => updated[i] <= updated[j]
  BY <1>0, <1>7, <1>9 DEF Final
<1> QED
  BY <1>7, <1>8, <1>10, <1>11 DEF Insert

\* For every bound and any number of tasks: a result that is not yet
\* TASK_RETENTION_TTL_MS old is dropped only by create_keyed, to admit a task
\* into a full registry, and then no older result is kept.
THEOREM EvictionsAreOldest == Spec => EvictsOnlyOldest
<1>1. ASSUME RegistryInv, WithinCapacity, [Next]_vars
      PROVE  [\A i \in Present :
               (status'[i] = "absent" /\ clock - updated[i] < Ttl) =>
                  /\ created' = created + 1
                  /\ Cardinality({j \in Present : status'[j] # "absent" \/ j = i}) = MaxEntries
                  /\ \A j \in Present : status'[j] \in Final => updated[i] <= updated[j]]_vars
  <2> SUFFICES ASSUME NEW i \in Present, status'[i] = "absent", clock - updated[i] < Ttl
               PROVE  /\ created' = created + 1
                      /\ Cardinality({j \in Present : status'[j] # "absent" \/ j = i}) = MaxEntries
                      /\ \A j \in Present : status'[j] \in Final => updated[i] <= updated[j]
    OBVIOUS
  <2>1. clock - updated[i] \in Int /\ Ttl \in Nat
    BY <1>1, RegistryAssumption DEF RegistryInv, TypeOK, Present
  <2>2. \E o \in Owner, k \in Key : CreateKeyed(o, k)
    BY <1>1, <2>1, OthersDropExpired
  <2> QED
    BY <1>1, <2>2, CreateEvicts
<1> QED
  BY <1>1, RegistryInvariant, CapacityKept, PTL DEF Spec, EvictsOnlyOldest
================================================================================
