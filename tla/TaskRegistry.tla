------------------------------ MODULE TaskRegistry ------------------------------
(***************************************************************************)
(* The registry of background tasks (server/task.rs) and the way the tools *)
(* open_dsc and analyze_funcs use it: create the task, spawn its job, then *)
(* register its cancellation token.                                        *)
(*                                                                         *)
(* An entry of the HashMap is spread over functions of its id.  Every      *)
(* method holds the registry's mutex from beginning to end, so a method is *)
(* one step.                                                               *)
(***************************************************************************)
EXTENDS Naturals, FiniteSets

CONSTANTS
  Session,      \* TaskOwner::Session
  Runtime,      \* TaskOwner::Runtime, shared by all sessionless requests
  Key,          \* deduplication keys
  NoKey,
  MaxEntries,   \* MAX_TASK_REGISTRY_ENTRIES
  Ttl,          \* TASK_RETENTION_TTL_MS, in ticks of the clock
  MaxTasks,     \* bound on the tasks that are ever created
  MaxClock      \* bound on time

Owner == Session \cup {Runtime}
Id == 1..MaxTasks
Final == {"completed", "failed", "cancelled"}

ASSUME RegistryAssumption ==
  /\ Runtime \notin Session /\ NoKey \notin Key
  /\ MaxEntries \in Nat \ {0} /\ Ttl \in Nat \ {0}
  /\ MaxTasks \in Nat /\ MaxClock \in Nat

VARIABLES
  status,      \* "absent" when the map has no such entry
  owner, key,
  updated,     \* updated_at
  asked,       \* entries with cancel_requested
  registered,  \* entries with a cancel_token
  cancelled,   \* tasks whose CancellationToken is cancelled
  created,     \* ids drawn so far
  unhanded,    \* tasks whose set_cancel_token is still to come
  jobs,        \* spawned futures that have not returned; a job is spawned with its
               \* entry, as nothing says when it takes its first step
  ended,       \* sessions whose handler was dropped
  clock,
  answer       \* why create_keyed refused, when that was the last step

entry == <<status, owner, key, updated, asked, registered>>
vars == <<entry, cancelled, created, unhanded, jobs, ended, clock, answer>>

Present == {i \in Id : status[i] # "absent"}
Running == {i \in Id : status[i] = "running"}

Init ==
  /\ status = [i \in Id |-> "absent"]
  /\ owner = [i \in Id |-> Runtime] /\ key = [i \in Id |-> NoKey]
  /\ updated = [i \in Id |-> 0]
  /\ asked = {} /\ registered = {} /\ cancelled = {}
  /\ created = 0 /\ unhanded = {} /\ jobs = {} /\ ended = {}
  /\ clock = 0 /\ answer = "none"

-----------------------------------------------------------------------------
(* Sweeping                                                                *)

\* prune_terminal_tasks: the entries of stat that the sweep removes.
Expired(stat, upd) ==
  {i \in Id : stat[i] \in Final /\ clock - upd[i] >= Ttl}

Without(stat, gone) == [i \in Id |-> IF i \in gone THEN "absent" ELSE stat[i]]

\* Mutant: sorts the wrong way and drops the most recent result.
ReclaimsNewest(stat, gone) ==
  LET terminal == {i \in Id : stat[i] \in Final}
      present == {i \in Id : stat[i] # "absent"}
  IN IF Cardinality(present) < MaxEntries \/ terminal = {} THEN gone = {}
     ELSE /\ gone \in SUBSET terminal
          /\ Cardinality(gone) = 1
          /\ \A i \in gone, j \in terminal \ gone : updated[i] >= updated[j]

\* reclaim_capacity_for_admission: the entries gone make room for one more.  Ties
\* on updated_at are broken by the random id.
Reclaims(stat, gone) ==
  LET terminal == {i \in Id : stat[i] \in Final}
      present == {i \in Id : stat[i] # "absent"}
      excess == (Cardinality(present) - MaxEntries) + 1
  IN IF Cardinality(present) < MaxEntries THEN gone = {}
     ELSE /\ gone \in SUBSET terminal
          /\ Cardinality(gone) = IF Cardinality(terminal) < excess THEN Cardinality(terminal) ELSE excess
          /\ \A i \in gone, j \in terminal \ gone : updated[i] <= updated[j]

\* Entries that leave the map take their fields with them.
Forget(gone, upd) ==
  /\ asked' = asked \ gone
  /\ registered' = registered \ gone
  /\ updated' = [i \in Id |-> IF i \in gone THEN 0 ELSE upd[i]]

-----------------------------------------------------------------------------
(* Creating a task: create_keyed, then set_cancel_token                    *)

\* Err(..), after the sweep.
Refuse(stat, why) ==
  /\ status' = stat
  /\ Forget({i \in Present : stat[i] = "absent"}, updated)
  /\ answer' = why
  /\ UNCHANGED <<owner, key, cancelled, created, unhanded, jobs, ended, clock>>

Insert(left, id, o, k) ==
  /\ status' = [left EXCEPT ![id] = "running"]
  /\ owner' = [owner EXCEPT ![id] = o]
  /\ key' = [key EXCEPT ![id] = k]
  /\ Forget({i \in Present : left[i] = "absent"}, [updated EXCEPT ![id] = clock])
  /\ created' = id
  /\ jobs' = jobs \cup {id}
  /\ unhanded' = unhanded \cup {id}
  /\ answer' = "none"
  /\ UNCHANGED <<cancelled, ended, clock>>

\* Mutant: only the asker's own tasks count as duplicates.
OwnSameWork(stat, o, k) == {i \in Id : stat[i] = "running" /\ key[i] = k /\ owner[i] = o}

\* Running tasks that do the same work already, whoever owns them.
SameWork(stat, o, k) == {i \in Id : stat[i] = "running" /\ key[i] = k}

Full(present) == Cardinality(present) >= MaxEntries

\* TaskRegistry::create_keyed.  A duplicate is refused with the id of the running
\* task (AlreadyRunning) or, to another owner, without it.
CreateKeyed(o, k) ==
  LET pruned == Without(status, Expired(status, updated))
  IN /\ o \notin ended
     /\ created < MaxTasks
     /\ \/ /\ SameWork(pruned, o, k) # {}
           /\ Refuse(pruned, "duplicate")
        \/ /\ SameWork(pruned, o, k) = {}
           /\ \E gone \in SUBSET Id :
                LET left == Without(pruned, gone)
                IN /\ Reclaims(pruned, gone)
                   /\ IF Full({i \in Id : left[i] # "absent"}) THEN Refuse(left, "full")
                      ELSE Insert(left, created + 1, o, k)

\* Mutant: forgets a request to cancel that came first.
SetCancelTokenOnly(i) ==
  /\ i \in unhanded
  /\ unhanded' = unhanded \ {i}
  /\ registered' = registered \cup ({i} \cap Present)
  /\ answer' = "none"
  /\ UNCHANGED <<status, owner, key, updated, asked, cancelled, created, jobs, ended, clock>>

\* TaskRegistry::set_cancel_token, after the spawn: the job may be done by now.
SetCancelToken(i) ==
  /\ i \in unhanded
  /\ unhanded' = unhanded \ {i}
  /\ registered' = registered \cup ({i} \cap Present)
  /\ cancelled' = cancelled \cup ({i} \cap asked)
  /\ answer' = "none"
  /\ UNCHANGED <<status, owner, key, updated, asked, created, jobs, ended, clock>>

-----------------------------------------------------------------------------
(* Settling: the last thing that a job does                                *)

\* A terminal transition of a running entry, with refresh_updated,
\* clear_runtime and the sweep that follows.  The job returns.
Settle(i, final) ==
  LET upd == [updated EXCEPT ![i] = clock]
      stat == [status EXCEPT ![i] = final]
      gone == Expired(stat, upd)
  IN /\ status' = Without(stat, gone)
     /\ updated' = [j \in Id |-> IF j \in gone THEN 0 ELSE upd[j]]
     /\ asked' = asked \ (gone \cup {i})
     /\ registered' = registered \ (gone \cup {i})
     /\ jobs' = jobs \ {i}
     /\ answer' = "none"
     /\ UNCHANGED <<owner, key, cancelled, created, unhanded, ended, clock>>

\* TaskSettlement::Unchanged when the entry is not running: only the job ends.
SettleIfRunning(i, final) ==
  IF status[i] = "running" THEN Settle(i, final)
  ELSE /\ jobs' = jobs \ {i}
       /\ answer' = "none"
       /\ UNCHANGED <<entry, cancelled, created, unhanded, ended, clock>>

\* Mutant: the result of the work wins over a request to cancel.
ResultWins(i, final) == SettleIfRunning(i, final)

\* TaskEntry::complete and TaskEntry::fail: a pending request to cancel wins.
CompleteOrFail(i, final) ==
  SettleIfRunning(i, IF i \in asked THEN "cancelled" ELSE final)

Fail(i) == i \in jobs /\ CompleteOrFail(i, "failed")

FinishCancelled(i) == i \in jobs /\ SettleIfRunning(i, "cancelled")

\* complete_with_cancel_token: the token is looked at before the entry.
CompleteWithCancelToken(i) ==
  /\ i \in jobs
  /\ IF i \in cancelled THEN SettleIfRunning(i, "cancelled") ELSE CompleteOrFail(i, "completed")

\* complete_or_defer_cancellation.  A pending cancellation changes nothing here:
\* the job cleans up and settles the task later.
CompleteOrDefer(i) ==
  /\ i \in jobs
  /\ status[i] = "running" => i \notin cancelled \cup asked
  /\ SettleIfRunning(i, "completed")

\* fail_after_cleanup_error: even a task that was cancelled fails.
FailAfterCleanupError(i) == i \in jobs /\ SettleIfRunning(i, "failed")

JobStep(i) ==
  \/ Fail(i) \/ FinishCancelled(i) \/ CompleteWithCancelToken(i)
  \/ CompleteOrDefer(i) \/ FailAfterCleanupError(i)

-----------------------------------------------------------------------------
(* Polling, progress, cancellation                                         *)

\* TaskEntry::update_message, by a job or by the task that drains its progress
\* messages and may be late.
UpdateMessage(i) ==
  /\ i \in Id /\ i <= created
  /\ updated' = IF i \in Running \ asked THEN [updated EXCEPT ![i] = clock] ELSE updated
  /\ answer' = "none"
  /\ UNCHANGED <<status, owner, key, asked, registered, cancelled, created, unhanded,
                 jobs, ended, clock>>

\* get and get_for_owner: a poll sweeps, and reclaims nothing.
Get ==
  LET gone == Expired(status, updated)
  IN /\ status' = Without(status, gone)
     /\ Forget(gone, updated)
     /\ answer' = "none"
     /\ UNCHANGED <<owner, key, cancelled, created, unhanded, jobs, ended, clock>>

\* TaskEntry::request_cancel on the entries of which, then the sweep.
RequestCancel(which) ==
  LET fresh == (which \cap Running) \ asked
      upd == [i \in Id |-> IF i \in fresh THEN clock ELSE updated[i]]
      gone == IF fresh = {} THEN {} ELSE Expired(status, upd)
  IN /\ status' = Without(status, gone)
     /\ updated' = [i \in Id |-> IF i \in gone THEN 0 ELSE upd[i]]
     /\ asked' = (asked \cup fresh) \ gone
     /\ registered' = registered \ gone
     /\ cancelled' = cancelled \cup (fresh \cap registered)
     /\ answer' = "none"
     /\ UNCHANGED <<owner, key, created, unhanded, jobs, ended, clock>>

\* cancel_task: a client cancels one of its own tasks.
CancelForOwner(o, i) == o \notin ended /\ owner[i] = o /\ i \in Present /\ RequestCancel({i})

\* cancel_background_tasks at shutdown and at the end of a stdio connection.
CancelAllRunning == Running # {} /\ RequestCancel(Running)

\* Drop for SessionLifetime: the handler of a legacy session is dropped, and
\* every child token of its lifetime is cancelled.  A request that starts a task
\* keeps the handler alive.
EndSession(s) ==
  /\ s \in Session \ ended
  /\ \A i \in unhanded : owner[i] # s
  /\ ended' = ended \cup {s}
  /\ cancelled' = cancelled \cup {i \in 1..created : owner[i] = s}
  /\ answer' = "none"
  /\ UNCHANGED <<entry, created, unhanded, jobs, clock>>

Tick ==
  /\ clock < MaxClock
  /\ clock' = clock + 1
  /\ answer' = "none"
  /\ UNCHANGED <<entry, cancelled, created, unhanded, jobs, ended>>

Next ==
  \/ \E o \in Owner, k \in Key : CreateKeyed(o, k)
  \/ \E i \in Id : \/ SetCancelToken(i) \/ JobStep(i) \/ UpdateMessage(i)
                   \/ \E o \in Owner : CancelForOwner(o, i)
  \/ \E s \in Session : EndSession(s)
  \/ CancelAllRunning \/ Get \/ Tick

Spec == Init /\ [][Next]_vars
-----------------------------------------------------------------------------
(* Properties                                                              *)

\* The registry's variables have their types; no time stamp lies in the future.
TypeOK ==
  /\ status \in [Id -> {"absent", "running"} \cup Final]
  /\ owner \in [Id -> Owner] /\ key \in [Id -> Key \cup {NoKey}]
  /\ updated \in [Id -> 0..clock]
  /\ asked \subseteq Id /\ registered \subseteq Id /\ cancelled \subseteq Id
  /\ created \in 0..MaxTasks /\ unhanded \subseteq Id /\ jobs \subseteq Id
  /\ ended \subseteq Session /\ clock \in Nat
  /\ answer \in {"none", "duplicate", "full"}

\* A task is running exactly as long as its job has not returned: no terminal or
\* forgotten task has work behind it, no running task was left behind by its job.
WorkIsTracked == jobs = Running

\* create_keyed never lets two tasks with the same key run at once, whoever asks
\* and whatever expires or is reclaimed in between.
OneRunningPerKey ==
  \A i, j \in Running : key[i] = key[j] => i = j

\* Running and terminal tasks together never exceed the registry's bound.
WithinCapacity == Cardinality(Present) <= MaxEntries

\* A request to cancel reaches the job, also when it comes between the spawn and
\* set_cancel_token.
CancelReachesJob == asked \ unhanded \subseteq cancelled

\* What the proofs need besides: flags belong to running entries, a handed token
\* is registered as long as its task runs, ids are fresh.
RegistryInv ==
  /\ TypeOK /\ WorkIsTracked /\ OneRunningPerKey /\ CancelReachesJob
  /\ asked \subseteq Running
  /\ Running \ unhanded \subseteq registered
  /\ Present \subseteq 1..created

\* A result is dropped before its time only to admit a new task into a full
\* registry, and then no older result is kept.
EvictsOnlyOldest ==
  [][\A i \in Present :
       (status'[i] = "absent" /\ clock - updated[i] < Ttl) =>
          /\ created' = created + 1
          /\ Cardinality({j \in Present : status'[j] # "absent" \/ j = i}) = MaxEntries
          /\ \A j \in Present : status'[j] \in Final => updated[i] <= updated[j]]_vars

\* What clients see of the tasks.
TaskPhase ==
  [i \in Id |-> IF i > created THEN "unborn"
                ELSE IF status[i] = "absent" THEN "gone"
                ELSE IF status[i] # "running" THEN status[i]
                ELSE IF i \in asked THEN "cancelling" ELSE "working"]

Lifecycle == INSTANCE TaskLifecycle WITH phase <- TaskPhase

\* The registry implements the life cycle that clients rely on: cancelled work
\* never completes, terminal states are final and readable, running work stays.
ImplementsLifecycle == Lifecycle!Spec
================================================================================
