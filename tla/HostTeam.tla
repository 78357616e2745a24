------------------------------- MODULE HostTeam -------------------------------
(***************************************************************************)
(* The thread pool of the OpenMP back end: HostThreadTeamData, the         *)
(* HostBarrier its members meet at, and the parallel_for of a RangePolicy, *)
(* MDRangePolicy (over its tiles) or TeamPolicy that runs on it.           *)
(*                                                                         *)
(* A launch starts every thread of the pool and returns when all have      *)
(* joined.  The threads form teams (of one thread, except for a            *)
(* TeamPolicy), each team gets a block of chunks, and with the dynamic     *)
(* schedule a team whose block is used up steals from the end of others.   *)
(* A step is one access to memory that other threads use.                  *)
(***************************************************************************)
EXTENDS HostTiles, Sequences

CONSTANTS
  PoolSize,   \* threads in the pool
  Programs,   \* the sequences of policies that may be launched
  IntMax      \* numeric_limits<int>::max()

Threads == 0 .. PoolSize - 1

Policies == UNION {{program[i] : i \in DOMAIN program} : program \in Programs}

(***************************************************************************)
(* A policy: how many iterations, how many of them in a chunk, whether the *)
(* schedule is dynamic, and how many threads in a team.                    *)
(***************************************************************************)
MinChunk(p) == (p.length + IntMax) \div IntMax

Chunk(p) == IF p.chunk > MinChunk(p) THEN p.chunk ELSE MinChunk(p)

\* organize_team: the number of teams, the distance of their first threads,
\* and whether the pool has room for a full team from a thread on.
LeagueSize(p) == PoolSize \div p.team

Alloc(p) == PoolSize \div LeagueSize(p)

League(p, t) == t \div Alloc(p)

Base(p, t) == League(p, t) * Alloc(p)

Fits(p, base) == base + p.team <= PoolSize

\* m_team_rank is not -1: the thread is in a full team.
Active(p, t) == Fits(p, Base(p, t)) /\ t % Alloc(p) < p.team

Teammates(p, t) == {u \in Threads : Active(p, u) /\ Base(p, u) = Base(p, t)}

\* The chunks of a team before the launch has executed any.
FirstChunk(p, league) == PartSize(p.length, Chunk(p), LeagueSize(p)) * league

\* Mutant of StealAfter: the victims do not start again with the first team.
StealOnward(p, base) == base + Alloc(p)

\* Whom to steal from after the team of base.
StealAfter(p, base) ==
  IF Fits(p, base + Alloc(p)) THEN base + Alloc(p) ELSE 0

ASSUME TeamAssumption ==
  /\ PoolSize \in Nat \ {0}
  /\ IntMax \in Nat \ {0}
  /\ \A program \in Programs : program \in Seq(Policies) /\ program # << >>
  /\ Policies \subseteq [length : Nat, chunk : Nat \ {0}, dynamic : BOOLEAN,
                         team : 1 .. PoolSize]
  \* get_work_stealing_chunk computes the first iteration of a chunk in int.
  /\ \A p \in Policies :
       p.dynamic => FirstChunk(p, LeagueSize(p)) * Chunk(p) <= IntMax

VARIABLES
  todo,      \* the launches still to be made
  policy,    \* the policy of the latest launch
  at,        \* where each thread is
  step,      \* m_pool_rendezvous_step and m_team_rendezvous_step
  barrier,   \* the pool's barrier, and one in the memory of each thread
  work,      \* m_work_range, in chunks
  steal,     \* m_steal_rank
  w,         \* the local pair of get_work_stealing
  teamIndex, \* the index a team's master shares, in the memory of its base
  range,     \* the iterations the thread is executing, the current one first
  executed   \* history: how often each thread has executed each iteration

teamVars == <<todo, policy, at, step, barrier, work, steal, w, teamIndex,
              range, executed>>

-----------------------------------------------------------------------------
(* Where a thread can be: at a label, or in a rendezvous of its team or of *)
(* the pool with the label it continues from.                              *)

At(label) == [label |-> label, scope |-> "none", back |-> "none"]

Size(scope) == IF scope = "pool" THEN PoolSize ELSE policy.team

Rendezvous(scope, back) ==
  IF Size(scope) = 1
    THEN At(back)
    ELSE [label |-> "arrive", scope |-> scope, back |-> back]

\* The call of get_work_stealing: of a whole team, by its master.
Take == IF policy.team = 1 THEN At("try_own") ELSE Rendezvous("team", "take")

\* A thread that has the chunk i goes to its first iteration, if there is one.
ChunkRange(i) ==
  LET first == Chunk(policy) * i
  IN  <<first, IF first + Chunk(policy) < policy.length
                 THEN first + Chunk(policy) ELSE policy.length>>

WithChunk(i) ==
  IF i < 0 THEN At("joined")
  ELSE IF ChunkRange(i)[1] < ChunkRange(i)[2] THEN At("item")
  ELSE Take

RendezvousRank(t) ==
  IF at[t].scope = "pool" THEN t ELSE t - Base(policy, t)

\* The barrier a thread is in: the pool's is in the memory of thread 0.
PoolPlace == -1

Place(t) == IF at[t].scope = "pool" THEN PoolPlace ELSE Base(policy, t)

Places == {PoolPlace} \cup Threads

NewBarrier == [arrive |-> 0, master |-> 0, wait |-> 0]

Goto(t, where) == at' = [at EXCEPT ![t] = where]

-----------------------------------------------------------------------------
(* HostBarrier.                                                            *)

\* split_arrive: the step and the atomic increment, by all but the last thread
\* or by the last one, ...
Arrive(t) ==
  /\ at[t].label = "arrive"
  /\ step' = [step EXCEPT ![t][at[t].scope] = @ + 1]
  /\ barrier' = [barrier EXCEPT ![Place(t)].arrive = @ + 1]
  /\ Goto(t, [at[t] EXCEPT !.label =
                IF barrier[Place(t)].arrive = Size(at[t].scope) - 1
                  THEN "signal" ELSE "wait"])
  /\ UNCHANGED <<todo, policy, work, steal, w, teamIndex, range, executed>>

\* ... who tells the master.
Signal(t) ==
  /\ at[t].label = "signal"
  /\ barrier' = [barrier EXCEPT ![Place(t)].master = @ + 1]
  /\ Goto(t, [at[t] EXCEPT !.label = "wait"])
  /\ UNCHANGED <<todo, policy, step, work, steal, w, teamIndex, range,
                 executed>>

\* split_master_wait: the master goes on when all have arrived, at once to the
\* release or first to the stealing for its team.
MasterWait(t) ==
  /\ at[t].label = "wait"
  /\ RendezvousRank(t) = 0
  /\ barrier[Place(t)].master = step[t][at[t].scope]
  /\ Goto(t, IF at[t].back = "take"
               THEN At("try_own") ELSE [at[t] EXCEPT !.label = "clear"])
  /\ UNCHANGED <<todo, policy, step, barrier, work, steal, w, teamIndex,
                 range, executed>>

\* wait: the others go on when the master has released them.
Wait(t) ==
  /\ at[t].label = "wait"
  /\ RendezvousRank(t) # 0
  /\ barrier[Place(t)].wait = step[t][at[t].scope]
  /\ Goto(t, At(IF at[t].back = "take" THEN "read_index" ELSE at[t].back))
  /\ UNCHANGED <<todo, policy, step, barrier, work, steal, w, teamIndex,
                 range, executed>>

\* Mutant of Clear: the arrivals of the round are not taken back.
NoClear(t) ==
  /\ at[t].label = "clear"
  /\ Goto(t, [at[t] EXCEPT !.label = "release"])
  /\ UNCHANGED <<todo, policy, step, barrier, work, steal, w, teamIndex,
                 range, executed>>

\* split_release: first the arrivals are taken back, then the others may go.
Clear(t) ==
  /\ at[t].label = "clear"
  /\ barrier' = [barrier EXCEPT ![Place(t)].arrive = @ - Size(at[t].scope)]
  /\ Goto(t, [at[t] EXCEPT !.label = "release"])
  /\ UNCHANGED <<todo, policy, step, work, steal, w, teamIndex, range,
                 executed>>

Release(t) ==
  /\ at[t].label = "release"
  /\ barrier' = [barrier EXCEPT ![Place(t)].wait = @ + 1]
  /\ Goto(t, IF at[t].back = "chunk" THEN WithChunk(w[t][1]) ELSE At(at[t].back))
  /\ range' = IF at[t].back = "chunk"
                THEN [range EXCEPT ![t] = ChunkRange(w[t][1])] ELSE range
  /\ UNCHANGED <<todo, policy, step, work, steal, w, teamIndex, executed>>

Barrier(t) ==
  Arrive(t) \/ Signal(t) \/ MasterWait(t) \/ Wait(t) \/ Clear(t) \/ Release(t)

-----------------------------------------------------------------------------
(* HostThreadTeamData: the organisation of a launch.                       *)

\* organize_team with a team size above 1: the first thread of a team clears the
\* barrier in its memory, and the whole pool meets before it is used.
Organize(t) ==
  /\ at[t].label = "organize"
  /\ step' = [step EXCEPT ![t].team = 0]
  /\ barrier' = IF Base(policy, t) = t
                  THEN [barrier EXCEPT ![t] = NewBarrier] ELSE barrier
  /\ Goto(t, Rendezvous("pool", "partition"))
  /\ UNCHANGED <<todo, policy, work, steal, w, teamIndex, range, executed>>

\* Mutant of AfterPartition: the stealing starts without the rendezvous.
StealAtOnce(t) ==
  IF policy.dynamic
    THEN IF Active(policy, t) THEN Take ELSE At("joined")
    ELSE IF Active(policy, t) THEN At("own_block") ELSE At("joined")

AfterPartition(t) ==
  IF policy.dynamic THEN Rendezvous("pool", "partitioned")
  ELSE IF Active(policy, t) THEN At("own_block")
  ELSE At("joined")

\* set_work_partition, by the threads that are in a team.
SetWorkPartition(t) ==
  /\ at[t].label = "partition"
  /\ IF Active(policy, t)
       THEN LET l == League(policy, t)
            IN  /\ work' = [work EXCEPT ![t] = <<FirstChunk(policy, l),
                                                 FirstChunk(policy, l + 1)>>]
                /\ steal' = [steal EXCEPT ![t] =
                               StealAfter(policy, Base(policy, t))]
       ELSE UNCHANGED <<work, steal>>
  /\ Goto(t, AfterPartition(t))
  /\ UNCHANGED <<todo, policy, step, barrier, w, teamIndex, range, executed>>

\* Behind the pool's rendezvous the stealing loop begins.
StartStealing(t) ==
  /\ at[t].label = "partitioned"
  /\ Goto(t, IF Active(policy, t) THEN Take ELSE At("joined"))
  /\ UNCHANGED <<todo, policy, step, barrier, work, steal, w, teamIndex,
                 range, executed>>

\* get_work_partition, for the static schedule: the whole block at once.
OwnBlock(t) ==
  /\ at[t].label = "own_block"
  /\ LET l == League(policy, t)
         first == PartFirst(policy.length, Chunk(policy), LeagueSize(policy), l)
         end == PartEnd(policy.length, Chunk(policy), LeagueSize(policy), l)
     IN  /\ range' = [range EXCEPT ![t] = <<first, end>>]
         /\ Goto(t, At(IF first < end THEN "item" ELSE "joined"))
  /\ UNCHANGED <<todo, policy, step, barrier, work, steal, w, teamIndex,
                 executed>>

-----------------------------------------------------------------------------
(* get_work_stealing, by the master of a team.                             *)

Nothing == <<-1, -1>>

\* The master has an index, or -1: a team shares it first.
Got(t, i) ==
  IF policy.team = 1
    THEN /\ Goto(t, WithChunk(i))
         /\ range' = [range EXCEPT ![t] = IF i < 0 THEN @ ELSE ChunkRange(i)]
    ELSE /\ Goto(t, At("share"))
         /\ UNCHANGED range

\* Mutant of CompareExchange: the new value is stored without the comparison.
ExchangeAnyway(victim, old, new) ==
  [work EXCEPT ![victim] = IF work[victim][1] < work[victim][2] THEN new ELSE @]

\* Mutant of CompareExchange: only the first half of the pair is compared.
CompareFirst(victim, old, new) ==
  [work EXCEPT ![victim] = IF @[1] = old[1] THEN new ELSE @]

CompareExchange(victim, old, new) ==
  [work EXCEPT ![victim] = IF @ = old THEN new ELSE @]

Viable(victim) == work[victim][1] < work[victim][2]

\* The test without atomics that the first loop begins with.
TryOwn(t) ==
  /\ at[t].label = "try_own"
  /\ w' = [w EXCEPT ![t] = Nothing]
  /\ \/ Viable(t) /\ Goto(t, At("own")) /\ UNCHANGED range
     \/ ~ Viable(t) /\ steal[t] # t /\ Goto(t, At("steal")) /\ UNCHANGED range
     \/ ~ Viable(t) /\ steal[t] = t /\ Got(t, -1)
  /\ UNCHANGED <<todo, policy, step, barrier, work, steal, teamIndex,
                 executed>>

\* A turn of the first loop: the front of the team's own block.
TakeOwn(t) ==
  /\ at[t].label = "own"
  /\ work' = CompareExchange(t, w[t], <<w[t][1] + 1, w[t][2]>>)
  /\ \/ /\ Viable(t) /\ w[t] = work[t]
        /\ w' = [w EXCEPT ![t] = work[t]]
        /\ Got(t, work[t][1])
     \/ /\ Viable(t) /\ w[t] # work[t]
        /\ w' = [w EXCEPT ![t] = work[t]]
        /\ UNCHANGED <<at, range>>
     \/ /\ ~ Viable(t)
        /\ w' = [w EXCEPT ![t] = Nothing]
        /\ IF steal[t] # t THEN Goto(t, At("steal")) /\ UNCHANGED range
                           ELSE Got(t, -1)
  /\ UNCHANGED <<todo, policy, step, barrier, steal, teamIndex, executed>>

\* A turn of the second loop: the end of the block of another team, or the next
\* team when nothing is left there.
StealFromOther(t) ==
  /\ at[t].label = "steal"
  /\ LET victim == steal[t]
     IN  /\ work' = CompareExchange(victim, w[t], <<w[t][1], w[t][2] - 1>>)
         /\ \/ /\ Viable(victim) /\ w[t] = work[victim]
               /\ w' = [w EXCEPT ![t][1] = work[victim][2] - 1]
               /\ Got(t, work[victim][2] - 1)
               /\ UNCHANGED steal
            \/ /\ Viable(victim) /\ w[t] # work[victim]
               /\ w' = [w EXCEPT ![t] = work[victim]]
               /\ UNCHANGED <<at, range, steal>>
            \/ /\ ~ Viable(victim)
               /\ w' = [w EXCEPT ![t] = Nothing]
               /\ steal' = [steal EXCEPT ![t] = StealAfter(policy, victim)]
               /\ IF StealAfter(policy, victim) # t THEN UNCHANGED <<at, range>>
                                                    ELSE Got(t, -1)
  /\ UNCHANGED <<todo, policy, step, barrier, teamIndex, executed>>

\* The master shares its index through team_reduce and releases its team ...
ShareIndex(t) ==
  /\ at[t].label = "share"
  /\ teamIndex' = [teamIndex EXCEPT ![Base(policy, t)] = w[t][1]]
  /\ Goto(t, [label |-> "clear", scope |-> "team", back |-> "chunk"])
  /\ UNCHANGED <<todo, policy, step, barrier, work, steal, w, range, executed>>

\* ... and each member reads it.
ReadIndex(t) ==
  /\ at[t].label = "read_index"
  /\ LET i == teamIndex[Base(policy, t)]
     IN  /\ Goto(t, WithChunk(i))
         /\ range' = [range EXCEPT ![t] = IF i < 0 THEN @ ELSE ChunkRange(i)]
  /\ UNCHANGED <<todo, policy, step, barrier, work, steal, w, teamIndex,
                 executed>>

-----------------------------------------------------------------------------
(* exec_range and exec_team: the iterations of a range one after the other.*)

\* Mutant of BetweenItems: the members of a team do not wait for each other.
NoTeamRendezvous == At("item")

\* The rendezvous that keeps the members of a team in the same iteration.
BetweenItems == Rendezvous("team", "item")

RunItem(t) ==
  /\ at[t].label = "item"
  /\ LET r == range[t][1]
     IN  /\ executed' = [executed EXCEPT ![r][t] = @ + 1]
         /\ IF r + 1 < range[t][2]
              THEN /\ range' = [range EXCEPT ![t][1] = r + 1]
                   /\ Goto(t, BetweenItems)
              ELSE /\ Goto(t, IF policy.dynamic THEN Take ELSE At("joined"))
                   /\ UNCHANGED range
  /\ UNCHANGED <<todo, policy, step, barrier, work, steal, w, teamIndex>>

Thread(t) ==
  \/ Barrier(t)
  \/ Organize(t) \/ SetWorkPartition(t) \/ StartStealing(t) \/ OwnBlock(t)
  \/ TryOwn(t) \/ TakeOwn(t) \/ StealFromOther(t)
  \/ ShareIndex(t) \/ ReadIndex(t)
  \/ RunItem(t)

-----------------------------------------------------------------------------
(* The thread that launches.                                               *)

AllJoined == \A t \in Threads : at[t].label = "joined"

Begin(p) == At(IF p.team > 1 THEN "organize" ELSE "partition")

Iterations == UNION {0 .. p.length - 1 : p \in Policies}

NoSteps == [t \in Threads |-> [pool |-> 0, team |-> 0]]

\* Mutant of Resized: the threads keep their steps.
KeepsSteps ==
  /\ barrier' = [s \in Places |-> NewBarrier]
  /\ work' = [t \in Threads |-> Nothing]
  /\ UNCHANGED step

\* resize_thread_data allocates the memory of the pool anew.
Resized ==
  /\ barrier' = [s \in Places |-> NewBarrier]
  /\ work' = [t \in Threads |-> Nothing]
  /\ step' = NoSteps

\* parallel_for: a TeamPolicy may need more memory than the pool has.
Launch ==
  /\ AllJoined
  /\ todo # << >>
  /\ todo' = Tail(todo)
  /\ policy' = Head(todo)
  /\ at' = [t \in Threads |-> Begin(Head(todo))]
  /\ \/ Head(todo).team > 1 /\ Resized
     \/ UNCHANGED <<step, barrier, work>>
  /\ w' = [t \in Threads |-> Nothing]
  /\ range' = [t \in Threads |-> <<0, 0>>]
  /\ executed' = [r \in Iterations |-> [t \in Threads |-> 0]]
  /\ UNCHANGED <<steal, teamIndex>>

Init ==
  /\ todo \in Programs
  /\ policy = Head(todo)
  /\ at = [t \in Threads |-> At("joined")]
  /\ step = NoSteps
  /\ barrier = [s \in Places |-> NewBarrier]
  /\ work = [t \in Threads |-> Nothing]
  /\ steal = [t \in Threads |-> 0]
  /\ w = [t \in Threads |-> Nothing]
  /\ teamIndex = [t \in Threads |-> 0]
  /\ range = [t \in Threads |-> <<0, 0>>]
  /\ executed = [r \in Iterations |-> [t \in Threads |-> 0]]

Next == Launch \/ \E t \in Threads : Thread(t)

\* Each thread of the pool runs on while it can; the program launches.
Fairness ==
  /\ WF_teamVars(Launch)
  /\ \A t \in Threads : WF_teamVars(Thread(t))

Spec == Init /\ [][Next]_teamVars /\ Fairness
=============================================================================
