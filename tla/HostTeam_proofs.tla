---------------------------- MODULE HostTeam_proofs ----------------------------
(***************************************************************************)
(* The thread pool, for every size of the pool and every sequence of       *)
(* launches.  Its threads go through the rendezvous of a launch in step,   *)
(* so no thread steals before the work is divided, and a launch leaves the *)
(* barrier as the next one needs it.  The members of a team go through     *)
(* theirs in step, so they are always in the same round.  And each chunk   *)
(* is left in a block, or a team has it, or a team has executed it, so the *)
(* iterations are executed once, by all the members of one team.           *)
(***************************************************************************)
EXTENDS HostTeamProps, Grid_proofs, FiniteSetTheorems

-----------------------------------------------------------------------------
LEMMA PoolOfThreads ==
  /\ 0 \in Threads
  /\ IsFiniteSet(Threads)
  /\ Cardinality(Threads) = PoolSize
  /\ Threads \subseteq Nat
  /\ PoolPlace \in Places /\ PoolPlace \notin Threads
<1>1. PoolSize \in Nat \ {0}
  BY TeamAssumption
<1>2. IsFiniteSet(Threads) /\ Cardinality(Threads) = PoolSize
  BY <1>1, FS_Interval DEF Threads
<1> QED
  BY <1>1, <1>2 DEF Threads, Places, PoolPlace

LEMMA PolicyFields ==
  ASSUME NEW p \in Policies
  PROVE  /\ p.team \in 1 .. PoolSize
         /\ p.dynamic \in BOOLEAN
  BY TeamAssumption

\* A pool of n threads holds a team of k, and its teams have a distance.
LEMMA TeamDistance ==
  ASSUME NEW n \in Nat \ {0}, NEW k \in 1 .. n
  PROVE  n \div (n \div k) \in Nat \ {0}
<1>1. k \in Nat \ {0} /\ k <= n
  OBVIOUS
<1>2. n \div k \in Nat /\ (n \div k) * k <= n /\ n < ((n \div k) + 1) * k
  BY <1>1, DivModDef
<1>3. n \div k # 0
  BY <1>1, <1>2
<1>4. n \div k <= n
  BY <1>1, <1>2, <1>3
<1> DEFINE m == n \div k
<1>5. m \in Nat \ {0} /\ m <= n
  BY <1>2, <1>3, <1>4
<1> HIDE DEF m
<1>6. n \div m \in Nat /\ n < ((n \div m) + 1) * m
  BY <1>5, DivModDef
<1>7. n \div m # 0
  BY <1>5, <1>6
<1> QED
  BY <1>6, <1>7 DEF m

\* The first thread of a team has a number, so the barrier of a team is never
\* that of the pool.
LEMMA TeamPlace ==
  ASSUME NEW p \in Policies, NEW t \in Threads
  PROVE  Base(p, t) \in Nat
<1>1. PoolSize \in Nat \ {0} /\ p.team \in 1 .. PoolSize /\ t \in Nat
  BY PolicyFields, PoolOfThreads, TeamAssumption
<1>2. Alloc(p) \in Nat \ {0}
  BY <1>1, TeamDistance DEF Alloc, LeagueSize
<1>3. League(p, t) \in Nat
  BY <1>1, <1>2, DivModDef DEF League
<1> QED
  BY <1>2, <1>3 DEF Base

\* The records of the locations.
LEMMA AtPlain ==
  ASSUME NEW label \in PlainLabels
  PROVE  /\ At(label) \in Locations
         /\ At(label).label = label
         /\ At(label).scope = "none"
         /\ At(label).back = "none"
  BY DEF At, Locations, PlainLocations

LEMMA LocationKinds ==
  ASSUME NEW loc \in Locations
  PROVE  /\ InPool(loc) => loc \in PoolLocations
         /\ loc.scope = "team" => loc \in TeamLocations
         /\ loc.scope \notin {"pool", "team"} =>
              loc \in PlainLocations /\ loc.back = "none"
  BY DEF Locations, PlainLocations, PoolLocations, TeamLocations, InPool, At

LEMMA AheadType ==
  ASSUME NEW p, NEW loc
  PROVE  Ahead(p, loc) \in Nat /\ Dynamic(p) \in Nat
  BY DEF Ahead, Dynamic

-----------------------------------------------------------------------------
(* A step of a thread that is in no rendezvous of the pool.                *)

Quiet(t) ==
  /\ UNCHANGED <<todo, policy>>
  /\ at' = [at EXCEPT ![t] = at'[t]]
  /\ at'[t] \in Locations
  /\ ~ InPool(at[t])
  /\ InPool(at'[t]) => at'[t].label = "arrive"
  /\ Ahead(policy, at'[t]) = Ahead(policy, at[t])
  /\ ForStealing(at'[t]) => policy.dynamic
  /\ step' \in [Threads -> [pool : Nat, team : Nat]]
  /\ \A u \in Threads : step'[u].pool = step[u].pool
  /\ barrier' \in [Places -> [arrive : Int, master : Int, wait : Int]]
  /\ Pool' = Pool

LEMMA QuietStep ==
  ASSUME PoolInv, NEW t \in Threads, Quiet(t)
  PROVE  PoolInv'
<1> USE DEF PoolInv
<1>1. /\ at \in [Threads -> Locations]
      /\ \A u \in Threads : u # t => at'[u] = at[u]
      /\ \A u \in Threads : step'[u].pool = step[u].pool
      /\ Pool' = Pool /\ policy' = policy
  BY DEF Quiet, PoolTyping
<1>2. Arrived' = Arrived
  BY <1>1 DEF Arrived
<1>3. \A u \in Threads : Signalling(u)' <=> Signalling(u)
  <2> TAKE u \in Threads
  <2>1. CASE u = t
    BY <2>1 DEF Quiet, Signalling
  <2>2. CASE u # t
    BY <1>1, <2>2 DEF Signalling
  <2> QED
    BY <2>1, <2>2
<1>4. /\ Releasing' <=> Releasing
      /\ InPool(at'[0]) /\ at'[0].label \in {"clear", "release"} <=>
           InPool(at[0]) /\ at[0].label \in {"clear", "release"}
  <2>1. CASE t = 0
    BY <2>1 DEF Quiet, Releasing
  <2>2. CASE t # 0
    BY <1>1, <2>2, PoolOfThreads DEF Releasing
  <2> QED
    BY <2>1, <2>2
<1>5. PoolTyping'
  BY <1>1 DEF Quiet, PoolTyping
<1>6. Rounds'
  <2> SUFFICES ASSUME NEW u \in Threads
               PROVE  Rounds!(u)'
    BY DEF Rounds
  <2>1. CASE u = t
    BY <1>1, <2>1 DEF Rounds, Quiet
  <2>2. CASE u # t
    BY <1>1, <2>2 DEF Rounds
  <2> QED
    BY <2>1, <2>2
<1>7. Counted'
  BY <1>1, <1>2, <1>4 DEF Counted
<1>8. Signalled'
  BY <1>1, <1>2, <1>3 DEF Signalled
<1>9. \A u \in Threads : Ahead(policy', at'[u]) = Ahead(policy, at[u])
  BY <1>1 DEF Quiet
<1>10. InStep'
  BY <1>1, <1>9 DEF InStep
<1>11. Scheduled'
  BY <1>1 DEF Scheduled, Quiet
<1> QED
  BY <1>5, <1>6, <1>7, <1>8, <1>10, <1>11

-----------------------------------------------------------------------------
(* The steps between two rendezvous of the pool.                           *)

\* A location with no rendezvous of the pool ahead.
Outside(loc) ==
  loc \in Locations /\ ~ InPool(loc) /\ Ahead(policy, loc) = 0

LEMMA PlainOutside ==
  ASSUME NEW label \in PlainLabels \ {"organize", "partition"}
  PROVE  Outside(At(label))
  BY AtPlain DEF Outside, InPool, Ahead, PlainLabels

LEMMA TeamOutside ==
  ASSUME NEW loc \in TeamLocations
  PROVE  Outside(loc)
  BY DEF Outside, InPool, Ahead, TeamLocations, Locations

LEMMA TeamRendezvous ==
  ASSUME PoolTyping, NEW back \in {"take", "item"},
         policy.team = 1 => back \in PlainLabels
  PROVE  Outside(Rendezvous("team", back))
<1>1. CASE policy.team = 1
  BY <1>1, PlainOutside DEF Rendezvous, Size
<1>2. CASE policy.team # 1
  BY <1>2, TeamOutside DEF Rendezvous, Size, TeamLocations
<1> QED
  BY <1>1, <1>2

LEMMA TakeOutside ==
  ASSUME PoolTyping
  PROVE  Outside(Take)
  BY TeamRendezvous, PlainOutside DEF Take, PlainLabels

LEMMA ChunkOutside ==
  ASSUME PoolTyping, NEW i
  PROVE  Outside(WithChunk(i))
  BY TakeOutside, PlainOutside DEF WithChunk, PlainLabels

LEMMA QuietMove ==
  ASSUME PoolInv, NEW t \in Threads,
         Outside(at[t]), Outside(at'[t]), at' = [at EXCEPT ![t] = at'[t]],
         ForStealing(at'[t]) => policy.dynamic,
         UNCHANGED <<todo, policy, step, barrier>>
  PROVE  Quiet(t)
<1>1. /\ at'[t] \in Locations /\ ~ InPool(at[t]) /\ ~ InPool(at'[t])
      /\ Ahead(policy, at'[t]) = Ahead(policy, at[t])
  BY DEF Outside
<1>2. UNCHANGED <<todo, policy>> /\ step' = step /\ barrier' = barrier
  OBVIOUS
<1>3. /\ step' \in [Threads -> [pool : Nat, team : Nat]]
      /\ barrier' \in [Places -> [arrive : Int, master : Int, wait : Int]]
  BY <1>2 DEF PoolInv, PoolTyping
<1>4. Pool' = Pool /\ \A u \in Threads : step'[u].pool = step[u].pool
  BY <1>2 DEF Pool
<1> QED
  BY <1>1, <1>2, <1>3, <1>4 DEF Quiet

LEMMA GotMove ==
  ASSUME PoolTyping, NEW t \in Threads, NEW i, Got(t, i)
  PROVE  at' = [at EXCEPT ![t] = at'[t]] /\ Outside(at'[t])
<1>1. CASE policy.team = 1
  BY <1>1, ChunkOutside DEF Got, Goto, PoolTyping
<1>2. CASE policy.team # 1
  BY <1>2, PlainOutside DEF Got, Goto, PoolTyping, PlainLabels
<1> QED
  BY <1>1, <1>2

LEMMA StealingQuiet ==
  ASSUME PoolInv, NEW t \in Threads,
         \/ TryOwn(t) \/ TakeOwn(t) \/ StealFromOther(t)
         \/ ShareIndex(t) \/ ReadIndex(t)
  PROVE  Quiet(t)
<1>1. PoolTyping /\ at \in [Threads -> Locations]
  BY DEF PoolInv, PoolTyping
<1>2. at[t].label \in {"try_own", "own", "steal", "share", "read_index"}
  BY DEF TryOwn, TakeOwn, StealFromOther, ShareIndex, ReadIndex
<1>3. policy.dynamic
  BY <1>2 DEF PoolInv, Scheduled, ForStealing
<1>4. Outside(at[t])
  <2>1. at[t] \in PlainLocations
    BY <1>1, <1>2 DEF Locations, PoolLocations, TeamLocations
  <2> QED
    BY <1>2, <2>1, PlainOutside DEF PlainLocations, PlainLabels, At
<1>5. UNCHANGED <<todo, policy, step, barrier>>
  BY DEF TryOwn, TakeOwn, StealFromOther, ShareIndex, ReadIndex
<1>6. at' = [at EXCEPT ![t] = at'[t]] /\ Outside(at'[t])
  <2>1. CASE UNCHANGED at
    BY <1>1, <1>4, <2>1 DEF Outside
  <2>2. ASSUME NEW label \in {"own", "steal"}, Goto(t, At(label))
        PROVE  <1>6
    BY <1>1, <2>2, PlainOutside DEF Goto, PlainLabels
  <2>3. CASE TryOwn(t)
    BY <1>1, <2>2, <2>3, GotMove DEF TryOwn
  <2>4. CASE TakeOwn(t)
    BY <1>1, <2>1, <2>2, <2>4, GotMove DEF TakeOwn
  <2>5. CASE StealFromOther(t)
    BY <1>1, <2>1, <2>2, <2>5, GotMove DEF StealFromOther
  <2>6. CASE ShareIndex(t)
    BY <1>1, <2>6, TeamOutside DEF ShareIndex, Goto, TeamLocations
  <2>7. CASE ReadIndex(t)
    BY <1>1, <2>7, ChunkOutside DEF ReadIndex, Goto
  <2> QED
    BY <2>3, <2>4, <2>5, <2>6, <2>7
<1> QED
  BY <1>3, <1>4, <1>5, <1>6, QuietMove

LEMMA WorkQuiet ==
  ASSUME PoolInv, NEW t \in Threads,
         StartStealing(t) \/ OwnBlock(t) \/ RunItem(t)
  PROVE  Quiet(t)
<1>1. PoolTyping /\ at \in [Threads -> Locations]
  BY DEF PoolInv, PoolTyping
<1>2. at[t].label \in {"partitioned", "own_block", "item"}
  BY DEF StartStealing, OwnBlock, RunItem
<1>3. Outside(at[t])
  <2>1. at[t] \in PlainLocations
    BY <1>1, <1>2 DEF Locations, PoolLocations, TeamLocations
  <2> QED
    BY <1>2, <2>1, PlainOutside DEF PlainLocations, PlainLabels, At
<1>4. UNCHANGED <<todo, policy, step, barrier>>
  BY DEF StartStealing, OwnBlock, RunItem
<1>5. /\ at' = [at EXCEPT ![t] = at'[t]] /\ Outside(at'[t])
      /\ ForStealing(at'[t]) => policy.dynamic
  <2>1. /\ Outside(At("joined")) /\ ~ ForStealing(At("joined"))
        /\ Outside(At("item")) /\ ~ ForStealing(At("item"))
    BY PlainOutside DEF PlainLabels, ForStealing, At
  <2>2. CASE StartStealing(t)
    <3>1. policy.dynamic
      BY <2>2 DEF StartStealing, PoolInv, Scheduled, ForStealing
    <3> QED
      BY <1>1, <2>1, <2>2, <3>1, TakeOutside DEF StartStealing, Goto
  <2>3. CASE OwnBlock(t)
    BY <1>1, <2>1, <2>3 DEF OwnBlock, Goto
  <2>4. CASE RunItem(t)
    <3>1. Outside(BetweenItems) /\ ~ ForStealing(BetweenItems)
      <4>1. Outside(BetweenItems)
        BY <1>1, TeamRendezvous DEF BetweenItems, PlainLabels
      <4>2. ~ ForStealing(BetweenItems)
        BY DEF BetweenItems, Rendezvous, ForStealing, At
      <4> QED
        BY <4>1, <4>2
    <3>2. \/ Goto(t, BetweenItems)
          \/ policy.dynamic /\ Goto(t, Take)
          \/ Goto(t, At("joined"))
      BY <2>4 DEF RunItem
    <3> QED
      BY <1>1, <2>1, <3>1, <3>2, TakeOutside DEF Goto
  <2> QED
    BY <2>2, <2>3, <2>4
<1> QED
  BY <1>3, <1>4, <1>5, QuietMove

LEMMA PartitionQuiet ==
  ASSUME PoolInv, NEW t \in Threads, SetWorkPartition(t)
  PROVE  Quiet(t)
<1>1. PoolTyping /\ at \in [Threads -> Locations]
  BY DEF PoolInv, PoolTyping
<1>2. at[t] = At("partition") /\ ~ InPool(at[t])
  BY <1>1 DEF SetWorkPartition, Locations, PlainLocations, PoolLocations,
              TeamLocations, InPool, At
<1>3. Ahead(policy, at[t]) = Dynamic(policy)
  BY <1>2 DEF Ahead, At
<1>4. at' = [at EXCEPT ![t] = AfterPartition(t)]
  BY DEF SetWorkPartition, Goto
<1>5. PoolSize \in Nat \ {0}
  BY TeamAssumption
<1>6. /\ AfterPartition(t) \in Locations
      /\ InPool(AfterPartition(t)) => AfterPartition(t).label = "arrive"
      /\ Ahead(policy, AfterPartition(t)) = Dynamic(policy)
      /\ ForStealing(AfterPartition(t)) => policy.dynamic
  <2>1. CASE policy.dynamic /\ PoolSize > 1
    <3>1. AfterPartition(t) =
            [label |-> "arrive", scope |-> "pool", back |-> "partitioned"]
      BY <1>5, <2>1 DEF AfterPartition, Rendezvous, Size
    <3> QED
      BY <2>1, <3>1 DEF Locations, PoolLocations, Ahead, Dynamic
  <2>2. CASE policy.dynamic /\ PoolSize = 1
    <3>1. AfterPartition(t) = At("partitioned")
      BY <2>2 DEF AfterPartition, Rendezvous, Size
    <3> QED
      BY <2>2, <3>1, PlainOutside DEF Outside, PlainLabels, Dynamic
  <2>3. CASE ~ policy.dynamic
    <3>1. AfterPartition(t) \in {At("own_block"), At("joined")}
      BY <2>3 DEF AfterPartition
    <3>2. ~ ForStealing(AfterPartition(t))
      BY <3>1 DEF ForStealing, At
    <3> QED
      BY <2>3, <3>1, <3>2, PlainOutside DEF Outside, PlainLabels, Dynamic
  <2> QED
    BY <1>5, <2>1, <2>2, <2>3
<1>7. UNCHANGED <<todo, policy>> /\ step' = step /\ barrier' = barrier
  BY DEF SetWorkPartition
<1>8. /\ step' \in [Threads -> [pool : Nat, team : Nat]]
      /\ barrier' \in [Places -> [arrive : Int, master : Int, wait : Int]]
  BY <1>1, <1>7 DEF PoolTyping
<1>9. Pool' = Pool /\ \A u \in Threads : step'[u].pool = step[u].pool
  BY <1>7 DEF Pool
<1>10. at'[t] = AfterPartition(t)
  BY <1>1, <1>4
<1> QED
  BY <1>2, <1>3, <1>4, <1>6, <1>7, <1>8, <1>9, <1>10 DEF Quiet

LEMMA OrganizeQuiet ==
  ASSUME PoolInv, NEW t \in Threads, Organize(t)
  PROVE  Quiet(t)
<1>1. PoolTyping /\ at \in [Threads -> Locations]
  BY DEF PoolInv, PoolTyping
<1>2. at[t] = At("organize") /\ ~ InPool(at[t])
  BY <1>1 DEF Organize, Locations, PlainLocations, PoolLocations,
              TeamLocations, InPool, At
<1> DEFINE There == Rendezvous("pool", "partition")
<1>3. PoolSize \in Nat \ {0}
  BY TeamAssumption
<1>4. /\ There \in Locations
      /\ InPool(There) => There.label = "arrive"
      /\ Ahead(policy, There) = Ahead(policy, at[t])
      /\ ~ ForStealing(There)
  <2>1. CASE PoolSize > 1
    <3>1. There = [label |-> "arrive", scope |-> "pool", back |-> "partition"]
      BY <1>3, <2>1 DEF Rendezvous, Size
    <3> QED
      BY <1>2, <2>1, <3>1 DEF Locations, PoolLocations, Ahead, ForStealing, At
  <2>2. CASE PoolSize = 1
    <3>1. There = At("partition")
      BY <2>2 DEF Rendezvous, Size
    <3> QED
      BY <1>2, <2>2, <3>1, AtPlain
      DEF PlainLabels, InPool, Ahead, Dynamic, ForStealing, At
  <2> QED
    BY <1>3, <2>1, <2>2
<1>5. /\ at' = [at EXCEPT ![t] = There] /\ at'[t] = There
      /\ UNCHANGED <<todo, policy>>
  BY <1>1 DEF Organize, Goto
<1>6. /\ step' \in [Threads -> [pool : Nat, team : Nat]]
      /\ \A u \in Threads : step'[u].pool = step[u].pool
  BY <1>1 DEF Organize, PoolTyping
<1>7. /\ barrier' \in [Places -> [arrive : Int, master : Int, wait : Int]]
      /\ Pool' = Pool
  <2> DEFINE Barriers == [arrive : Int, master : Int, wait : Int]
  <2>1. t # PoolPlace /\ PoolPlace \in Places /\ t \in Places
    BY PoolOfThreads DEF Places
  <2>2. barrier \in [Places -> Barriers] /\ NewBarrier \in Barriers
    BY <1>1 DEF PoolTyping, NewBarrier
  <2>3. \/ barrier' = barrier
        \/ barrier' = [barrier EXCEPT ![t] = NewBarrier]
    BY DEF Organize
  <2> HIDE DEF Barriers
  <2>4. barrier' \in [Places -> Barriers]
    BY <2>2, <2>3
  <2>5. Pool' = Pool
    BY <2>1, <2>2, <2>3 DEF Pool
  <2> QED
    BY <2>4, <2>5 DEF Barriers
<1> QED
  BY <1>2, <1>4, <1>5, <1>6, <1>7 DEF Quiet

-----------------------------------------------------------------------------
(* The barrier of a team is another one than the pool's.                   *)

LEMMA TeamBarrierQuiet ==
  ASSUME PoolInv, NEW t \in Threads, Barrier(t), ~ InPool(at[t])
  PROVE  Quiet(t)
<1>1. /\ PoolTyping /\ at \in [Threads -> Locations]
      /\ step \in [Threads -> [pool : Nat, team : Nat]]
  BY DEF PoolInv, PoolTyping
<1>2. at[t] \in TeamLocations /\ at[t].scope = "team"
  BY <1>1 DEF Barrier, Arrive, Signal, MasterWait, Wait, Clear, Release,
              Locations, PlainLocations, PoolLocations, TeamLocations,
              PlainLabels, InPool, At
<1>3. Outside(at[t])
  BY <1>2, TeamOutside
<1>4. policy \in Policies /\ Size(at[t].scope) \in Int
  <2>1. policy \in Policies
    BY <1>1 DEF PoolTyping
  <2> QED
    BY <1>2, <2>1, PolicyFields DEF Size
<1>5. Place(t) # PoolPlace
  BY <1>2, <1>4, TeamPlace DEF Place, PoolPlace
<1>6. UNCHANGED <<todo, policy>>
  BY DEF Barrier, Arrive, Signal, MasterWait, Wait, Clear, Release
<1>7. /\ step' \in [Threads -> [pool : Nat, team : Nat]]
      /\ \A u \in Threads : step'[u].pool = step[u].pool
  <2>1. CASE Arrive(t)
    <3>1. step' = [step EXCEPT ![t].team = @ + 1]
      BY <1>2, <2>1 DEF Arrive
    <3> QED
      BY <1>1, <3>1
  <2>2. CASE UNCHANGED step
    BY <1>1, <2>2
  <2> QED
    BY <2>1, <2>2 DEF Barrier, Signal, MasterWait, Wait, Clear, Release
<1>8. /\ barrier' \in [Places -> [arrive : Int, master : Int, wait : Int]]
      /\ Pool' = Pool
  <2>1. /\ barrier \in [Places -> [arrive : Int, master : Int, wait : Int]]
        /\ PoolPlace \in Places
    BY <1>1, PoolOfThreads DEF PoolTyping
  <2>2. \/ barrier' = barrier
        \/ barrier' = [barrier EXCEPT ![Place(t)].arrive = @ + 1]
        \/ barrier' = [barrier EXCEPT ![Place(t)].master = @ + 1]
        \/ barrier' = [barrier EXCEPT ![Place(t)].arrive =
                                        @ - Size(at[t].scope)]
        \/ barrier' = [barrier EXCEPT ![Place(t)].wait = @ + 1]
    BY DEF Barrier, Arrive, Signal, MasterWait, Wait, Clear, Release
  <2>3. Pool' = Pool
    BY <1>5, <2>1, <2>2 DEF Pool
  <2>4. barrier' \in [Places -> [arrive : Int, master : Int, wait : Int]]
    BY <1>4, <2>1, <2>2
  <2> QED
    BY <2>3, <2>4
<1>9. /\ at' = [at EXCEPT ![t] = at'[t]] /\ Outside(at'[t])
      /\ ForStealing(at'[t]) => ForStealing(at[t])
  <2>1. CASE Arrive(t) \/ Signal(t)
    <3>1. /\ at' = [at EXCEPT ![t] = at'[t]]
          /\ at'[t] \in {[at[t] EXCEPT !.label = label] :
                           label \in {"signal", "wait"}}
      BY <1>1, <2>1 DEF Arrive, Signal, Goto
    <3>2. at[t].label \in {"arrive", "signal"}
      BY <2>1 DEF Arrive, Signal
    <3>3. at'[t] \in TeamLocations /\ (ForStealing(at'[t]) => ForStealing(at[t]))
      BY <1>2, <3>1, <3>2 DEF TeamLocations, ForStealing
    <3> QED
      BY <3>1, <3>3, TeamOutside
  <2>2. CASE Clear(t)
    <3>1. at' = [at EXCEPT ![t] = [at[t] EXCEPT !.label = "release"]]
      BY <2>2 DEF Clear, Goto
    <3>2. /\ [at[t] EXCEPT !.label = "release"] \in TeamLocations
          /\ ForStealing([at[t] EXCEPT !.label = "release"]) =>
               ForStealing(at[t])
      BY <1>2, <2>2 DEF TeamLocations, ForStealing, Clear
    <3> QED
      BY <1>1, <3>1, <3>2, TeamOutside
  <2>3. CASE MasterWait(t)
    <3>1. at[t].label = "wait" /\ at[t].back \in {"take", "item"}
      BY <1>2, <2>3 DEF MasterWait, TeamLocations
    <3>2. CASE at[t].back = "take"
      <4>1. at' = [at EXCEPT ![t] = At("try_own")] /\ ForStealing(at[t])
        BY <2>3, <3>2 DEF MasterWait, Goto, ForStealing
      <4> QED
        BY <1>1, <4>1, PlainOutside DEF PlainLabels
    <3>3. CASE at[t].back = "item"
      <4>1. at' = [at EXCEPT ![t] = [at[t] EXCEPT !.label = "clear"]]
        BY <2>3, <3>3 DEF MasterWait, Goto
      <4>2. /\ [at[t] EXCEPT !.label = "clear"] \in TeamLocations
            /\ ~ ForStealing([at[t] EXCEPT !.label = "clear"])
        BY <1>2, <3>1, <3>3 DEF TeamLocations, ForStealing
      <4> QED
        BY <1>1, <4>1, <4>2, TeamOutside
    <3> QED
      BY <3>1, <3>2, <3>3
  <2>4. CASE Wait(t)
    <3>1. at[t].back \in {"take", "item"}
      BY <1>2, <2>4 DEF Wait, TeamLocations
    <3>2. CASE at[t].back = "take"
      <4>1. at' = [at EXCEPT ![t] = At("read_index")] /\ ForStealing(at[t])
        BY <2>4, <3>2 DEF Wait, Goto, ForStealing
      <4> QED
        BY <1>1, <4>1, PlainOutside DEF PlainLabels
    <3>3. CASE at[t].back = "item"
      <4>1. at' = [at EXCEPT ![t] = At("item")] /\ ~ ForStealing(At("item"))
        BY <2>4, <3>3 DEF Wait, Goto, ForStealing, At
      <4> QED
        BY <1>1, <4>1, PlainOutside DEF PlainLabels
    <3> QED
      BY <3>1, <3>2, <3>3
  <2>5. CASE Release(t)
    <3>1. at[t].back \in {"item", "chunk"}
      BY <1>2, <2>5 DEF Release, TeamLocations
    <3>2. CASE at[t].back = "chunk"
      <4>1. at' = [at EXCEPT ![t] = WithChunk(w[t][1])] /\ ForStealing(at[t])
        BY <2>5, <3>2 DEF Release, Goto, ForStealing
      <4> QED
        BY <1>1, <4>1, ChunkOutside
    <3>3. CASE at[t].back = "item"
      <4>1. at' = [at EXCEPT ![t] = At("item")] /\ ~ ForStealing(At("item"))
        BY <2>5, <3>3 DEF Release, Goto, ForStealing, At
      <4> QED
        BY <1>1, <4>1, PlainOutside DEF PlainLabels
    <3> QED
      BY <3>1, <3>2, <3>3
  <2> QED
    BY <2>1, <2>2, <2>3, <2>4, <2>5 DEF Barrier
<1>10. ForStealing(at[t]) => policy.dynamic
  BY DEF PoolInv, Scheduled
<1> QED
  BY <1>3, <1>6, <1>7, <1>8, <1>9, <1>10 DEF Quiet, Outside

-----------------------------------------------------------------------------
(* The rendezvous of the pool.                                             *)

LEMMA PoolMember ==
  ASSUME PoolInv, NEW t \in Threads, InPool(at[t])
  PROVE  /\ at[t] \in PoolLocations
         /\ at[t].scope = "pool"
         /\ Place(t) = PoolPlace
         /\ Size(at[t].scope) = PoolSize
         /\ RendezvousRank(t) = t
         /\ ~ Outside(at[t])
  BY LocationKinds
  DEF PoolInv, PoolTyping, InPool, Place, Size, RendezvousRank, Outside

\* What follows from the invariant about the numbers of a rendezvous.
LEMMA PoolNumbers ==
  ASSUME PoolInv
  PROVE  /\ Pool \in [arrive : Int, master : Int, wait : Int]
         /\ \A t \in Threads : step[t].pool \in Nat
         /\ Pool.wait \in Int
         /\ IsFiniteSet(Arrived) /\ Arrived \subseteq Threads
         /\ Cardinality(Arrived) \in Nat
         /\ Cardinality(Arrived) = PoolSize => Arrived = Threads
<1>1. /\ barrier \in [Places -> [arrive : Int, master : Int, wait : Int]]
      /\ step \in [Threads -> [pool : Nat, team : Nat]]
  BY DEF PoolInv, PoolTyping
<1>2. Arrived \in SUBSET Threads
  BY DEF Arrived
<1>3. IsFiniteSet(Arrived) /\ Cardinality(Arrived) \in Nat
  BY <1>2, PoolOfThreads, FS_Subset, FS_CardinalityType
<1>4. Cardinality(Arrived) = PoolSize => Arrived = Threads
  BY <1>2, PoolOfThreads, FS_Subset
<1> QED
  BY <1>1, <1>2, <1>3, <1>4, PoolOfThreads DEF Pool

LEMMA PoolArrive ==
  ASSUME PoolInv, NEW t \in Threads, InPool(at[t]), Arrive(t)
  PROVE  PoolInv'
<1> DEFINE Last == Pool.arrive = PoolSize - 1
           There == [at[t] EXCEPT !.label = IF Last THEN "signal" ELSE "wait"]
<1>1. /\ at \in [Threads -> Locations]
      /\ step \in [Threads -> [pool : Nat, team : Nat]]
      /\ barrier \in [Places -> [arrive : Int, master : Int, wait : Int]]
      /\ PoolPlace \in Places
  BY PoolOfThreads DEF PoolInv, PoolTyping
<1>2. /\ at[t].label = "arrive"
      /\ step' = [step EXCEPT ![t].pool = @ + 1]
      /\ barrier' = [barrier EXCEPT ![PoolPlace].arrive = @ + 1]
      /\ at' = [at EXCEPT ![t] = There]
      /\ UNCHANGED <<todo, policy>>
  BY PoolMember DEF Arrive, Goto, Pool
<1>3. /\ Pool'.wait = Pool.wait /\ Pool'.master = Pool.master
      /\ Pool'.arrive = Pool.arrive + 1
      /\ Pool.arrive \in Int /\ Pool.wait \in Int
  BY <1>1, <1>2 DEF Pool
<1>4. /\ step'[t].pool = step[t].pool + 1
      /\ \A u \in Threads : u # t => step'[u].pool = step[u].pool
      /\ step' \in [Threads -> [pool : Nat, team : Nat]]
  BY <1>1, <1>2
<1>5. /\ There \in PoolLocations /\ There.label = (IF Last THEN "signal" ELSE "wait")
      /\ InPool(There) /\ There.back = at[t].back
      /\ at[t].back \in {"partition", "partitioned"}
  BY PoolMember DEF PoolLocations, InPool
<1> HIDE DEF There
<1>6. /\ at'[t] = There
      /\ \A u \in Threads : u # t => at'[u] = at[u]
  BY <1>1, <1>2
<1>7. step[t].pool = Pool.wait /\ t \notin Arrived
  <2>1. step[t].pool = Pool.wait
    BY <1>2 DEF PoolInv, Rounds
  <2> QED
    BY <2>1, <1>3 DEF Arrived
<1>8. /\ ~ \E u \in Threads : Signalling(u)
      /\ ~ (InPool(at[0]) /\ at[0].label \in {"clear", "release"})
      /\ Pool.arrive = Cardinality(Arrived)
      /\ Pool.master = Pool.wait
  <2>1. ~ (InPool(at[0]) /\ at[0].label \in {"clear", "release"})
    BY <1>7 DEF PoolInv, Counted
  <2>2. ~ Releasing
    BY <2>1 DEF Releasing
  <2>3. ~ \E u \in Threads : Signalling(u)
    BY <1>7 DEF PoolInv, Signalled
  <2> QED
    BY <1>7, <2>1, <2>2, <2>3 DEF PoolInv, Counted, Signalled
<1>9. Arrived' = Arrived \cup {t}
  <2>1. \A u \in Threads : u \in Arrived' <=> u = t \/ u \in Arrived
    BY <1>3, <1>4, <1>7 DEF Arrived
  <2> QED
    BY <2>1 DEF Arrived
<1>10. Cardinality(Arrived') = Cardinality(Arrived) + 1
  BY <1>7, <1>9, PoolNumbers, FS_AddElement
<1>11. Last <=> Arrived' = Threads
  <2>1. Arrived' \in SUBSET Threads
    BY <1>9 DEF Arrived
  <2>2. Cardinality(Arrived') = PoolSize <=> Arrived' = Threads
    BY <2>1, PoolOfThreads, FS_Subset
  <2>3. PoolSize \in Nat
    BY TeamAssumption
  <2> QED
    BY <1>8, <1>10, <2>2, <2>3, PoolNumbers
<1>12. PoolTyping'
  <2>1. at' \in [Threads -> Locations]
    BY <1>1, <1>2, <1>5 DEF Locations
  <2>2. barrier' \in [Places -> [arrive : Int, master : Int, wait : Int]]
    BY <1>1, <1>2
  <2> QED
    BY <1>2, <1>4, <2>1, <2>2 DEF PoolInv, PoolTyping
<1>13. Rounds'
  <2> SUFFICES ASSUME NEW u \in Threads
               PROVE  Rounds!(u)'
    BY DEF Rounds
  <2>1. CASE u = t
    BY <1>3, <1>4, <1>5, <1>6, <1>7, <2>1
  <2>2. CASE u # t
    BY <1>3, <1>4, <1>6, <2>2 DEF PoolInv, Rounds
  <2> QED
    BY <2>1, <2>2
<1>14. ~ (InPool(at'[0]) /\ at'[0].label \in {"clear", "release"})
  BY <1>5, <1>6, <1>8, PoolOfThreads
<1>15. Counted'
  BY <1>3, <1>8, <1>10, <1>14 DEF Counted, Releasing
<1>16. \A u \in Threads : Signalling(u)' <=> u = t /\ Last
  <2> TAKE u \in Threads
  <2>1. CASE u = t
    BY <1>5, <1>6, <2>1 DEF Signalling
  <2>2. CASE u # t
    BY <1>6, <1>8, <2>2 DEF Signalling
  <2> QED
    BY <2>1, <2>2
<1>17. Signalled'
  BY <1>3, <1>8, <1>11, <1>16 DEF Signalled
<1>18. InStep'
  <2>1. Ahead(policy, at[t]) = Ahead(policy, There) + 1
    BY <1>2, <1>5, AheadType DEF Ahead
  <2>2. step'[t].pool + Ahead(policy', at'[t]) = step[t].pool + Ahead(policy, at[t])
    BY <1>2, <1>4, <1>6, <2>1, AheadType, PoolNumbers
  <2>3. \A u \in Threads : step'[u].pool + Ahead(policy', at'[u])
                             = step[u].pool + Ahead(policy, at[u])
    BY <1>2, <1>4, <1>6, <2>2
  <2> QED
    BY <2>3 DEF PoolInv, InStep
<1>19. Scheduled'
  <2>1. ForStealing(There) => ForStealing(at[t])
    BY <1>5 DEF ForStealing
  <2> QED
    BY <1>2, <1>6, <2>1 DEF PoolInv, Scheduled
<1> QED
  BY <1>12, <1>13, <1>15, <1>17, <1>18, <1>19 DEF PoolInv

\* The steps of the pool's barrier behind the arrival change no step.
PoolStep(t, there) ==
  /\ UNCHANGED <<todo, policy, step>>
  /\ at' = [at EXCEPT ![t] = there]
  /\ there \in Locations
  /\ barrier' \in [Places -> [arrive : Int, master : Int, wait : Int]]
  /\ Ahead(policy, there) = Ahead(policy, at[t])
  /\ ForStealing(there) => ForStealing(at[t])

LEMMA PoolStepParts ==
  ASSUME PoolInv, NEW t \in Threads, NEW there, PoolStep(t, there)
  PROVE  /\ PoolTyping' /\ InStep' /\ Scheduled'
         /\ at'[t] = there
         /\ \A u \in Threads : u # t => at'[u] = at[u]
<1>1. at \in [Threads -> Locations]
  BY DEF PoolInv, PoolTyping
<1>2. at'[t] = there /\ \A u \in Threads : u # t => at'[u] = at[u]
  BY <1>1 DEF PoolStep
<1>3. PoolTyping'
  BY <1>1 DEF PoolInv, PoolTyping, PoolStep
<1>4. \A u \in Threads : Ahead(policy', at'[u]) = Ahead(policy, at[u])
  BY <1>2 DEF PoolStep
<1>5. InStep'
  BY <1>4 DEF PoolInv, InStep, PoolStep
<1>6. Scheduled'
  BY <1>2 DEF PoolInv, Scheduled, PoolStep
<1> QED
  BY <1>2, <1>3, <1>5, <1>6

LEMMA PoolSignal ==
  ASSUME PoolInv, NEW t \in Threads, InPool(at[t]), Signal(t)
  PROVE  PoolInv'
<1> DEFINE There == [at[t] EXCEPT !.label = "wait"]
<1>1. /\ barrier \in [Places -> [arrive : Int, master : Int, wait : Int]]
      /\ PoolPlace \in Places
  BY PoolOfThreads DEF PoolInv, PoolTyping
<1>2. /\ at[t].label = "signal" /\ at[t] \in PoolLocations
      /\ barrier' = [barrier EXCEPT ![PoolPlace].master = @ + 1]
      /\ at' = [at EXCEPT ![t] = There]
      /\ UNCHANGED <<todo, policy, step>>
  BY PoolMember DEF Signal, Goto
<1>3. /\ There \in PoolLocations /\ There.label = "wait"
      /\ InPool(There) /\ There.back = at[t].back
  BY <1>2 DEF PoolLocations, InPool
<1>4. PoolStep(t, There)
  <2>1. Ahead(policy, There) = Ahead(policy, at[t])
    BY <1>2, <1>3 DEF Ahead
  <2>2. ForStealing(There) => ForStealing(at[t])
    BY <1>3 DEF ForStealing
  <2>3. barrier' \in [Places -> [arrive : Int, master : Int, wait : Int]]
    BY <1>1, <1>2
  <2> QED
    BY <1>2, <1>3, <2>1, <2>2, <2>3 DEF PoolStep, Locations
<1> HIDE DEF There
<1>5. /\ Pool'.wait = Pool.wait /\ Pool'.master = Pool.master + 1
      /\ Pool'.arrive = Pool.arrive
  BY <1>1, <1>2 DEF Pool
<1>6. /\ at'[t] = There
      /\ \A u \in Threads : u # t => at'[u] = at[u]
  BY <1>4, PoolStepParts
<1>7. Arrived' = Arrived /\ Arrived = Threads
  <2>1. Signalling(t)
    BY <1>2 DEF Signalling
  <2> QED
    BY <1>2, <1>5, <2>1 DEF Arrived, PoolInv, Signalled
<1>8. /\ Pool.master = Pool.wait
      /\ \A u \in Threads : ~ Signalling(u)'
  <2>1. Signalling(t)
    BY <1>2 DEF Signalling
  <2>2. \A u \in Threads : u # t => ~ Signalling(u)
    BY <2>1 DEF PoolInv, Signalled
  <2> QED
    BY <1>3, <1>6, <2>1, <2>2 DEF PoolInv, Signalled, Signalling
<1>9. Signalled'
  BY <1>5, <1>7, <1>8, PoolNumbers DEF Signalled
<1>10. /\ ~ (InPool(at[0]) /\ at[0].label \in {"clear", "release"})
       /\ ~ (InPool(at'[0]) /\ at'[0].label \in {"clear", "release"})
  <2>1. ~ (InPool(at[0]) /\ at[0].label \in {"clear", "release"})
    BY <1>8, PoolNumbers DEF PoolInv, Counted
  <2> QED
    BY <1>3, <1>6, <2>1, PoolOfThreads
<1>11. Counted'
  BY <1>5, <1>7, <1>10 DEF PoolInv, Counted, Releasing
<1>12. Rounds'
  <2> SUFFICES ASSUME NEW u \in Threads
               PROVE  Rounds!(u)'
    BY DEF Rounds
  <2>1. CASE u = t
    BY <1>2, <1>3, <1>5, <1>6, <2>1 DEF PoolInv, Rounds
  <2>2. CASE u # t
    BY <1>2, <1>5, <1>6, <2>2 DEF PoolInv, Rounds
  <2> QED
    BY <2>1, <2>2
<1> QED
  BY <1>4, <1>9, <1>11, <1>12, PoolStepParts DEF PoolInv

LEMMA PoolMasterWait ==
  ASSUME PoolInv, NEW t \in Threads, InPool(at[t]), MasterWait(t)
  PROVE  PoolInv'
<1> DEFINE There == [at[t] EXCEPT !.label = "clear"]
<1>1. /\ at[t].label = "wait" /\ at[t] \in PoolLocations /\ t = 0
      /\ Pool.master = step[t].pool
      /\ UNCHANGED <<todo, policy, step, barrier>>
  BY PoolMember DEF MasterWait, Pool
<1>2. at' = [at EXCEPT ![t] = There]
  <2>1. at[t].back # "take"
    BY <1>1 DEF PoolLocations
  <2> QED
    BY <2>1 DEF MasterWait, Goto
<1>3. /\ There \in PoolLocations /\ There.label = "clear"
      /\ InPool(There) /\ There.back = at[t].back
  BY <1>1 DEF PoolLocations, InPool
<1>4. PoolStep(t, There)
  <2>1. Ahead(policy, There) = Ahead(policy, at[t])
    BY <1>1, <1>3 DEF Ahead
  <2>2. ForStealing(There) => ForStealing(at[t])
    BY <1>3 DEF ForStealing
  <2> QED
    BY <1>1, <1>2, <1>3, <2>1, <2>2 DEF PoolStep, Locations, PoolInv, PoolTyping
<1> HIDE DEF There
<1>5. Pool' = Pool /\ Arrived' = Arrived
  BY <1>1 DEF Pool, Arrived
<1>6. /\ at'[t] = There
      /\ \A u \in Threads : u # t => at'[u] = at[u]
  BY <1>4, PoolStepParts
<1>7. step[t].pool = Pool.wait + 1
  BY <1>1 DEF PoolInv, Rounds
<1>8. Arrived = Threads /\ Pool.master = Pool.wait + 1
  BY <1>1, <1>7, PoolNumbers DEF PoolInv, Signalled
<1>9. \A u \in Threads : Signalling(u)' <=> Signalling(u)
  <2> TAKE u \in Threads
  <2>1. CASE u = t
    BY <1>1, <1>3, <1>6, <2>1 DEF Signalling
  <2>2. CASE u # t
    BY <1>6, <2>2 DEF Signalling
  <2> QED
    BY <2>1, <2>2
<1>10. Signalled'
  BY <1>5, <1>9 DEF PoolInv, Signalled
<1>11. Counted'
  BY <1>1, <1>3, <1>5, <1>6, <1>8 DEF PoolInv, Counted, Releasing
<1>12. Rounds'
  <2> SUFFICES ASSUME NEW u \in Threads
               PROVE  Rounds!(u)'
    BY DEF Rounds
  <2>1. CASE u = t
    BY <1>1, <1>3, <1>5, <1>6, <1>7, <2>1
  <2>2. CASE u # t
    BY <1>1, <1>5, <1>6, <2>2 DEF PoolInv, Rounds
  <2> QED
    BY <2>1, <2>2
<1> QED
  BY <1>4, <1>10, <1>11, <1>12, PoolStepParts DEF PoolInv

LEMMA PoolWait ==
  ASSUME PoolInv, NEW t \in Threads, InPool(at[t]), Wait(t)
  PROVE  PoolInv'
<1> DEFINE There == At(at[t].back)
<1>1. /\ at[t].label = "wait" /\ at[t] \in PoolLocations /\ t # 0
      /\ Pool.wait = step[t].pool
      /\ UNCHANGED <<todo, policy, step, barrier>>
  BY PoolMember DEF Wait, Pool
<1>2. at[t].back \in {"partition", "partitioned"}
  BY <1>1 DEF PoolLocations
<1>3. at' = [at EXCEPT ![t] = There]
  BY <1>2 DEF Wait, Goto
<1>4. /\ There \in Locations /\ There.label = at[t].back
      /\ There.scope = "none" /\ There.back = "none"
  BY <1>2, AtPlain DEF PlainLabels
<1> HIDE DEF There
<1>5. PoolStep(t, There)
  <2>1. Ahead(policy, There) = Ahead(policy, at[t])
    BY <1>1, <1>2, <1>4 DEF Ahead
  <2>2. ForStealing(There) => ForStealing(at[t])
    BY <1>2, <1>4 DEF ForStealing
  <2> QED
    BY <1>1, <1>3, <1>4, <2>1, <2>2 DEF PoolStep, PoolInv, PoolTyping
<1>6. Pool' = Pool /\ Arrived' = Arrived
  BY <1>1 DEF Pool, Arrived
<1>7. /\ at'[t] = There
      /\ \A u \in Threads : u # t => at'[u] = at[u]
  BY <1>5, PoolStepParts
<1>8. \A u \in Threads : Signalling(u)' <=> Signalling(u)
  <2> TAKE u \in Threads
  <2>1. CASE u = t
    BY <1>1, <1>2, <1>4, <1>7, <2>1 DEF Signalling
  <2>2. CASE u # t
    BY <1>7, <2>2 DEF Signalling
  <2> QED
    BY <2>1, <2>2
<1>9. Signalled'
  BY <1>6, <1>8 DEF PoolInv, Signalled
<1>10. Counted'
  BY <1>1, <1>6, <1>7, PoolOfThreads DEF PoolInv, Counted, Releasing
<1>11. Rounds'
  <2> SUFFICES ASSUME NEW u \in Threads
               PROVE  Rounds!(u)'
    BY DEF Rounds
  <2>1. CASE u = t
    BY <1>1, <1>4, <1>6, <1>7, <2>1 DEF InPool
  <2>2. CASE u # t
    BY <1>1, <1>6, <1>7, <2>2 DEF PoolInv, Rounds
  <2> QED
    BY <2>1, <2>2
<1> QED
  BY <1>5, <1>9, <1>10, <1>11, PoolStepParts DEF PoolInv

LEMMA PoolClear ==
  ASSUME PoolInv, NEW t \in Threads, InPool(at[t]), Clear(t)
  PROVE  PoolInv'
<1> DEFINE There == [at[t] EXCEPT !.label = "release"]
<1>1. /\ barrier \in [Places -> [arrive : Int, master : Int, wait : Int]]
      /\ PoolPlace \in Places
  BY PoolOfThreads DEF PoolInv, PoolTyping
<1>2. /\ at[t].label = "clear" /\ at[t] \in PoolLocations
      /\ barrier' = [barrier EXCEPT ![PoolPlace].arrive = @ - PoolSize]
      /\ at' = [at EXCEPT ![t] = There]
      /\ UNCHANGED <<todo, policy, step>>
  BY PoolMember DEF Clear, Goto
<1>3. /\ There \in PoolLocations /\ There.label = "release"
      /\ InPool(There) /\ There.back = at[t].back
  BY <1>2 DEF PoolLocations, InPool
<1>4. PoolStep(t, There)
  <2>1. Ahead(policy, There) = Ahead(policy, at[t])
    BY <1>2, <1>3 DEF Ahead
  <2>2. ForStealing(There) => ForStealing(at[t])
    BY <1>3 DEF ForStealing
  <2>3. barrier' \in [Places -> [arrive : Int, master : Int, wait : Int]]
    <3>1. PoolSize \in Int /\ barrier[PoolPlace].arrive - PoolSize \in Int
      BY <1>1, TeamAssumption
    <3> QED
      BY <1>1, <1>2, <3>1
  <2> QED
    BY <1>2, <1>3, <2>1, <2>2, <2>3 DEF PoolStep, Locations
<1> HIDE DEF There
<1>5. /\ Pool'.wait = Pool.wait /\ Pool'.master = Pool.master
      /\ Pool'.arrive = Pool.arrive - PoolSize
  BY <1>1, <1>2 DEF Pool
<1>6. /\ at'[t] = There
      /\ \A u \in Threads : u # t => at'[u] = at[u]
  BY <1>4, PoolStepParts
<1>7. /\ t = 0 /\ step[t].pool = Pool.wait + 1
      /\ Arrived = Threads /\ Pool.master = Pool.wait + 1
  BY <1>2 DEF PoolInv, Rounds, Counted
<1>8. Arrived' = Arrived
  BY <1>2, <1>5 DEF Arrived
<1>9. Pool'.arrive = 0
  <2>1. ~ Releasing
    BY <1>2, <1>7 DEF Releasing
  <2>2. Pool.arrive = PoolSize
    BY <1>7, <2>1, PoolOfThreads DEF PoolInv, Counted
  <2> QED
    BY <1>5, <2>2, TeamAssumption
<1>10. Counted'
  BY <1>3, <1>5, <1>6, <1>7, <1>8, <1>9 DEF Counted, Releasing
<1>11. \A u \in Threads : Signalling(u)' <=> Signalling(u)
  <2> TAKE u \in Threads
  <2>1. CASE u = t
    BY <1>2, <1>3, <1>6, <2>1 DEF Signalling
  <2>2. CASE u # t
    BY <1>6, <2>2 DEF Signalling
  <2> QED
    BY <2>1, <2>2
<1>12. Signalled'
  BY <1>5, <1>8, <1>11 DEF PoolInv, Signalled
<1>13. Rounds'
  <2> SUFFICES ASSUME NEW u \in Threads
               PROVE  Rounds!(u)'
    BY DEF Rounds
  <2>1. CASE u = t
    BY <1>2, <1>3, <1>5, <1>6, <1>7, <2>1
  <2>2. CASE u # t
    BY <1>2, <1>5, <1>6, <2>2 DEF PoolInv, Rounds
  <2> QED
    BY <2>1, <2>2
<1> QED
  BY <1>4, <1>10, <1>12, <1>13, PoolStepParts DEF PoolInv

LEMMA PoolRelease ==
  ASSUME PoolInv, NEW t \in Threads, InPool(at[t]), Release(t)
  PROVE  PoolInv'
<1> DEFINE There == At(at[t].back)
<1>1. /\ barrier \in [Places -> [arrive : Int, master : Int, wait : Int]]
      /\ PoolPlace \in Places
  BY PoolOfThreads DEF PoolInv, PoolTyping
<1>2. /\ at[t].label = "release" /\ at[t] \in PoolLocations
      /\ barrier' = [barrier EXCEPT ![PoolPlace].wait = @ + 1]
      /\ UNCHANGED <<todo, policy, step>>
  BY PoolMember DEF Release
<1>3. at[t].back \in {"partition", "partitioned"}
  BY <1>2 DEF PoolLocations
<1>4. at' = [at EXCEPT ![t] = There]
  BY <1>3 DEF Release, Goto
<1>5. /\ There \in Locations /\ There.label = at[t].back
      /\ There.scope = "none" /\ There.back = "none"
  BY <1>3, AtPlain DEF PlainLabels
<1> HIDE DEF There
<1>6. PoolStep(t, There)
  <2>1. Ahead(policy, There) = Ahead(policy, at[t])
    BY <1>2, <1>3, <1>5 DEF Ahead
  <2>2. ForStealing(There) => ForStealing(at[t])
    BY <1>3, <1>5 DEF ForStealing
  <2>3. barrier' \in [Places -> [arrive : Int, master : Int, wait : Int]]
    BY <1>1, <1>2
  <2> QED
    BY <1>2, <1>4, <1>5, <2>1, <2>2, <2>3 DEF PoolStep
<1>7. /\ Pool'.wait = Pool.wait + 1 /\ Pool'.master = Pool.master
      /\ Pool'.arrive = Pool.arrive
  BY <1>1, <1>2 DEF Pool
<1>8. /\ at'[t] = There
      /\ \A u \in Threads : u # t => at'[u] = at[u]
  BY <1>6, PoolStepParts
<1>9. /\ t = 0 /\ Arrived = Threads
      /\ Pool.master = Pool.wait + 1 /\ Pool.arrive = 0
  BY <1>2 DEF PoolInv, Rounds, Counted, Releasing
<1>10. \A u \in Threads : step'[u].pool = Pool'.wait /\ Pool'.wait \in Int
  BY <1>2, <1>7, <1>9, PoolNumbers DEF Arrived
\* Nobody is on the way into or out of the rendezvous any more.
<1>11. \A u \in Threads : InPool(at'[u]) => at'[u].label = "wait" /\ u # 0
  <2> TAKE u \in Threads
  <2>1. CASE u = t
    BY <1>5, <1>8, <2>1 DEF InPool
  <2>2. CASE u # t
    <3>1. step[u].pool = Pool.wait + 1 /\ Pool.wait \in Int
      BY <1>9, PoolNumbers DEF Arrived
    <3>2. ~ Signalling(u)
      BY <1>9, PoolNumbers DEF PoolInv, Signalled
    <3>3. InPool(at[u]) => at[u].label \in {"arrive", "signal", "wait", "clear",
                                            "release"}
      BY PoolMember DEF PoolLocations
    <3>4. InPool(at[u]) => at[u].label \notin {"arrive", "clear", "release"}
      BY <1>9, <2>2, <3>1 DEF PoolInv, Rounds
    <3> QED
      BY <1>8, <1>9, <2>2, <3>2, <3>3, <3>4 DEF Signalling
  <2> QED
    BY <2>1, <2>2
<1>12. Arrived' = {}
  BY <1>10 DEF Arrived
<1>13. Rounds'
  <2> SUFFICES ASSUME NEW u \in Threads
               PROVE  Rounds!(u)'
    BY DEF Rounds
  <2> QED
    BY <1>10, <1>11
<1>14. Counted'
  <2>1. Cardinality(Arrived') = 0
    BY <1>12, FS_EmptySet
  <2> QED
    BY <1>7, <1>9, <1>11, <2>1, PoolOfThreads DEF Counted, Releasing
<1>15. Signalled'
  <2>1. Arrived' # Threads
    BY <1>12, PoolOfThreads
  <2>2. \A u \in Threads : ~ Signalling(u)'
    BY <1>11 DEF Signalling
  <2> QED
    BY <1>7, <1>9, <2>1, <2>2 DEF Signalled
<1> QED
  BY <1>6, <1>13, <1>14, <1>15, PoolStepParts DEF PoolInv

-----------------------------------------------------------------------------
(* The launch, and every step.                                             *)

\* All threads stand at the beginning or the end of a launch, in the first state
\* and ...
LEMMA StartInv ==
  ASSUME PoolTyping, NEW location \in PlainLocations,
         \A t \in Threads : at[t] = location,
         ForStealing(location) => policy.dynamic,
         Pool.arrive = 0, Pool.master = Pool.wait,
         \A t \in Threads : step[t].pool = Pool.wait
  PROVE  PoolInv
<1>1. Pool.wait \in Int
  BY PoolOfThreads DEF PoolTyping, Pool
<1>2. ~ InPool(location)
  BY DEF PlainLocations, InPool, At
<1>3. Arrived = {}
  BY <1>1 DEF Arrived
<1>4. Arrived # Threads
  BY <1>3, PoolOfThreads
<1>5. Cardinality(Arrived) = 0
  BY <1>3, FS_EmptySet
<1>6. Rounds
  BY <1>2 DEF Rounds
<1>7. Counted
  BY <1>2, <1>5, PoolOfThreads DEF Counted, Releasing
<1>8. Signalled
  BY <1>2, <1>4 DEF Signalled, Signalling
<1>9. InStep /\ Scheduled
  BY DEF InStep, Scheduled
<1> QED
  BY <1>6, <1>7, <1>8, <1>9 DEF PoolInv

\* A launch that has returned leaves the barrier as it found it.
LEMMA JoinedReusable ==
  ASSUME PoolInv, AllJoined
  PROVE  /\ Pool.arrive = 0
         /\ \A t \in Threads : step[t].pool = Pool.wait /\ Pool.master = Pool.wait
<1>1. \A t \in Threads : ~ InPool(at[t])
  BY PoolMember DEF AllJoined, PoolLocations
<1>2. \A t \in Threads : step[t].pool = Pool.wait
  BY <1>1 DEF PoolInv, Rounds
<1>3. Arrived = {}
  BY <1>2, PoolNumbers DEF Arrived
<1>4. Arrived # Threads /\ Cardinality(Arrived) = 0
  BY <1>3, PoolOfThreads, FS_EmptySet
<1>5. Pool.arrive = 0
  BY <1>1, <1>4, PoolOfThreads DEF PoolInv, Counted, Releasing
<1>6. Pool.master = Pool.wait
  BY <1>4 DEF PoolInv, Signalled
<1> QED
  BY <1>2, <1>5, <1>6

LEMMA InitInv == Init => PoolInv
<1> SUFFICES ASSUME Init
             PROVE  PoolInv
  OBVIOUS
<1>1. todo \in Seq(Policies) /\ todo # << >>
  BY TeamAssumption DEF Init
<1>2. policy \in Policies
  <2>1. Head(todo) \in Policies
    BY <1>1
  <2> QED
    BY <2>1 DEF Init
<1>3. /\ At("joined") \in PlainLocations
      /\ \A t \in Threads : at[t] = At("joined")
      /\ ~ ForStealing(At("joined"))
  BY DEF Init, PlainLocations, PlainLabels, ForStealing, At
<1>4. PoolTyping
  BY <1>1, <1>2, <1>3
  DEF Init, PoolTyping, Locations, NoSteps, NewBarrier
<1>5. /\ Pool.arrive = 0 /\ Pool.master = Pool.wait
      /\ \A t \in Threads : step[t].pool = Pool.wait
  BY PoolOfThreads DEF Init, Pool, NewBarrier, NoSteps
<1> QED
  BY <1>3, <1>4, <1>5, StartInv

\* ... behind a step.
LEMMA StartNext ==
  ASSUME PoolTyping', NEW location \in PlainLocations,
         \A t \in Threads : at'[t] = location,
         ForStealing(location) => policy'.dynamic,
         Pool'.arrive = 0, Pool'.master = Pool'.wait,
         \A t \in Threads : step'[t].pool = Pool'.wait
  PROVE  PoolInv'
<1>1. Pool'.wait \in Int
  BY PoolOfThreads DEF PoolTyping, Pool
<1>2. ~ InPool(location)
  BY DEF PlainLocations, InPool, At
<1>3. Arrived' = {}
  BY <1>1 DEF Arrived
<1>4. Arrived' # Threads
  BY <1>3, PoolOfThreads
<1>5. Cardinality(Arrived') = 0
  BY <1>3, FS_EmptySet
<1>6. Rounds'
  BY <1>2 DEF Rounds
<1>7. Counted'
  BY <1>2, <1>5, PoolOfThreads DEF Counted, Releasing
<1>8. Signalled'
  BY <1>2, <1>4 DEF Signalled, Signalling
<1>9. InStep' /\ Scheduled'
  BY DEF InStep, Scheduled
<1> QED
  BY <1>6, <1>7, <1>8, <1>9 DEF PoolInv

LEMMA LaunchInv ==
  ASSUME PoolInv, Launch
  PROVE  PoolInv'
<1> DEFINE There == Begin(Head(todo))
<1>1. /\ todo \in Seq(Policies) /\ todo # << >>
      /\ todo' = Tail(todo) /\ policy' = Head(todo)
      /\ at' = [t \in Threads |-> There]
  BY DEF PoolInv, PoolTyping, Launch
<1>2. Head(todo) \in Policies /\ Tail(todo) \in Seq(Policies)
  BY <1>1
<1>3. There \in PlainLocations /\ ~ ForStealing(There)
  BY DEF Begin, PlainLocations, PlainLabels, ForStealing, At
<1>4. \/ Resized
      \/ UNCHANGED <<step, barrier>>
  BY DEF Launch
<1>5. /\ step' \in [Threads -> [pool : Nat, team : Nat]]
      /\ barrier' \in [Places -> [arrive : Int, master : Int, wait : Int]]
  <2>1. CASE Resized
    BY <2>1 DEF Resized, NoSteps, NewBarrier
  <2>2. CASE UNCHANGED <<step, barrier>>
    BY <2>2 DEF PoolInv, PoolTyping
  <2> QED
    BY <1>4, <2>1, <2>2
<1>6. /\ Pool'.arrive = 0 /\ Pool'.master = Pool'.wait
      /\ \A t \in Threads : step'[t].pool = Pool'.wait
  <2>1. CASE Resized
    BY <2>1, PoolOfThreads DEF Resized, NoSteps, NewBarrier, Pool
  <2>2. CASE UNCHANGED <<step, barrier>>
    <3>1. AllJoined
      BY DEF Launch
    <3> QED
      BY <2>2, <3>1, JoinedReusable, PoolOfThreads DEF Pool
  <2> QED
    BY <1>4, <2>1, <2>2
<1>7. PoolTyping'
  BY <1>1, <1>2, <1>3, <1>5 DEF PoolTyping, Locations
<1>8. \A t \in Threads : at'[t] = There
  BY <1>1
<1> HIDE DEF There
<1> QED
  BY <1>3, <1>6, <1>7, <1>8, StartNext

LEMMA NextInv == PoolInv /\ [Next]_teamVars => PoolInv'
<1> SUFFICES ASSUME PoolInv, [Next]_teamVars
             PROVE  PoolInv'
  OBVIOUS
<1>1. CASE Launch
  BY <1>1, LaunchInv
<1>2. ASSUME NEW t \in Threads, Thread(t)
      PROVE  PoolInv'
  <2>1. CASE Barrier(t) /\ InPool(at[t])
    BY <2>1, PoolArrive, PoolSignal, PoolMasterWait, PoolWait, PoolClear,
       PoolRelease DEF Barrier
  <2>2. CASE Barrier(t) /\ ~ InPool(at[t])
    BY <2>2, TeamBarrierQuiet, QuietStep
  <2>3. CASE Organize(t)
    BY <2>3, OrganizeQuiet, QuietStep
  <2>4. CASE SetWorkPartition(t)
    BY <2>4, PartitionQuiet, QuietStep
  <2>5. CASE StartStealing(t) \/ OwnBlock(t) \/ RunItem(t)
    BY <2>5, WorkQuiet, QuietStep
  <2>6. CASE \/ TryOwn(t) \/ TakeOwn(t) \/ StealFromOther(t)
             \/ ShareIndex(t) \/ ReadIndex(t)
    BY <2>6, StealingQuiet, QuietStep
  <2> QED
    BY <1>2, <2>1, <2>2, <2>3, <2>4, <2>5, <2>6 DEF Thread
<1>3. CASE UNCHANGED teamVars
  BY <1>3
  DEF teamVars, PoolInv, PoolTyping, Rounds, Counted, Signalled, InStep,
      Scheduled, Pool, Arrived, Releasing, Signalling
<1> QED
  BY <1>1, <1>2, <1>3 DEF Next

\* The threads of the pool go through its rendezvous in step.
THEOREM PoolInvariant == Spec => []PoolInv
<1>1. Init => PoolInv
  BY InitInv
<1>2. PoolInv /\ [Next]_teamVars => PoolInv'
  BY NextInv
<1> QED
  BY <1>1, <1>2, PTL DEF Spec

\* execute: "Make sure work partition is set before stealing", for every size of
\* the pool and every sequence of launches.
THEOREM StealingIsLate == Spec => []NobodyStealsEarly
<1>1. PoolInv => NobodyStealsEarly
  <2> SUFFICES ASSUME PoolInv,
                      NEW t \in Threads, at[t].label \in {"try_own", "own", "steal"},
                      NEW u \in Threads, at[u].label \in {"organize", "partition"}
               PROVE  FALSE
    BY DEF NobodyStealsEarly
  <2>1. at[t] \in PlainLocations /\ at[u] \in PlainLocations
    BY DEF PoolInv, PoolTyping, Locations, PoolLocations, TeamLocations
  <2>2. /\ ~ InPool(at[t]) /\ at[t].back = "none"
        /\ ~ InPool(at[u]) /\ at[u].back = "none"
    BY <2>1 DEF PlainLocations, InPool, At
  <2>3. step[t].pool = step[u].pool
    BY <2>2 DEF PoolInv, Rounds
  <2>4. Ahead(policy, at[t]) = Ahead(policy, at[u])
    BY <2>3, AheadType, PoolNumbers DEF PoolInv, InStep
  <2>5. Ahead(policy, at[t]) = 0
    BY <2>2 DEF Ahead
  <2>6. PoolSize > 1
    <3>1. t # u
      OBVIOUS
    <3> QED
      BY <3>1, TeamAssumption DEF Threads
  <2>7. policy.dynamic
    BY DEF PoolInv, Scheduled, ForStealing
  <2>8. Dynamic(policy) = 1
    BY <2>6, <2>7 DEF Dynamic
  <2>9. Ahead(policy, at[u]) > 0
    BY <2>2, <2>6, <2>8 DEF Ahead
  <2> QED
    BY <2>4, <2>5, <2>9
<1> QED
  BY <1>1, PoolInvariant, PTL

\* Between two launches the pool's barrier can be used again: all threads have
\* made the same steps, and no arrival is left over.
THEOREM BarrierIsReusable == Spec => []BarrierReusable
<1>1. PoolInv => BarrierReusable
  BY JoinedReusable, PoolOfThreads DEF BarrierReusable, Pool
<1> QED
  BY <1>1, PoolInvariant, PTL

-----------------------------------------------------------------------------
(* The threads of a team follow its master.                                *)

\* A pool of n threads holds n \div k teams of k, and no other team fits.
LEMMA TeamLayout ==
  ASSUME NEW n \in Nat \ {0}, NEW k \in 1 .. n, NEW l, l = n \div k,
         NEW a, a = n \div l
  PROVE  /\ l \in Nat \ {0} /\ a \in Nat \ {0}
         /\ k <= a
         /\ l * a <= n /\ n < l * a + k
<1>1. k \in Nat \ {0} /\ k <= n
  OBVIOUS
<1>2. l \in Nat /\ l * k <= n /\ n < (l + 1) * k
  BY <1>1, DivModDef
<1>3. l \in Nat \ {0} /\ n < l * k + k
  BY <1>1, <1>2
<1>4. a \in Nat /\ a * l <= n /\ n < (a + 1) * l
  BY <1>3, DivModDef
<1>5. k <= a
  <2> SUFFICES ASSUME ~ k <= a
               PROVE  FALSE
    OBVIOUS
  <2>1. a + 1 <= k
    BY <1>1, <1>4
  <2>2. (a + 1) * l <= k * l
    BY <1>1, <1>3, <1>4, <2>1, MultMono
  <2> QED
    BY <1>1, <1>2, <1>3, <1>4, <2>2
<1>6. k * l <= a * l
  BY <1>1, <1>3, <1>4, <1>5, MultMono
<1>7. l * k = k * l /\ l * a = a * l
  BY <1>1, <1>3, <1>4
<1>8. a * l \in Nat /\ k * l \in Nat
  BY <1>1, <1>3, <1>4
<1> QED
  BY <1>1, <1>3, <1>4, <1>5, <1>6, <1>7, <1>8

LEMMA TeamNumbers ==
  ASSUME NEW p \in Policies
  PROVE  /\ PoolSize \in Nat \ {0} /\ p.team \in 1 .. PoolSize
         /\ LeagueSize(p) \in Nat \ {0} /\ Alloc(p) \in Nat \ {0}
         /\ p.team <= Alloc(p)
         /\ LeagueSize(p) * Alloc(p) <= PoolSize
         /\ PoolSize < LeagueSize(p) * Alloc(p) + p.team
  BY TeamAssumption, PolicyFields, TeamLayout DEF LeagueSize, Alloc

\* Where a thread is within the distance of two teams.
LEMMA ThreadNumbers ==
  ASSUME NEW p \in Policies, NEW t \in Threads
  PROVE  /\ t \in Nat /\ League(p, t) \in Nat
         /\ Base(p, t) = League(p, t) * Alloc(p)
         /\ Base(p, t) \in Threads
         /\ t % Alloc(p) \in 0 .. Alloc(p) - 1
         /\ t = Base(p, t) + (t % Alloc(p))
<1>1. t \in Nat /\ t < PoolSize /\ Alloc(p) \in Nat \ {0} /\ PoolSize \in Nat
  BY TeamNumbers, TeamAssumption DEF Threads
<1>2. /\ League(p, t) \in Nat
      /\ t % Alloc(p) \in 0 .. Alloc(p) - 1
      /\ t = League(p, t) * Alloc(p) + (t % Alloc(p))
  BY <1>1, DivModDef DEF League
<1>3. League(p, t) * Alloc(p) \in Nat
  BY <1>1, <1>2
<1> QED
  BY <1>1, <1>2, <1>3 DEF Base, Threads

\* The threads at most a team behind a base.
LEMMA BaseOf ==
  ASSUME NEW p \in Policies, NEW t \in Threads, NEW d \in 0 .. Alloc(p) - 1,
         NEW q \in Nat, t = q * Alloc(p) + d
  PROVE  /\ League(p, t) = q
         /\ Base(p, t) = q * Alloc(p)
         /\ t % Alloc(p) = d
<1>1. Alloc(p) \in Nat \ {0}
  BY TeamNumbers
<1>2. t \div Alloc(p) = q /\ t % Alloc(p) = d
  BY <1>1, DivModUnique
<1> QED
  BY <1>2 DEF League, Base

LEMMA BaseIsBase ==
  ASSUME NEW p \in Policies, NEW t \in Threads
  PROVE  /\ Base(p, Base(p, t)) = Base(p, t)
         /\ League(p, Base(p, t)) = League(p, t)
         /\ Active(p, t) => Active(p, Base(p, t))
<1>1. /\ Base(p, t) \in Threads /\ League(p, t) \in Nat
      /\ Base(p, t) = League(p, t) * Alloc(p)
  BY ThreadNumbers
<1>2. /\ Alloc(p) \in Nat \ {0} /\ p.team \in 1 .. PoolSize
      /\ PoolSize \in Nat
  BY TeamNumbers
<1>3. 0 \in 0 .. Alloc(p) - 1 /\ Base(p, t) = League(p, t) * Alloc(p) + 0
  BY <1>1, <1>2
<1>4. /\ League(p, Base(p, t)) = League(p, t)
      /\ Base(p, Base(p, t)) = League(p, t) * Alloc(p)
      /\ Base(p, t) % Alloc(p) = 0
  BY <1>1, <1>3, BaseOf
<1> QED
  BY <1>1, <1>2, <1>4 DEF Active

\* Threads of one league are of one team.
LEMMA LeagueIsTeam ==
  ASSUME NEW p \in Policies, NEW t \in Threads, NEW u \in Threads
  PROVE  Base(p, t) = Base(p, u) <=> League(p, t) = League(p, u)
<1>1. Base(p, t) = Base(p, u) => League(p, t) = League(p, u)
  BY BaseIsBase
<1> QED
  BY <1>1 DEF Base

\* With teams of one thread, every thread is its own master.
LEMMA FlatTeam ==
  ASSUME NEW p \in Policies, NEW t \in Threads, p.team = 1
  PROVE  Active(p, t) /\ Base(p, t) = t
<1>1. /\ PoolSize \in Nat \ {0}
      /\ PoolSize \div 1 = PoolSize /\ PoolSize \div PoolSize = 1
  BY TeamNumbers
<1>2. Alloc(p) = 1
  BY <1>1 DEF Alloc, LeagueSize
<1>3. t \in 0 .. PoolSize - 1 /\ t = t * 1 + 0
  BY <1>1 DEF Threads
<1>4. Base(p, t) = t /\ t % Alloc(p) = 0
  BY <1>1, <1>2, <1>3, BaseOf
<1> QED
  BY <1>1, <1>3, <1>4 DEF Active, Fits

\* The members of a full team are its master and the threads behind it.
LEMMA TeamMembers ==
  ASSUME policy \in Policies, NEW m \in Threads, IsMaster(m)
  PROVE  /\ Teammates(policy, m) = m .. m + policy.team - 1
         /\ m \in Teammates(policy, m)
         /\ IsFiniteSet(Teammates(policy, m))
         /\ Cardinality(Teammates(policy, m)) = policy.team
<1>1. /\ PoolSize \in Nat \ {0} /\ policy.team \in 1 .. PoolSize
      /\ Alloc(policy) \in Nat \ {0} /\ policy.team <= Alloc(policy)
  BY TeamNumbers
<1>2. /\ m \in Nat /\ League(policy, m) \in Nat
      /\ m = League(policy, m) * Alloc(policy)
      /\ Base(policy, m) = m /\ Active(policy, m)
      /\ m + policy.team <= PoolSize
  BY ThreadNumbers DEF IsMaster, Master, Active, Fits
<1>3. ASSUME NEW u \in m .. m + policy.team - 1
      PROVE  u \in Teammates(policy, m)
  <2> DEFINE d == u - m
  <2>1. u \in Threads /\ d \in 0 .. Alloc(policy) - 1 /\ d < policy.team
    BY <1>1, <1>2 DEF Threads
  <2>2. u = League(policy, m) * Alloc(policy) + d
    BY <1>1, <1>2
  <2> HIDE DEF d
  <2>3. Base(policy, u) = m /\ u % Alloc(policy) = d
    BY <1>2, <2>1, <2>2, BaseOf
  <2> QED
    BY <1>2, <2>1, <2>3 DEF Teammates, Active
<1>4. ASSUME NEW u \in Teammates(policy, m)
      PROVE  u \in m .. m + policy.team - 1
  <2>1. u \in Threads /\ Base(policy, u) = m /\ u % Alloc(policy) < policy.team
    BY <1>2 DEF Teammates, Active
  <2>2. u = m + (u % Alloc(policy)) /\ u % Alloc(policy) \in 0 .. Alloc(policy) - 1
    BY <2>1, ThreadNumbers
  <2> QED
    BY <1>1, <1>2, <2>1, <2>2
<1>5. Teammates(policy, m) = m .. m + policy.team - 1
  BY <1>3, <1>4
<1>6. m \in m .. m + policy.team - 1
  BY <1>1, <1>2
<1>7. /\ IsFiniteSet(m .. m + policy.team - 1)
      /\ Cardinality(m .. m + policy.team - 1) = policy.team
  <2> DEFINE last == m + policy.team - 1
  <2>1. m \in Int /\ last \in Int /\ m <= last /\ last - m + 1 = policy.team
    BY <1>1, <1>2
  <2> HIDE DEF last
  <2>2. IsFiniteSet(m .. last) /\ Cardinality(m .. last) = last - m + 1
    BY <2>1, FS_Interval
  <2> QED
    BY <2>1, <2>2 DEF last
<1> QED
  BY <1>5, <1>6, <1>7

-----------------------------------------------------------------------------
(* The steps of a round, at any barrier.                                   *)

Sound(S, m, part, steps, b) ==
  /\ IsFiniteSet(S) /\ m \in S
  /\ b \in [arrive : Int, master : Int, wait : Int]
  /\ Round(S, m, part, steps, b)

\* The threads of S but t, and their steps, stay as they are.
Others(S, t, part, steps, part2, steps2) ==
  \A u \in S : u # t => part2[u] = part[u] /\ steps2[u] = steps[u]

LEMMA RoundUnchanged ==
  ASSUME NEW S, NEW m \in S, NEW part, NEW steps, NEW b, NEW part2, NEW steps2,
         Round(S, m, part, steps, b),
         \A u \in S : part2[u] = part[u] /\ steps2[u] = steps[u]
  PROVE  Round(S, m, part2, steps2, b)
<1>1. /\ ArrivedAt(S, steps2, b) = ArrivedAt(S, steps, b)
      /\ SignallingAt(S, part2) = SignallingAt(S, part)
  BY DEF ArrivedAt, SignallingAt
<1> QED
  BY <1>1 DEF Round

LEMMA RoundStarts ==
  ASSUME NEW S, NEW m \in S, NEW part, NEW steps, NEW b,
         b = NewBarrier, \A u \in S : part[u] = "out" /\ steps[u] = 0
  PROVE  Round(S, m, part, steps, b)
<1>1. ArrivedAt(S, steps, b) = {} /\ SignallingAt(S, part) = {}
  BY DEF ArrivedAt, SignallingAt, NewBarrier
<1>2. Cardinality({}) = 0 /\ S # {}
  BY FS_EmptySet
<1> QED
  BY <1>1, <1>2 DEF Round, NewBarrier

LEMMA RoundNumbers ==
  ASSUME NEW S, NEW m, NEW part, NEW steps, NEW b, Sound(S, m, part, steps, b)
  PROVE  /\ b.arrive \in Nat /\ b.master \in Int /\ b.wait \in Int
         /\ \A u \in S : steps[u] \in Int
         /\ ArrivedAt(S, steps, b) \in SUBSET S
         /\ IsFiniteSet(ArrivedAt(S, steps, b))
         /\ Cardinality(ArrivedAt(S, steps, b)) \in Nat
         /\ Cardinality(ArrivedAt(S, steps, b)) = Cardinality(S)
              => ArrivedAt(S, steps, b) = S
         /\ Cardinality(S) \in Nat
<1>1. ArrivedAt(S, steps, b) \in SUBSET S
  BY DEF ArrivedAt
<1>2. IsFiniteSet(S) /\ Cardinality(S) \in Nat
  BY FS_CardinalityType DEF Sound
<1>3. /\ IsFiniteSet(ArrivedAt(S, steps, b))
      /\ Cardinality(ArrivedAt(S, steps, b)) \in Nat
      /\ Cardinality(ArrivedAt(S, steps, b)) = Cardinality(S)
           => ArrivedAt(S, steps, b) = S
  BY <1>1, <1>2, FS_Subset, FS_CardinalityType
<1>4. b.master \in Int /\ b.wait \in Int
  BY DEF Sound
<1>5. \A u \in S : steps[u] \in Int
  BY <1>4 DEF Sound, Round
<1>6. b.arrive \in Nat
  BY <1>3 DEF Sound, Round
<1> QED
  BY <1>1, <1>2, <1>3, <1>4, <1>5, <1>6

LEMMA RoundArrive ==
  ASSUME NEW S, NEW m, NEW part, NEW steps, NEW b, NEW part2, NEW steps2, NEW b2,
         Sound(S, m, part, steps, b), NEW t \in S, part[t] = "out",
         Others(S, t, part, steps, part2, steps2),
         steps2[t] = steps[t] + 1,
         part2[t] = IF b.arrive = Cardinality(S) - 1 THEN "signal" ELSE "wait",
         b2 = [b EXCEPT !.arrive = @ + 1]
  PROVE  Round(S, m, part2, steps2, b2)
<1> DEFINE Last == b.arrive = Cardinality(S) - 1
           Arr == ArrivedAt(S, steps, b)
           Arr2 == ArrivedAt(S, steps2, b2)
           Sig2 == SignallingAt(S, part2)
<1>1. /\ b2.wait = b.wait /\ b2.master = b.master /\ b2.arrive = b.arrive + 1
      /\ b.wait \in Int /\ b.arrive \in Int /\ m \in S
  BY DEF Sound
<1>2. steps[t] = b.wait /\ t \notin Arr
  BY <1>1 DEF Sound, Round, ArrivedAt
<1>3. /\ SignallingAt(S, part) = {} /\ part[m] \notin {"held", "release"}
      /\ b.arrive = Cardinality(Arr) /\ b.master = b.wait
  BY <1>1, <1>2 DEF Sound, Round, ArrivedAt
<1>4. Arr2 = Arr \cup {t}
  <2>1. \A u \in S : u \in Arr2 <=> u = t \/ u \in Arr
    BY <1>1, <1>2 DEF ArrivedAt, Others
  <2> QED
    BY <2>1 DEF ArrivedAt
<1>5. /\ IsFiniteSet(Arr) /\ Cardinality(Arr) \in Nat /\ IsFiniteSet(S)
      /\ Cardinality(S) \in Nat /\ Arr \in SUBSET S
  BY RoundNumbers DEF Sound
<1>6. Cardinality(Arr2) = Cardinality(Arr) + 1 /\ Arr2 \in SUBSET S
  BY <1>2, <1>4, <1>5, FS_AddElement
<1>7. Last <=> Arr2 = S
  <2>1. Cardinality(Arr2) = Cardinality(S) <=> Arr2 = S
    BY <1>5, <1>6, FS_Subset
  <2> QED
    BY <1>3, <1>5, <1>6, <2>1
<1>8. \A u \in S : part2[u] = "signal" <=> u = t /\ Last
  <2> TAKE u \in S
  <2>1. CASE u = t
    BY <2>1
  <2>2. CASE u # t
    BY <1>3, <2>2 DEF SignallingAt, Others
  <2> QED
    BY <2>1, <2>2
<1>9. /\ \A u, v \in Sig2 : u = v
      /\ Sig2 # {} <=> Last
  BY <1>8 DEF SignallingAt
<1>10. \A u \in S :
         /\ steps2[u] \in {b2.wait, b2.wait + 1}
         /\ part2[u] = "out" => steps2[u] = b2.wait
         /\ part2[u] \in {"signal", "held", "release"} => steps2[u] = b2.wait + 1
         /\ part2[u] \in {"held", "release"} => u = m
         /\ u = m /\ part2[u] = "wait" => steps2[u] = b2.wait + 1
  <2> TAKE u \in S
  <2>1. CASE u = t
    BY <1>1, <1>2, <2>1
  <2>2. CASE u # t
    BY <1>1, <2>2 DEF Sound, Round, Others
  <2> QED
    BY <2>1, <2>2
<1>11. part2[m] \notin {"held", "release"}
  <2>1. CASE m = t
    BY <2>1
  <2>2. CASE m # t
    BY <1>1, <1>3, <2>2 DEF Others
  <2> QED
    BY <2>1, <2>2
<1> QED
  BY <1>1, <1>3, <1>6, <1>7, <1>9, <1>10, <1>11 DEF Round

LEMMA RoundSignal ==
  ASSUME NEW S, NEW m, NEW part, NEW steps, NEW b, NEW part2, NEW b2,
         Sound(S, m, part, steps, b), NEW t \in S, part[t] = "signal",
         Others(S, t, part, steps, part2, steps), part2[t] = "wait",
         b2 = [b EXCEPT !.master = @ + 1]
  PROVE  Round(S, m, part2, steps, b2)
<1>1. /\ b2.wait = b.wait /\ b2.arrive = b.arrive /\ b2.master = b.master + 1
      /\ m \in S
  BY DEF Sound
<1>2. ArrivedAt(S, steps, b2) = ArrivedAt(S, steps, b)
  BY <1>1 DEF ArrivedAt
<1>3. /\ ArrivedAt(S, steps, b) = S /\ b.master = b.wait
      /\ \A u \in S : part[u] = "signal" => u = t
      /\ part[m] \notin {"held", "release"}
  <2>1. t \in SignallingAt(S, part)
    BY DEF SignallingAt
  <2>2. b.master = b.wait /\ ArrivedAt(S, steps, b) = S
    BY <2>1 DEF Sound, Round
  <2>3. \A u \in S : part[u] = "signal" => u = t
    BY <2>1 DEF Sound, Round, SignallingAt
  <2>4. b.wait # b.wait + 1
    BY DEF Sound
  <2> QED
    BY <2>2, <2>3, <2>4 DEF Sound, Round
<1>4. SignallingAt(S, part2) = {}
  BY <1>3 DEF SignallingAt, Others
<1>5. part2[m] \notin {"held", "release"}
  BY <1>1, <1>3 DEF Others
<1>6. \A u \in S :
         /\ steps[u] \in {b2.wait, b2.wait + 1}
         /\ part2[u] = "out" => steps[u] = b2.wait
         /\ part2[u] \in {"signal", "held", "release"} => steps[u] = b2.wait + 1
         /\ part2[u] \in {"held", "release"} => u = m
         /\ u = m /\ part2[u] = "wait" => steps[u] = b2.wait + 1
  <2> TAKE u \in S
  <2>1. CASE u = t
    BY <1>1, <2>1 DEF Sound, Round
  <2>2. CASE u # t
    BY <1>1, <2>2 DEF Sound, Round, Others
  <2> QED
    BY <2>1, <2>2
<1>7. b.arrive = Cardinality(ArrivedAt(S, steps, b))
  BY <1>3 DEF Sound, Round
<1> QED
  BY <1>1, <1>2, <1>3, <1>4, <1>5, <1>6, <1>7 DEF Round

\* The master goes on once all have arrived and the last one has told it.
LEMMA RoundHeld ==
  ASSUME NEW S, NEW m, NEW part, NEW steps, NEW b, NEW part2,
         Sound(S, m, part, steps, b), part[m] = "wait", b.master = steps[m],
         Others(S, m, part, steps, part2, steps), part2[m] = "held"
  PROVE  Round(S, m, part2, steps, b)
<1>1. m \in S /\ b.wait # b.wait + 1
  BY DEF Sound
<1>2. b.master = b.wait + 1
  BY <1>1 DEF Sound, Round
<1>3. SignallingAt(S, part2) = SignallingAt(S, part)
  BY <1>1 DEF SignallingAt, Others
<1>4. \A u \in S :
         /\ steps[u] \in {b.wait, b.wait + 1}
         /\ part2[u] = "out" => steps[u] = b.wait
         /\ part2[u] \in {"signal", "held", "release"} => steps[u] = b.wait + 1
         /\ part2[u] \in {"held", "release"} => u = m
         /\ u = m /\ part2[u] = "wait" => steps[u] = b.wait + 1
  <2> TAKE u \in S
  <2>1. CASE u = m
    BY <1>2, <2>1 DEF Sound, Round
  <2>2. CASE u # m
    BY <2>2 DEF Sound, Round, Others
  <2> QED
    BY <2>1, <2>2
<1> QED
  BY <1>2, <1>3, <1>4 DEF Sound, Round

\* The others go on once the master has released them.
LEMMA RoundWait ==
  ASSUME NEW S, NEW m, NEW part, NEW steps, NEW b, NEW part2,
         Sound(S, m, part, steps, b), NEW t \in S, t # m, part[t] = "wait",
         b.wait = steps[t],
         Others(S, t, part, steps, part2, steps), part2[t] = "out"
  PROVE  Round(S, m, part2, steps, b)
<1>1. m \in S
  BY DEF Sound
<1>2. SignallingAt(S, part2) = SignallingAt(S, part)
  BY DEF SignallingAt, Others
<1>3. part2[m] = part[m]
  BY <1>1 DEF Others
<1>4. \A u \in S :
         /\ steps[u] \in {b.wait, b.wait + 1}
         /\ part2[u] = "out" => steps[u] = b.wait
         /\ part2[u] \in {"signal", "held", "release"} => steps[u] = b.wait + 1
         /\ part2[u] \in {"held", "release"} => u = m
         /\ u = m /\ part2[u] = "wait" => steps[u] = b.wait + 1
  <2> TAKE u \in S
  <2>1. CASE u = t
    BY <2>1 DEF Sound, Round
  <2>2. CASE u # t
    BY <2>2 DEF Sound, Round, Others
  <2> QED
    BY <2>1, <2>2
<1> QED
  BY <1>2, <1>3, <1>4 DEF Sound, Round

LEMMA RoundClear ==
  ASSUME NEW S, NEW m, NEW part, NEW steps, NEW b, NEW part2, NEW b2,
         Sound(S, m, part, steps, b), part[m] = "held",
         Others(S, m, part, steps, part2, steps), part2[m] = "release",
         b2 = [b EXCEPT !.arrive = @ - Cardinality(S)]
  PROVE  Round(S, m, part2, steps, b2)
<1>1. /\ b2.wait = b.wait /\ b2.master = b.master
      /\ b2.arrive = b.arrive - Cardinality(S)
      /\ m \in S /\ b.wait # b.wait + 1
  BY DEF Sound
<1>2. /\ ArrivedAt(S, steps, b2) = ArrivedAt(S, steps, b)
      /\ SignallingAt(S, part2) = SignallingAt(S, part)
  BY <1>1 DEF ArrivedAt, SignallingAt, Others
<1>3. /\ b.master = b.wait + 1 /\ ArrivedAt(S, steps, b) = S
      /\ b.arrive = Cardinality(ArrivedAt(S, steps, b))
  BY <1>1 DEF Sound, Round
<1>4. b2.arrive = 0
  BY <1>1, <1>3, RoundNumbers
<1>5. \A u \in S :
         /\ steps[u] \in {b2.wait, b2.wait + 1}
         /\ part2[u] = "out" => steps[u] = b2.wait
         /\ part2[u] \in {"signal", "held", "release"} => steps[u] = b2.wait + 1
         /\ part2[u] \in {"held", "release"} => u = m
         /\ u = m /\ part2[u] = "wait" => steps[u] = b2.wait + 1
  <2> TAKE u \in S
  <2>1. CASE u = m
    BY <1>1, <2>1 DEF Sound, Round
  <2>2. CASE u # m
    BY <1>1, <2>2 DEF Sound, Round, Others
  <2> QED
    BY <2>1, <2>2
<1> QED
  BY <1>1, <1>2, <1>3, <1>4, <1>5 DEF Sound, Round

\* Nobody is on the way into or out of the rendezvous when it is released.
LEMMA RoundRelease ==
  ASSUME NEW S, NEW m, NEW part, NEW steps, NEW b, NEW part2, NEW b2,
         Sound(S, m, part, steps, b), part[m] = "release",
         Others(S, m, part, steps, part2, steps), part2[m] = "out",
         b2 = [b EXCEPT !.wait = @ + 1]
  PROVE  /\ Round(S, m, part2, steps, b2)
         /\ \A u \in S : /\ steps[u] = b.wait + 1
                         /\ u # m => part[u] \notin {"out", "signal", "held", "release"}
<1>1. /\ b2.wait = b.wait + 1 /\ b2.master = b.master /\ b2.arrive = b.arrive
      /\ m \in S /\ b.wait # b.wait + 1 /\ b.wait + 1 # b.wait + 1 + 1
  BY DEF Sound
<1>2. /\ b.master = b.wait + 1 /\ ArrivedAt(S, steps, b) = S
      /\ SignallingAt(S, part) = {} /\ b.arrive = 0
  BY <1>1 DEF Sound, Round
<1>3. \A u \in S : /\ steps[u] = b.wait + 1
                   /\ u # m => part[u] \notin {"out", "signal", "held", "release"}
  <2> TAKE u \in S
  <2>1. steps[u] = b.wait + 1 /\ part[u] # "signal"
    BY <1>2 DEF ArrivedAt, SignallingAt
  <2> QED
    BY <1>1, <2>1 DEF Sound, Round
<1>4. \A u \in S : steps[u] = b2.wait
                   /\ part2[u] \notin {"signal", "held", "release"}
  <2> TAKE u \in S
  <2>1. CASE u = m
    BY <1>1, <1>3, <2>1
  <2>2. CASE u # m
    BY <1>1, <1>3, <2>2 DEF Others
  <2> QED
    BY <2>1, <2>2
<1>5. ArrivedAt(S, steps, b2) = {} /\ SignallingAt(S, part2) = {}
  BY <1>1, <1>4 DEF ArrivedAt, SignallingAt
<1>6. Cardinality({}) = 0 /\ S # {}
  BY <1>1, FS_EmptySet
<1>7. Round(S, m, part2, steps, b2)
  BY <1>1, <1>2, <1>4, <1>5, <1>6 DEF Round
<1> QED
  BY <1>3, <1>7

-----------------------------------------------------------------------------
(* Where the kinds of threads can be.                                      *)

LEMMA PlacedAt ==
  ASSUME NEW p, NEW t,
         NEW label \in {"joined", "partition", "partitioned"}
  PROVE  Placed(p, t, At(label))
  BY DEF Placed, At, OfTeams, InTeam, TeamPart

LEMMA PlacedActive ==
  ASSUME NEW p, NEW t, Active(p, t)
  PROVE  /\ Placed(p, t, At("item"))
         /\ ~ p.dynamic => Placed(p, t, At("own_block"))
         /\ Base(p, t) = t => /\ Placed(p, t, At("try_own"))
                              /\ Placed(p, t, At("own"))
                              /\ Placed(p, t, At("steal"))
                              /\ p.team > 1 => Placed(p, t, At("share"))
         /\ Base(p, t) # t /\ p.team > 1 => Placed(p, t, At("read_index"))
  BY DEF Placed, At, OfTeams, InTeam, TeamPart

LEMMA PlacedRendezvous ==
  ASSUME policy \in Policies, NEW t \in Threads, Active(policy, t)
  PROVE  /\ Placed(policy, t, Take)
         /\ Placed(policy, t, BetweenItems)
         /\ \A i : Placed(policy, t, WithChunk(i))
<1>1. policy.team \in Nat \ {0}
  BY TeamNumbers
<1>2. Placed(policy, t, Take) /\ Placed(policy, t, BetweenItems)
  <2>1. CASE policy.team = 1
    BY <2>1, FlatTeam, PlacedActive DEF Take, BetweenItems, Rendezvous, Size
  <2>2. CASE policy.team > 1
    BY <2>2 DEF Take, BetweenItems, Rendezvous, Size, Placed, OfTeams, InTeam,
                TeamPart
  <2> QED
    BY <1>1, <2>1, <2>2
<1>3. ASSUME NEW i PROVE Placed(policy, t, WithChunk(i))
  BY <1>2, PlacedAt, PlacedActive DEF WithChunk
<1> QED
  BY <1>2, <1>3

\* A step of one thread.
Moves(t) ==
  /\ UNCHANGED policy
  /\ at' = [at EXCEPT ![t] = at'[t]]

LEMMA WhereaboutsStep ==
  ASSUME PoolInv, Whereabouts, NEW t \in Threads, Moves(t),
         Placed(policy, t, at'[t])
  PROVE  Whereabouts'
<1>1. /\ policy' = policy
      /\ \A u \in Threads : u # t => at'[u] = at[u]
  BY DEF Moves, PoolInv, PoolTyping
<1>2. \A u \in Threads : Placed(policy, u, at'[u])
  BY <1>1 DEF Whereabouts
<1> QED
  BY <1>1, <1>2 DEF Whereabouts

LEMMA BarrierPlaced ==
  ASSUME PoolInv, Whereabouts, NEW t \in Threads, Barrier(t)
  PROVE  Moves(t) /\ Placed(policy, t, at'[t])
<1>1. /\ at \in [Threads -> Locations] /\ policy \in Policies
      /\ at[t] \in PoolLocations \cup TeamLocations
  BY DEF PoolInv, PoolTyping, Barrier, Arrive, Signal, MasterWait, Wait, Clear,
         Release, Locations, PlainLocations, PlainLabels, At
<1>2. Placed(policy, t, at[t])
  BY DEF Whereabouts
<1>3. policy' = policy
  BY DEF Barrier, Arrive, Signal, MasterWait, Wait, Clear, Release
<1>4. CASE InPool(at[t])
  <2>1. at[t].back \in {"partition", "partitioned"} /\ at[t].scope = "pool"
    BY <1>1, <1>4 DEF InPool, PoolLocations, TeamLocations
  <2>2. ASSUME NEW label \in {"signal", "wait", "clear", "release"},
               Goto(t, [at[t] EXCEPT !.label = label])
        PROVE  Moves(t) /\ Placed(policy, t, at'[t])
    <3>1. /\ at'[t] = [at[t] EXCEPT !.label = label]
          /\ at' = [at EXCEPT ![t] = at'[t]]
      BY <1>1, <2>2 DEF Goto
    <3>2. at'[t].label = label /\ at'[t].scope = "pool" /\ at'[t].back = at[t].back
      BY <1>1, <2>1, <3>1 DEF PoolLocations, TeamLocations
    <3> QED
      BY <1>2, <1>3, <3>1, <3>2 DEF Moves, Placed, OfTeams, InTeam, TeamPart
  <2>3. ASSUME Goto(t, At(at[t].back))
        PROVE  Moves(t) /\ Placed(policy, t, at'[t])
    BY <1>1, <1>3, <2>1, <2>3, PlacedAt DEF Goto, Moves
  <2> QED
    BY <2>1, <2>2, <2>3
    DEF Barrier, Arrive, Signal, MasterWait, Wait, Clear, Release
<1>5. CASE ~ InPool(at[t])
  <2>1. at[t] \in TeamLocations /\ at[t].scope = "team"
    BY <1>1, <1>5 DEF InPool, PoolLocations, TeamLocations
  <2>2. Active(policy, t) /\ policy.team > 1
    BY <1>2, <2>1 DEF Placed, OfTeams, InTeam
  <2>3. ASSUME NEW label \in {"signal", "wait", "clear", "release"},
               label \in {"clear", "release"} => Base(policy, t) = t,
               Goto(t, [at[t] EXCEPT !.label = label])
        PROVE  Moves(t) /\ Placed(policy, t, at'[t])
    <3>1. /\ at'[t] = [at[t] EXCEPT !.label = label]
          /\ at' = [at EXCEPT ![t] = at'[t]]
      BY <1>1, <2>3 DEF Goto
    <3>2. at'[t].label = label /\ at'[t].scope = "team" /\ at'[t].back = at[t].back
      BY <1>1, <2>1, <3>1 DEF TeamLocations
    <3> QED
      BY <1>2, <1>3, <2>2, <2>3, <3>1, <3>2
      DEF Moves, Placed, OfTeams, InTeam, TeamPart
  <2>4. ASSUME NEW loc, Goto(t, loc), Placed(policy, t, loc)
        PROVE  Moves(t) /\ Placed(policy, t, at'[t])
    BY <1>1, <1>3, <2>4 DEF Goto, Moves
  <2>5. RendezvousRank(t) = 0 <=> Base(policy, t) = t
    <3>1. t \in Nat /\ Base(policy, t) \in Nat
      BY <1>1, ThreadNumbers, PoolOfThreads
    <3> QED
      BY <2>1, <3>1 DEF RendezvousRank
  <2>6. CASE Arrive(t) \/ Signal(t)
    BY <2>3, <2>6 DEF Arrive, Signal
  <2>7. CASE MasterWait(t)
    <3>1. Base(policy, t) = t
      BY <2>5, <2>7 DEF MasterWait
    <3> QED
      BY <2>2, <2>3, <2>4, <2>7, <3>1, PlacedActive DEF MasterWait
  <2>8. CASE Wait(t)
    <3>1. Base(policy, t) # t /\ at[t].back \in {"take", "item"}
      BY <2>1, <2>5, <2>8 DEF Wait, TeamLocations
    <3> QED
      BY <2>2, <2>4, <2>8, <3>1, PlacedActive DEF Wait
  <2>9. CASE Clear(t)
    <3>1. Base(policy, t) = t
      BY <1>2, <2>1, <2>9 DEF Clear, Placed, TeamPart
    <3> QED
      BY <2>3, <2>9, <3>1 DEF Clear
  <2>10. CASE Release(t)
    <3>1. at[t].back \in {"item", "chunk"}
      BY <2>1, <2>10 DEF Release, TeamLocations
    <3> QED
      BY <1>1, <2>2, <2>4, <2>10, <3>1, PlacedActive, PlacedRendezvous DEF Release
  <2> QED
    BY <2>6, <2>7, <2>8, <2>9, <2>10 DEF Barrier
<1> QED
  BY <1>4, <1>5

LEMMA WorkPlaced ==
  ASSUME PoolInv, Whereabouts, NEW t \in Threads,
         \/ Organize(t) \/ SetWorkPartition(t) \/ StartStealing(t)
         \/ OwnBlock(t) \/ RunItem(t)
  PROVE  Moves(t) /\ Placed(policy, t, at'[t])
<1>1. at \in [Threads -> Locations] /\ policy \in Policies
  BY DEF PoolInv, PoolTyping
<1>2. Placed(policy, t, at[t])
  BY DEF Whereabouts
<1>3. policy' = policy
  BY DEF Organize, SetWorkPartition, StartStealing, OwnBlock, RunItem
<1>4. ASSUME NEW loc, Goto(t, loc), Placed(policy, t, loc)
      PROVE  Moves(t) /\ Placed(policy, t, at'[t])
  BY <1>1, <1>3, <1>4 DEF Goto, Moves
<1>5. ASSUME NEW back \in {"partition", "partitioned"},
             back = "partition" => policy.team > 1
      PROVE  Placed(policy, t, Rendezvous("pool", back))
  <2>1. CASE Size("pool") = 1
    BY <2>1, PlacedAt DEF Rendezvous
  <2>2. CASE Size("pool") # 1
    BY <1>5, <2>2 DEF Rendezvous, Placed, OfTeams, InTeam, TeamPart
  <2> QED
    BY <2>1, <2>2
<1>6. CASE Organize(t)
  <2>1. policy.team > 1
    BY <1>2, <1>6 DEF Organize, Placed, OfTeams
  <2> QED
    BY <1>4, <1>5, <1>6, <2>1 DEF Organize
<1>7. CASE SetWorkPartition(t)
  <2>1. Placed(policy, t, AfterPartition(t))
    BY <1>5, PlacedAt, PlacedActive DEF AfterPartition
  <2> QED
    BY <1>4, <1>7, <2>1 DEF SetWorkPartition
<1>8. CASE StartStealing(t)
  <2>1. Placed(policy, t, IF Active(policy, t) THEN Take ELSE At("joined"))
    BY <1>1, PlacedAt, PlacedRendezvous
  <2> QED
    BY <1>4, <1>8, <2>1 DEF StartStealing
<1>9. CASE OwnBlock(t)
  <2>1. Active(policy, t)
    BY <1>2, <1>9 DEF OwnBlock, Placed, InTeam
  <2>2. Goto(t, At("item")) \/ Goto(t, At("joined"))
    BY <1>9 DEF OwnBlock
  <2> QED
    BY <1>4, <2>1, <2>2, PlacedAt, PlacedActive
<1>10. CASE RunItem(t)
  <2>1. Active(policy, t)
    BY <1>2, <1>10 DEF RunItem, Placed, InTeam
  <2>2. Goto(t, BetweenItems) \/ Goto(t, Take) \/ Goto(t, At("joined"))
    BY <1>10 DEF RunItem
  <2> QED
    BY <1>1, <1>4, <2>1, <2>2, PlacedAt, PlacedRendezvous
<1> QED
  BY <1>6, <1>7, <1>8, <1>9, <1>10

LEMMA StealingPlaced ==
  ASSUME PoolInv, Whereabouts, NEW t \in Threads,
         \/ TryOwn(t) \/ TakeOwn(t) \/ StealFromOther(t)
         \/ ShareIndex(t) \/ ReadIndex(t)
  PROVE  Moves(t) /\ Placed(policy, t, at'[t])
<1>1. at \in [Threads -> Locations] /\ policy \in Policies
  BY DEF PoolInv, PoolTyping
<1>2. Placed(policy, t, at[t])
  BY DEF Whereabouts
<1>3. policy' = policy
  BY DEF TryOwn, TakeOwn, StealFromOther, ShareIndex, ReadIndex
<1>4. ASSUME NEW loc, Goto(t, loc), Placed(policy, t, loc)
      PROVE  Moves(t) /\ Placed(policy, t, at'[t])
  BY <1>1, <1>3, <1>4 DEF Goto, Moves
<1>5. CASE TryOwn(t) \/ TakeOwn(t) \/ StealFromOther(t)
  <2>1. Active(policy, t) /\ Base(policy, t) = t
    BY <1>2, <1>5 DEF TryOwn, TakeOwn, StealFromOther, Placed, InTeam, TeamPart
  <2>2. policy.team \in Nat \ {0}
    BY <1>1, TeamNumbers
  <2>3. ASSUME NEW i, Got(t, i)
        PROVE  Moves(t) /\ Placed(policy, t, at'[t])
    <3>1. CASE policy.team = 1
      BY <1>1, <1>4, <2>1, <2>3, <3>1, PlacedRendezvous DEF Got
    <3>2. CASE policy.team # 1
      BY <1>4, <2>1, <2>2, <2>3, <3>2, PlacedActive DEF Got
    <3> QED
      BY <3>1, <3>2
  <2>4. ASSUME UNCHANGED at
        PROVE  Moves(t) /\ Placed(policy, t, at'[t])
    BY <1>1, <1>2, <1>3, <2>4 DEF Moves
  <2>5. ASSUME NEW label \in {"own", "steal"}, Goto(t, At(label))
        PROVE  Moves(t) /\ Placed(policy, t, at'[t])
    BY <1>4, <2>1, <2>5, PlacedActive
  <2>6. CASE TryOwn(t)
    BY <2>3, <2>5, <2>6 DEF TryOwn
  <2>7. CASE TakeOwn(t)
    BY <2>3, <2>4, <2>5, <2>7 DEF TakeOwn
  <2>8. CASE StealFromOther(t)
    BY <2>3, <2>4, <2>8 DEF StealFromOther
  <2> QED
    BY <1>5, <2>6, <2>7, <2>8
<1>6. CASE ShareIndex(t)
  <2>1. /\ Active(policy, t) /\ Base(policy, t) = t /\ policy.team > 1
    BY <1>2, <1>6 DEF ShareIndex, Placed, InTeam, TeamPart, OfTeams
  <2>2. Placed(policy, t, [label |-> "clear", scope |-> "team", back |-> "chunk"])
    BY <2>1 DEF Placed, OfTeams, InTeam, TeamPart
  <2> QED
    BY <1>4, <1>6, <2>2 DEF ShareIndex
<1>7. CASE ReadIndex(t)
  <2>1. Active(policy, t)
    BY <1>2, <1>7 DEF ReadIndex, Placed, InTeam
  <2> QED
    BY <1>1, <1>4, <1>7, <2>1, PlacedRendezvous DEF ReadIndex
<1> QED
  BY <1>5, <1>6, <1>7

LEMMA ThreadPlaced ==
  ASSUME PoolInv, Whereabouts, NEW t \in Threads, Thread(t)
  PROVE  Moves(t) /\ Whereabouts'
  BY BarrierPlaced, WorkPlaced, StealingPlaced, WhereaboutsStep DEF Thread

LEMMA LaunchPlaced ==
  ASSUME PoolInv, Launch
  PROVE  Whereabouts'
<1>1. /\ policy' = Head(todo) /\ at' = [t \in Threads |-> Begin(Head(todo))]
  BY DEF Launch
<1>2. \A t \in Threads : Placed(Head(todo), t, Begin(Head(todo)))
  BY DEF Begin, Placed, At, OfTeams, InTeam, TeamPart
<1> QED
  BY <1>1, <1>2 DEF Whereabouts

-----------------------------------------------------------------------------
(* The rounds of the teams.                                                *)

\* While a thread organizes its team, the others are on their way to the first
\* rendezvous of the pool.
LEMMA WhileOrganizing ==
  ASSUME PoolInv, policy.team > 1,
         NEW u \in Threads, at[u].label = "organize", NEW t \in Threads
  PROVE  \/ at[t].label = "organize" /\ at[t].scope = "none"
         \/ InPool(at[t]) /\ at[t].back = "partition"
<1>1. /\ at \in [Threads -> Locations] /\ policy \in Policies
      /\ \A v \in Threads : step[v].pool \in Nat
      /\ Pool.wait \in Int
  BY PoolNumbers DEF PoolInv, PoolTyping
<1>2. PoolSize > 1
  BY <1>1, TeamNumbers
<1>3. /\ ~ InPool(at[u]) /\ step[u].pool = Pool.wait
      /\ Ahead(policy, at[u]) = Dynamic(policy) + 1
  <2>1. ~ InPool(at[u])
    BY LocationKinds, <1>1 DEF PoolLocations
  <2> QED
    BY <1>2, <2>1 DEF PoolInv, Rounds, Ahead
<1>4. step[t].pool + Ahead(policy, at[t]) = Pool.wait + Dynamic(policy) + 1
  BY <1>1, <1>3, AheadType DEF PoolInv, InStep
<1>5. ForStealing(at[t]) => Dynamic(policy) = 1
  BY <1>2 DEF PoolInv, Scheduled, Dynamic
<1>6. Dynamic(policy) \in {0, 1} /\ Ahead(policy, at[t]) \in Nat
  BY AheadType DEF Dynamic
<1>7. CASE InPool(at[t])
  <2>1. at[t].back \in {"partition", "partitioned"} /\ at[t].label \notin {"organize", "partition"}
    BY <1>7, PoolMember DEF PoolLocations
  <2>2. CASE at[t].back = "partitioned"
    <3>1. Dynamic(policy) = 1
      BY <1>5, <2>2 DEF ForStealing
    <3>2. Ahead(policy, at[t]) = IF at[t].label = "arrive" THEN 1 ELSE 0
      BY <2>1, <2>2 DEF Ahead
    <3>3. at[t].label = "arrive" => step[t].pool = Pool.wait
      BY DEF PoolInv, Rounds
    <3>4. step[t].pool \in {Pool.wait, Pool.wait + 1}
      BY DEF PoolInv, Rounds
    <3> QED
      BY <1>1, <1>4, <3>1, <3>2, <3>3, <3>4
  <2> QED
    BY <1>7, <2>1, <2>2
<1>8. CASE ~ InPool(at[t])
  <2>1. step[t].pool = Pool.wait
    BY <1>8 DEF PoolInv, Rounds
  <2>2. Ahead(policy, at[t]) = Dynamic(policy) + 1
    BY <1>1, <1>4, <1>6, <2>1
  <2>3. at[t].back \notin {"partition", "partitioned"}
    BY <1>1, <1>8 DEF Locations, PlainLocations, TeamLocations, PoolLocations,
                      InPool, At
  <2>4. at[t].label = "organize"
    BY <1>6, <2>2, <2>3 DEF Ahead
  <2>5. at[t].scope = "none"
    BY <1>1, <2>4 DEF Locations, PlainLocations, TeamLocations, PoolLocations, At
  <2> QED
    BY <2>4, <2>5
<1> QED
  BY <1>7, <1>8

LEMMA TeamSound ==
  ASSUME PoolInv, TeamRounds, Organized, policy.team > 1,
         NEW m \in Threads, IsMaster(m)
  PROVE  /\ Sound(Teammates(policy, m), m, Parts, TeamSteps, barrier[m])
         /\ Cardinality(Teammates(policy, m)) = policy.team
<1>1. /\ policy \in Policies
      /\ barrier \in [Places -> [arrive : Int, master : Int, wait : Int]]
  BY DEF PoolInv, PoolTyping
<1>2. barrier[m] \in [arrive : Int, master : Int, wait : Int]
  BY <1>1 DEF Places
<1>3. TeamRound(m)
  BY DEF TeamRounds
<1> QED
  BY <1>1, <1>2, <1>3, TeamMembers DEF Sound, TeamRound

\* A step that has nothing to do with the rounds.
LEMMA RoundsUntouched ==
  ASSUME PoolInv, TeamRounds, NEW t \in Threads, Moves(t),
         at[t].label # "organize", at'[t].label # "organize",
         policy.team > 1 => TeamPart(at'[t]) = TeamPart(at[t]),
         \A u \in Threads : step'[u].team = step[u].team,
         \A u \in Threads : barrier'[u] = barrier[u]
  PROVE  TeamRounds'
<1>1. /\ policy' = policy /\ policy \in Policies
      /\ \A u \in Threads : u # t => at'[u] = at[u]
  BY DEF Moves, PoolInv, PoolTyping
<1> SUFFICES ASSUME policy.team > 1
             PROVE  TeamRounds'
  BY <1>1 DEF TeamRounds
<1>2. Organized' <=> Organized
  BY <1>1 DEF Organized
<1>3. CASE Organized
  <2>1. \A u \in Threads : Parts'[u] = Parts[u] /\ TeamSteps'[u] = TeamSteps[u]
    BY <1>1 DEF Parts, TeamSteps
  <2>2. ASSUME NEW m \in Threads, IsMaster(m)
        PROVE  TeamRound(m)'
    <3>1. Teammates(policy, m) \subseteq Threads /\ m \in Teammates(policy, m)
      BY <1>1, <2>2, TeamMembers DEF Teammates
    <3>2. TeamRound(m)
      BY <1>3, <2>2 DEF TeamRounds
    <3>3. Round(Teammates(policy, m), m, Parts', TeamSteps', barrier[m])
      BY <2>1, <3>1, <3>2, RoundUnchanged DEF TeamRound
    <3> QED
      BY <1>1, <3>3 DEF TeamRound
  <2>3. \A m \in Threads : IsMaster(m)' => IsMaster(m)
    BY <1>1 DEF IsMaster, Master
  <2> QED
    BY <1>2, <1>3, <2>2, <2>3 DEF TeamRounds
<1>4. CASE ~ Organized
  BY <1>1, <1>2, <1>4 DEF TeamRounds, Master
<1> QED
  BY <1>3, <1>4

\* A step at the barrier of a team.
LEMMA RoundsTouched ==
  ASSUME PoolInv, TeamRounds, Organized, policy.team > 1,
         NEW t \in Threads, Moves(t), Active(policy, t),
         at'[t].label # "organize",
         \A u \in Threads : u # t => step'[u].team = step[u].team,
         \A u \in Threads : u # Master(t) => barrier'[u] = barrier[u],
         Round(Teammates(policy, Master(t)), Master(t), Parts', TeamSteps',
               barrier'[Master(t)])
  PROVE  TeamRounds'
<1>1. /\ policy' = policy /\ policy \in Policies
      /\ \A u \in Threads : u # t => at'[u] = at[u]
  BY DEF Moves, PoolInv, PoolTyping
<1>2. Organized'
  BY <1>1 DEF Organized
<1>3. \A u \in Threads :
        u # t => Parts'[u] = Parts[u] /\ TeamSteps'[u] = TeamSteps[u]
  BY <1>1 DEF Parts, TeamSteps
<1>4. ASSUME NEW m \in Threads, IsMaster(m)
      PROVE  TeamRound(m)'
  <2>1. CASE m = Master(t)
    BY <1>1, <2>1 DEF TeamRound
  <2>2. CASE m # Master(t)
    <3>1. /\ Teammates(policy, m) \subseteq Threads /\ m \in Teammates(policy, m)
          /\ t \notin Teammates(policy, m)
      BY <1>1, <1>4, <2>2, TeamMembers DEF Teammates, IsMaster, Master
    <3>2. TeamRound(m)
      BY <1>4 DEF TeamRounds
    <3>3. Round(Teammates(policy, m), m, Parts', TeamSteps', barrier[m])
      BY <1>3, <3>1, <3>2, RoundUnchanged DEF TeamRound
    <3> QED
      BY <1>1, <2>2, <3>3 DEF TeamRound
  <2> QED
    BY <2>1, <2>2
<1>5. \A m \in Threads : IsMaster(m)' => IsMaster(m)
  BY <1>1 DEF IsMaster, Master
<1> QED
  BY <1>2, <1>4, <1>5 DEF TeamRounds

\* What a member of a team knows when it is at a label of its team.
LEMMA TeamMember ==
  ASSUME PoolInv, Whereabouts, TeamRounds, NEW t \in Threads, policy.team > 1,
         InTeam(at[t])
  PROVE  /\ Organized /\ Active(policy, t)
         /\ Master(t) \in Threads /\ IsMaster(Master(t))
         /\ t \in Teammates(policy, Master(t))
         /\ Teammates(policy, Master(t)) \subseteq Threads
         /\ Sound(Teammates(policy, Master(t)), Master(t), Parts, TeamSteps,
                  barrier[Master(t)])
         /\ Cardinality(Teammates(policy, Master(t))) = policy.team
         /\ Parts[t] = TeamPart(at[t]) /\ TeamSteps[t] = step[t].team
<1>1. policy \in Policies
  BY DEF PoolInv, PoolTyping
<1>2. Active(policy, t)
  BY DEF Whereabouts, Placed
<1>3. Organized
  <2> SUFFICES ASSUME NEW u \in Threads, at[u].label = "organize"
               PROVE  FALSE
    BY DEF Organized
  <2>1. \/ at[t].label = "organize" /\ at[t].scope = "none"
        \/ InPool(at[t]) /\ at[t].back = "partition"
    BY WhileOrganizing
  <2>2. CASE at[t].label = "organize" /\ at[t].scope = "none"
    BY <2>2 DEF InTeam
  <2>3. CASE InPool(at[t])
    BY <2>3, PoolMember DEF InTeam, PoolLocations
  <2> QED
    BY <2>1, <2>2, <2>3
<1>4. Master(t) \in Threads /\ IsMaster(Master(t))
  BY <1>1, <1>2, ThreadNumbers, BaseIsBase DEF Master, IsMaster
<1>5. t \in Teammates(policy, Master(t))
  BY <1>1, <1>2, BaseIsBase DEF Teammates, Master
<1> QED
  BY <1>2, <1>3, <1>4, <1>5, TeamSound DEF Teammates, Parts, TeamSteps

LEMMA TeamBarrierStep ==
  ASSUME PoolInv, Whereabouts, TeamRounds, NEW t \in Threads, Barrier(t),
         at[t].scope = "team"
  PROVE  TeamRounds'
<1> DEFINE m == Master(t)
           S == Teammates(policy, m)
           b == barrier[m]
<1>1. /\ at \in [Threads -> Locations] /\ policy \in Policies
      /\ step \in [Threads -> [pool : Nat, team : Nat]]
      /\ barrier \in [Places -> [arrive : Int, master : Int, wait : Int]]
      /\ at[t] \in TeamLocations /\ InTeam(at[t]) /\ policy.team > 1
  <2>1. at[t] \in TeamLocations
    BY LocationKinds DEF PoolInv, PoolTyping
  <2> QED
    BY <2>1 DEF PoolInv, PoolTyping, InTeam, Whereabouts, Placed, OfTeams
<1>2. /\ Organized /\ Active(policy, t) /\ m \in Threads /\ IsMaster(m)
      /\ t \in S /\ S \subseteq Threads
      /\ Sound(S, m, Parts, TeamSteps, b) /\ Cardinality(S) = policy.team
      /\ Parts[t] = TeamPart(at[t]) /\ TeamSteps[t] = step[t].team
  BY <1>1, TeamMember
<1>3. /\ Place(t) = m /\ m \in Places /\ Size(at[t].scope) = policy.team
      /\ RendezvousRank(t) = 0 <=> t = m
  <2>1. t \in Nat /\ m \in Nat
    BY <1>2, PoolOfThreads
  <2> QED
    BY <1>2, <2>1 DEF Place, Master, Places, Size, RendezvousRank
<1>4. /\ Moves(t) /\ policy' = policy
      /\ \A u \in Threads : u # t => at'[u] = at[u]
  BY <1>1, BarrierPlaced DEF Moves
<1> HIDE DEF m, S, b
<1>5. \A u \in S : u # t => Parts'[u] = Parts[u]
  BY <1>2, <1>4 DEF Parts
<1>6. Parts'[t] = TeamPart(at'[t])
  BY DEF Parts
<1>7. ASSUME Round(S, m, Parts', TeamSteps', barrier'[m]),
             at'[t].label # "organize",
             \A u \in Threads : u # t => step'[u].team = step[u].team,
             \A u \in Threads : u # m => barrier'[u] = barrier[u]
      PROVE  TeamRounds'
  BY <1>1, <1>2, <1>4, <1>7, RoundsTouched DEF m, S
<1>8. ASSUME UNCHANGED step
      PROVE  /\ TeamSteps' = TeamSteps
             /\ \A u \in Threads : u # t => step'[u].team = step[u].team
             /\ Others(S, t, Parts, TeamSteps, Parts', TeamSteps)
  BY <1>5, <1>8 DEF TeamSteps, Others
<1>9. ASSUME NEW new, barrier' = [barrier EXCEPT ![m] = new]
      PROVE  /\ barrier'[m] = new
             /\ \A u \in Threads : u # m => barrier'[u] = barrier[u]
  BY <1>1, <1>3, <1>9 DEF Places
<1>10. CASE Arrive(t)
  <2>1. /\ at[t].label = "arrive"
        /\ step' = [step EXCEPT ![t].team = @ + 1]
        /\ barrier' = [barrier EXCEPT ![m] = [b EXCEPT !.arrive = @ + 1]]
        /\ at' = [at EXCEPT ![t] = [at[t] EXCEPT !.label =
                    IF b.arrive = policy.team - 1 THEN "signal" ELSE "wait"]]
    BY <1>1, <1>3, <1>10 DEF Arrive, Goto, b
  <2>2. /\ step'[t].team = step[t].team + 1
        /\ \A u \in Threads : u # t => step'[u].team = step[u].team
    BY <1>1, <2>1
  <2>3. /\ at'[t].label = IF b.arrive = policy.team - 1 THEN "signal" ELSE "wait"
        /\ at'[t].scope = "team"
    BY <1>1, <2>1 DEF TeamLocations
  <2>4. /\ Parts[t] = "out"
        /\ Parts'[t] = IF b.arrive = Cardinality(S) - 1 THEN "signal" ELSE "wait"
    BY <1>2, <1>6, <2>1, <2>3 DEF TeamPart
  <2>5. /\ TeamSteps'[t] = TeamSteps[t] + 1
        /\ Others(S, t, Parts, TeamSteps, Parts', TeamSteps')
    BY <1>2, <1>5, <2>2 DEF TeamSteps, Others
  <2>6. Round(S, m, Parts', TeamSteps', [b EXCEPT !.arrive = @ + 1])
    BY <1>2, <2>4, <2>5, RoundArrive
  <2>7. /\ barrier'[m] = [b EXCEPT !.arrive = @ + 1]
        /\ \A u \in Threads : u # m => barrier'[u] = barrier[u]
    BY <1>9, <2>1
  <2>8. at'[t].label # "organize"
    BY <2>3
  <2> QED
    BY <1>7, <2>2, <2>6, <2>7, <2>8
<1>11. CASE Signal(t)
  <2>1. /\ at[t].label = "signal" /\ UNCHANGED step
        /\ barrier' = [barrier EXCEPT ![m] = [b EXCEPT !.master = @ + 1]]
        /\ at' = [at EXCEPT ![t] = [at[t] EXCEPT !.label = "wait"]]
    BY <1>1, <1>3, <1>11 DEF Signal, Goto, b
  <2>2. at'[t].label = "wait" /\ at'[t].scope = "team"
    BY <1>1, <2>1 DEF TeamLocations
  <2>3. Parts[t] = "signal" /\ Parts'[t] = "wait"
    BY <1>2, <1>6, <2>1, <2>2 DEF TeamPart
  <2>4. Round(S, m, Parts', TeamSteps, [b EXCEPT !.master = @ + 1])
    BY <1>2, <1>8, <2>1, <2>3, RoundSignal
  <2> QED
    BY <1>7, <1>8, <1>9, <2>1, <2>2, <2>4
<1>12. CASE MasterWait(t)
  <2>1. /\ at[t].label = "wait" /\ UNCHANGED <<step, barrier>> /\ t = m
        /\ b.master = step[t].team
        /\ at' = [at EXCEPT ![t] = IF at[t].back = "take"
                    THEN At("try_own") ELSE [at[t] EXCEPT !.label = "clear"]]
    BY <1>1, <1>3, <1>12 DEF MasterWait, Goto, b
  <2>2. /\ \/ at'[t].label = "try_own"
           \/ at'[t].label = "clear" /\ at'[t].scope = "team"
        /\ at'[t].label \notin {"organize", "signal", "wait", "release"}
    BY <1>1, <2>1 DEF TeamLocations, At
  <2>3. Parts[m] = "wait" /\ Parts'[m] = "held"
    BY <1>2, <1>6, <2>1, <2>2 DEF TeamPart
  <2>4. Round(S, m, Parts', TeamSteps, b)
    BY <1>2, <1>8, <2>1, <2>3, RoundHeld
  <2> QED
    BY <1>7, <1>8, <2>1, <2>2, <2>4 DEF b
<1>13. CASE Wait(t)
  <2>1. /\ at[t].label = "wait" /\ UNCHANGED <<step, barrier>> /\ t # m
        /\ b.wait = step[t].team /\ at[t].back \in {"take", "item"}
        /\ at' = [at EXCEPT ![t] =
                    At(IF at[t].back = "take" THEN "read_index" ELSE at[t].back)]
    BY <1>1, <1>3, <1>13 DEF Wait, Goto, b, TeamLocations
  <2>2. at'[t].label \in {"read_index", "item"} /\ at'[t].scope = "none"
    BY <1>1, <2>1 DEF At
  <2>3. Parts[t] = "wait" /\ Parts'[t] = "out"
    BY <1>1, <1>2, <1>6, <2>1, <2>2 DEF TeamPart
  <2>4. Round(S, m, Parts', TeamSteps, b)
    BY <1>2, <1>8, <2>1, <2>3, RoundWait
  <2> QED
    BY <1>7, <1>8, <2>1, <2>2, <2>4 DEF b
<1>14. CASE Clear(t)
  <2>1. /\ at[t].label = "clear" /\ UNCHANGED step
        /\ barrier' = [barrier EXCEPT ![m] = [b EXCEPT !.arrive = @ - policy.team]]
        /\ at' = [at EXCEPT ![t] = [at[t] EXCEPT !.label = "release"]]
    BY <1>1, <1>3, <1>14 DEF Clear, Goto, b
  <2>2. at'[t].label = "release" /\ at'[t].scope = "team"
    BY <1>1, <2>1 DEF TeamLocations
  <2>3. Parts[t] = "held" /\ Parts'[t] = "release"
    BY <1>2, <1>6, <2>1, <2>2 DEF TeamPart
  <2>4. t = m
    BY <1>2, <2>3 DEF Sound, Round
  <2>5. Round(S, m, Parts', TeamSteps, [b EXCEPT !.arrive = @ - Cardinality(S)])
    BY <1>2, <1>8, <2>1, <2>3, <2>4, RoundClear
  <2> QED
    BY <1>2, <1>7, <1>8, <1>9, <2>1, <2>2, <2>5
<1>15. CASE Release(t)
  <2>1. /\ at[t].label = "release" /\ UNCHANGED step
        /\ barrier' = [barrier EXCEPT ![m] = [b EXCEPT !.wait = @ + 1]]
        /\ at[t].back \in {"item", "chunk"}
        /\ at' = [at EXCEPT ![t] =
             IF at[t].back = "chunk" THEN WithChunk(w[t][1]) ELSE At(at[t].back)]
    BY <1>1, <1>3, <1>15 DEF Release, Goto, b, TeamLocations
  <2>2. /\ at'[t].label \in {"item", "joined", "arrive"}
    BY <1>1, <2>1 DEF At, WithChunk, Take, Rendezvous, Size
  <2>3. Parts[t] = "release" /\ Parts'[t] = "out"
    BY <1>1, <1>2, <1>6, <2>1, <2>2 DEF TeamPart
  <2>4. t = m
    BY <1>2, <2>3 DEF Sound, Round
  <2>5. Round(S, m, Parts', TeamSteps, [b EXCEPT !.wait = @ + 1])
    BY <1>2, <1>8, <2>1, <2>3, <2>4, RoundRelease
  <2> QED
    BY <1>7, <1>8, <1>9, <2>1, <2>2, <2>5
<1> QED
  BY <1>10, <1>11, <1>12, <1>13, <1>14, <1>15 DEF Barrier

LEMMA PoolBarrierStep ==
  ASSUME PoolInv, Whereabouts, TeamRounds, NEW t \in Threads, Barrier(t),
         InPool(at[t])
  PROVE  TeamRounds'
<1>1. /\ at \in [Threads -> Locations] /\ at[t] \in PoolLocations
      /\ step \in [Threads -> [pool : Nat, team : Nat]]
      /\ barrier \in [Places -> [arrive : Int, master : Int, wait : Int]]
      /\ Place(t) = PoolPlace /\ at[t].scope = "pool"
  BY PoolMember DEF PoolInv, PoolTyping
<1>2. Moves(t)
  BY BarrierPlaced
<1>3. \A u \in Threads : barrier'[u] = barrier[u]
  <2>1. \/ barrier' = barrier
        \/ \E new : barrier' = [barrier EXCEPT ![PoolPlace] = new]
    BY <1>1 DEF Barrier, Arrive, Signal, MasterWait, Wait, Clear, Release
  <2>2. \A u \in Threads : u # PoolPlace /\ u \in Places
    BY PoolOfThreads DEF Places
  <2> QED
    BY <1>1, <2>1, <2>2
<1>4. \A u \in Threads : step'[u].team = step[u].team
  <2>1. step' = step \/ step' = [step EXCEPT ![t].pool = @ + 1]
    BY <1>1 DEF Barrier, Arrive, Signal, MasterWait, Wait, Clear, Release
  <2> QED
    BY <1>1, <2>1
<1>5. /\ at[t].label # "organize" /\ at'[t].label # "organize"
      /\ TeamPart(at[t]) = "out" /\ TeamPart(at'[t]) = "out"
  <2>1. \/ /\ at'[t].scope = "pool"
           /\ at'[t].label \in {"signal", "wait", "clear", "release"}
        \/ at'[t] = At(at[t].back)
    BY <1>1
    DEF Barrier, Arrive, Signal, MasterWait, Wait, Clear, Release, Goto,
        PoolLocations
  <2> QED
    BY <1>1, <2>1 DEF TeamPart, PoolLocations, At
<1> QED
  BY <1>2, <1>3, <1>4, <1>5, RoundsUntouched

LEMMA WorkRounds ==
  ASSUME PoolInv, Whereabouts, TeamRounds, NEW t \in Threads,
         \/ SetWorkPartition(t) \/ StartStealing(t) \/ OwnBlock(t) \/ RunItem(t)
         \/ TryOwn(t) \/ TakeOwn(t) \/ StealFromOther(t)
         \/ ShareIndex(t) \/ ReadIndex(t)
  PROVE  TeamRounds'
<1>1. /\ at \in [Threads -> Locations]
      /\ at[t] \in PlainLocations
      /\ at[t].label \in {"partition", "partitioned", "own_block", "item",
                          "try_own", "own", "steal", "share", "read_index"}
  BY DEF PoolInv, PoolTyping, Locations, PoolLocations, TeamLocations,
         SetWorkPartition, StartStealing, OwnBlock, RunItem, TryOwn, TakeOwn,
         StealFromOther, ShareIndex, ReadIndex
<1>2. Moves(t)
  BY WorkPlaced, StealingPlaced
<1>3. UNCHANGED <<step, barrier>>
  BY DEF SetWorkPartition, StartStealing, OwnBlock, RunItem, TryOwn, TakeOwn,
         StealFromOther, ShareIndex, ReadIndex
<1>4. /\ at[t].scope = "none" /\ at[t].label # "organize"
      /\ TeamPart(at[t]) = IF at[t].label \in {"try_own", "own", "steal", "share"}
                             THEN "held" ELSE "out"
  BY <1>1 DEF PlainLocations, At, TeamPart
<1>5. /\ TeamPart(At("joined")) = "out" /\ At("joined").label # "organize"
      /\ TeamPart(At("item")) = "out" /\ At("item").label # "organize"
      /\ TeamPart(At("own_block")) = "out" /\ At("own_block").label # "organize"
      /\ TeamPart(At("own")) = "held" /\ At("own").label # "organize"
      /\ TeamPart(At("steal")) = "held" /\ At("steal").label # "organize"
      /\ TeamPart(At("share")) = "held" /\ At("share").label # "organize"
      /\ policy.team > 1 => TeamPart(Take) = "out" /\ TeamPart(BetweenItems) = "out"
      /\ Take.label # "organize" /\ BetweenItems.label # "organize"
  BY DEF TeamPart, At, Take, BetweenItems, Rendezvous, Size
<1>6. \A i : /\ policy.team > 1 => TeamPart(WithChunk(i)) = "out"
             /\ WithChunk(i).label # "organize"
  BY <1>5 DEF WithChunk
<1>7. ASSUME NEW loc, Goto(t, loc)
      PROVE  at'[t] = loc
  BY <1>1, <1>7 DEF Goto
<1>8. /\ at'[t].label # "organize"
      /\ policy.team > 1 => TeamPart(at'[t]) = TeamPart(at[t])
  <2>1. CASE SetWorkPartition(t)
    <3>1. at'[t] = AfterPartition(t) /\ at[t].label = "partition"
      BY <1>7, <2>1 DEF SetWorkPartition
    <3>2. TeamPart(AfterPartition(t)) = "out" /\ AfterPartition(t).label # "organize"
      BY <1>5 DEF AfterPartition, Rendezvous, TeamPart, At
    <3> QED
      BY <1>4, <3>1, <3>2
  <2>2. CASE StartStealing(t)
    <3>1. at'[t] \in {Take, At("joined")} /\ at[t].label = "partitioned"
      BY <1>7, <2>2 DEF StartStealing
    <3> QED
      BY <1>4, <1>5, <3>1
  <2>3. CASE OwnBlock(t)
    <3>1. at'[t] \in {At("item"), At("joined")} /\ at[t].label = "own_block"
      BY <1>7, <2>3 DEF OwnBlock
    <3> QED
      BY <1>4, <1>5, <3>1
  <2>4. CASE RunItem(t)
    <3>1. at'[t] \in {BetweenItems, Take, At("joined")} /\ at[t].label = "item"
      BY <1>7, <2>4 DEF RunItem
    <3> QED
      BY <1>4, <1>5, <3>1
  <2>5. CASE TryOwn(t) \/ TakeOwn(t) \/ StealFromOther(t)
    <3>1. at[t].label \in {"try_own", "own", "steal"}
      BY <2>5 DEF TryOwn, TakeOwn, StealFromOther
    <3>2. ASSUME NEW i, Got(t, i)
          PROVE  <1>8
      <4>1. CASE policy.team = 1
        BY <1>6, <1>7, <3>2, <4>1 DEF Got
      <4>2. CASE policy.team # 1
        BY <1>4, <1>5, <1>7, <3>1, <3>2, <4>2 DEF Got
      <4> QED
        BY <4>1, <4>2
    <3>3. CASE Goto(t, At("own")) \/ Goto(t, At("steal"))
      BY <1>4, <1>5, <1>7, <3>1, <3>3
    <3>4. CASE UNCHANGED at
      BY <1>4, <3>4
    <3>5. CASE TryOwn(t)
      BY <3>2, <3>3, <3>5 DEF TryOwn
    <3>6. CASE TakeOwn(t)
      BY <3>2, <3>3, <3>4, <3>6 DEF TakeOwn
    <3>7. CASE StealFromOther(t)
      BY <3>2, <3>4, <3>7 DEF StealFromOther
    <3> QED
      BY <2>5, <3>5, <3>6, <3>7
  <2>6. CASE ShareIndex(t)
    <3>1. /\ at'[t] = [label |-> "clear", scope |-> "team", back |-> "chunk"]
          /\ at[t].label = "share"
      BY <1>7, <2>6 DEF ShareIndex
    <3> QED
      BY <1>4, <3>1 DEF TeamPart
  <2>7. CASE ReadIndex(t)
    <3>1. (\E i : at'[t] = WithChunk(i)) /\ at[t].label = "read_index"
      BY <1>7, <2>7 DEF ReadIndex
    <3> QED
      BY <1>4, <1>6, <3>1
  <2> QED
    BY <2>1, <2>2, <2>3, <2>4, <2>5, <2>6, <2>7
<1> QED
  BY <1>2, <1>3, <1>4, <1>8, RoundsUntouched

LEMMA OrganizeRounds ==
  ASSUME PoolInv, Whereabouts, TeamRounds, NEW t \in Threads, Organize(t)
  PROVE  TeamRounds'
<1>1. /\ at \in [Threads -> Locations] /\ policy \in Policies
      /\ step \in [Threads -> [pool : Nat, team : Nat]]
      /\ barrier \in [Places -> [arrive : Int, master : Int, wait : Int]]
      /\ policy.team > 1 /\ at[t].label = "organize"
  BY DEF PoolInv, PoolTyping, Organize, Whereabouts, Placed, OfTeams
<1>2. Moves(t)
  BY WorkPlaced
<1>3. /\ policy' = policy
      /\ \A u \in Threads : u # t => at'[u] = at[u]
  BY <1>1, <1>2 DEF Moves
<1>4. at'[t] = [label |-> "arrive", scope |-> "pool", back |-> "partition"]
  <2>1. PoolSize > 1
    BY <1>1, TeamNumbers
  <2> QED
    BY <1>1, <2>1, TeamAssumption DEF Organize, Goto, Rendezvous, Size
<1>5. /\ step'[t].team = 0
      /\ \A u \in Threads : u # t => step'[u].team = step[u].team
  BY <1>1 DEF Organize
<1>6. /\ Master(t) = t => barrier'[t] = NewBarrier
      /\ \A u \in Threads : u # t => barrier'[u] = barrier[u]
  <2>1. \A u \in Threads : u \in Places
    BY DEF Places
  <2> QED
    BY <1>1, <2>1 DEF Organize, Master
<1>7. \A u \in Threads : at'[u].label # "organize" =>
         /\ step'[u].team = 0
         /\ Master(u) = u => barrier'[u] = NewBarrier
  <2> TAKE u \in Threads
  <2>1. CASE u = t
    BY <1>5, <1>6, <2>1
  <2>2. CASE u # t
    BY <1>1, <1>3, <1>5, <1>6, <2>2 DEF TeamRounds, Organized
  <2> QED
    BY <2>1, <2>2
<1>8. CASE ~ Organized'
  BY <1>3, <1>7, <1>8 DEF TeamRounds, Master
<1>9. CASE Organized'
  <2>1. \A u \in Threads : Parts'[u] = "out" /\ TeamSteps'[u] = 0
    <3> TAKE u \in Threads
    <3>1. TeamPart(at'[u]) = "out"
      <4>1. CASE u = t
        BY <1>4, <4>1 DEF TeamPart
      <4>2. CASE u # t
        <5>1. at[u].label # "organize"
          BY <1>3, <1>9, <4>2 DEF Organized
        <5>2. InPool(at[u])
          BY <1>1, <5>1, WhileOrganizing
        <5> QED
          BY <1>3, <4>2, <5>2, PoolMember DEF TeamPart, PoolLocations
      <4> QED
        BY <4>1, <4>2
    <3> QED
      BY <1>7, <1>9, <3>1 DEF Parts, TeamSteps, Organized
  <2>2. ASSUME NEW m \in Threads, IsMaster(m)
        PROVE  TeamRound(m)'
    <3>1. Teammates(policy, m) \subseteq Threads /\ m \in Teammates(policy, m)
      BY <1>1, <2>2, TeamMembers DEF Teammates
    <3>2. barrier'[m] = NewBarrier
      BY <1>7, <1>9, <2>2 DEF Organized, IsMaster
    <3>3. Round(Teammates(policy, m), m, Parts', TeamSteps', barrier'[m])
      BY <2>1, <3>1, <3>2, RoundStarts
    <3> QED
      BY <1>3, <3>3 DEF TeamRound
  <2>3. \A m \in Threads : IsMaster(m)' => IsMaster(m)
    BY <1>3 DEF IsMaster, Master
  <2> QED
    BY <1>9, <2>2, <2>3 DEF TeamRounds
<1> QED
  BY <1>8, <1>9

LEMMA LaunchRounds ==
  ASSUME PoolInv, Launch
  PROVE  TeamRounds'
<1>1. /\ policy' = Head(todo) /\ at' = [t \in Threads |-> Begin(Head(todo))]
  BY DEF Launch
<1>2. policy'.team > 1 => \A t \in Threads : at'[t].label = "organize"
  BY <1>1 DEF Begin, At
<1>3. policy'.team > 1 => ~ Organized'
  BY <1>2, PoolOfThreads DEF Organized
<1> QED
  BY <1>2, <1>3 DEF TeamRounds

\* The pool and the teams in their rounds.
LEMMA TeamsInStepInit == Init => TeamsInStep
<1> SUFFICES ASSUME Init
             PROVE  TeamsInStep
  OBVIOUS
<1>1. PoolInv
  BY InitInv
<1>2. \A t \in Threads : at[t] = At("joined") /\ step[t].team = 0
                         /\ barrier[t] = NewBarrier
  BY DEF Init, NoSteps, Places
<1>3. Whereabouts
  BY <1>2, PlacedAt DEF Whereabouts
<1>4. Organized
  BY <1>2 DEF Organized, At
<1>5. policy \in Policies
  BY <1>1 DEF PoolInv, PoolTyping
<1>6. \A t \in Threads : Parts[t] = "out" /\ TeamSteps[t] = 0
  BY <1>2 DEF Parts, TeamSteps, TeamPart, At
<1>7. ASSUME NEW m \in Threads, IsMaster(m)
      PROVE  TeamRound(m)
  <2>1. Teammates(policy, m) \subseteq Threads /\ m \in Teammates(policy, m)
    BY <1>5, <1>7, TeamMembers DEF Teammates
  <2> QED
    BY <1>2, <1>6, <2>1, RoundStarts DEF TeamRound
<1>8. TeamRounds
  BY <1>4, <1>7 DEF TeamRounds
<1> QED
  BY <1>1, <1>3, <1>8 DEF TeamsInStep

LEMMA ThreadInStep ==
  ASSUME TeamsInStep, NEW t \in Threads, Thread(t)
  PROVE  TeamsInStep'
<1> USE DEF TeamsInStep
<1>1. PoolInv'
  BY NextInv DEF Next
<1>2. Whereabouts'
  BY ThreadPlaced
<1>3. TeamRounds'
  <2>1. CASE Barrier(t)
    <3>1. at[t] \in PoolLocations \cup TeamLocations
      BY <2>1
      DEF PoolInv, PoolTyping, Barrier, Arrive, Signal, MasterWait, Wait, Clear,
          Release, Locations, PlainLocations, PlainLabels, At
    <3>2. CASE InPool(at[t])
      BY <2>1, <3>2, PoolBarrierStep
    <3>3. CASE ~ InPool(at[t])
      <4>1. at[t].scope = "team"
        BY <3>1, <3>3 DEF InPool, PoolLocations, TeamLocations
      <4> QED
        BY <2>1, <4>1, TeamBarrierStep
    <3> QED
      BY <3>2, <3>3
  <2> QED
    BY <2>1, OrganizeRounds, WorkRounds DEF Thread
<1> QED
  BY <1>1, <1>2, <1>3

LEMMA TeamsInStepNext == TeamsInStep /\ [Next]_teamVars => TeamsInStep'
<1> SUFFICES ASSUME TeamsInStep, [Next]_teamVars
             PROVE  TeamsInStep'
  OBVIOUS
<1>1. CASE Launch
  BY <1>1, LaunchInv, LaunchPlaced, LaunchRounds DEF TeamsInStep
<1>2. CASE \E t \in Threads : Thread(t)
  BY <1>2, ThreadInStep
<1>3. CASE UNCHANGED teamVars
  <2>1. PoolInv'
    BY <1>3, NextInv DEF TeamsInStep
  <2>2. /\ policy' = policy /\ at' = at /\ step' = step /\ barrier' = barrier
    BY <1>3 DEF teamVars
  <2>3. Whereabouts'
    BY <2>2 DEF TeamsInStep, Whereabouts
  <2>4. /\ Parts' = Parts /\ TeamSteps' = TeamSteps
        /\ Organized' <=> Organized
    BY <2>2 DEF Parts, TeamSteps, Organized
  <2>5. TeamRounds'
    BY <2>2, <2>4
    DEF TeamsInStep, TeamRounds, TeamRound, IsMaster, Master
  <2> QED
    BY <2>1, <2>3, <2>5 DEF TeamsInStep
<1> QED
  BY <1>1, <1>2, <1>3 DEF Next

-----------------------------------------------------------------------------
(* The types.                                                              *)

LEMMA PolicyNumbers ==
  ASSUME NEW p \in Policies
  PROVE  /\ p.length \in Nat /\ p.chunk \in Nat \ {0} /\ p.dynamic \in BOOLEAN
         /\ Chunk(p) \in Nat \ {0}
         /\ PartSize(p.length, Chunk(p), LeagueSize(p)) \in Nat
<1>1. /\ p.length \in Nat /\ p.chunk \in Nat \ {0} /\ p.dynamic \in BOOLEAN
      /\ IntMax \in Nat \ {0}
  BY TeamAssumption
<1>2. p.length + IntMax \in Nat
  BY <1>1
<1>3. MinChunk(p) \in Nat
  BY <1>1, <1>2, DivModDef DEF MinChunk
<1>4. Chunk(p) \in Nat \ {0}
  BY <1>1, <1>3 DEF Chunk
<1>5. CeilDiv(p.length, Chunk(p)) \in Nat
  BY <1>1, <1>4, CeilDivEnough
<1>6. CeilDiv(CeilDiv(p.length, Chunk(p)), LeagueSize(p)) \in Nat
  BY <1>5, TeamNumbers, CeilDivEnough
<1> QED
  BY <1>1, <1>4, <1>6 DEF PartSize

LEMMA ActiveLeague ==
  ASSUME NEW p \in Policies, NEW t \in Threads, Active(p, t)
  PROVE  League(p, t) \in 0 .. LeagueSize(p) - 1
<1>1. /\ PoolSize \in Nat \ {0} /\ p.team \in 1 .. PoolSize
      /\ LeagueSize(p) \in Nat \ {0} /\ Alloc(p) \in Nat \ {0}
      /\ PoolSize < LeagueSize(p) * Alloc(p) + p.team
  BY TeamNumbers
<1>2. League(p, t) \in Nat /\ League(p, t) * Alloc(p) + p.team <= PoolSize
  BY ThreadNumbers DEF Active, Fits
<1> DEFINE q == League(p, t)
           l == LeagueSize(p)
           a == Alloc(p)
<1>3. q \in Nat /\ l \in Nat /\ a \in Nat /\ q * a \in Nat /\ l * a \in Nat
  BY <1>1, <1>2
<1> HIDE DEF q, l, a
<1>4. q < l
  <2> SUFFICES ASSUME l <= q
               PROVE  FALSE
    BY <1>3
  <2>1. l * a <= q * a
    BY <1>3, MultMono
  <2> QED
    BY <1>1, <1>2, <1>3, <2>1 DEF q, l, a
<1> QED
  BY <1>3, <1>4 DEF q, l

\* The master of every league.
LEMMA LeagueBase ==
  ASSUME NEW p \in Policies, NEW l \in 0 .. LeagueSize(p) - 1
  PROVE  /\ l * Alloc(p) \in Threads
         /\ Active(p, l * Alloc(p))
         /\ Base(p, l * Alloc(p)) = l * Alloc(p)
         /\ League(p, l * Alloc(p)) = l
<1> DEFINE a == Alloc(p)
           n == LeagueSize(p)
<1>1. /\ PoolSize \in Nat \ {0} /\ p.team \in 1 .. PoolSize
      /\ n \in Nat \ {0} /\ a \in Nat \ {0}
      /\ p.team <= a /\ n * a <= PoolSize
  BY TeamNumbers
<1> HIDE DEF a, n
<1>2. l \in Nat /\ l + 1 <= n
  BY <1>1 DEF n
<1>3. (l + 1) * a <= n * a
  BY <1>1, <1>2, MultMono
<1>4. (l + 1) * a = l * a + a /\ l * a \in Nat /\ n * a \in Nat
  BY <1>1, <1>2
<1>5. l * a + p.team <= PoolSize /\ l * a \in Threads
  BY <1>1, <1>3, <1>4 DEF Threads
<1>6. 0 \in 0 .. Alloc(p) - 1 /\ l * a = l * Alloc(p) + 0
  BY <1>1, <1>4 DEF a
<1>7. /\ League(p, l * a) = l
      /\ Base(p, l * a) = l * Alloc(p)
      /\ (l * a) % Alloc(p) = 0
  BY <1>2, <1>5, <1>6, BaseOf
<1>8. Active(p, l * a) /\ Base(p, l * a) = l * a
  BY <1>1, <1>5, <1>7 DEF Active, Fits, a
<1> QED
  BY <1>5, <1>7, <1>8 DEF a

LEMMA LeagueMaster ==
  ASSUME policy \in Policies, NEW l \in 0 .. LeagueSize(policy) - 1
  PROVE  /\ l * Alloc(policy) \in Threads
         /\ IsMaster(l * Alloc(policy))
         /\ League(policy, l * Alloc(policy)) = l
  BY LeagueBase DEF IsMaster, Master

LEMMA StealAfterThread ==
  ASSUME NEW p \in Policies, NEW b \in Threads
  PROVE  StealAfter(p, b) \in Threads
<1>1. /\ PoolSize \in Nat \ {0} /\ p.team \in 1 .. PoolSize
      /\ Alloc(p) \in Nat \ {0}
  BY TeamNumbers
<1> QED
  BY <1>1 DEF StealAfter, Fits, Threads

LEMMA PairFields ==
  ASSUME NEW pair \in Pairs
  PROVE  /\ pair[1] \in Int /\ pair[2] \in Int
         /\ pair = <<pair[1], pair[2]>>
         /\ \A x \in Int : [pair EXCEPT ![1] = x] = <<x, pair[2]>>
  BY DEF Pairs

LEMMA PairIn ==
  ASSUME NEW a \in Int, NEW b \in Int
  PROVE  <<a, b>> \in Pairs
  BY DEF Pairs

LEMMA NothingPair ==
  Nothing \in Pairs /\ Nothing[1] = -1 /\ Nothing[2] = -1 /\ <<0, 0>> \in Pairs
  BY DEF Nothing, Pairs

LEMMA ChunkRangePair ==
  ASSUME policy \in Policies, NEW i \in Int
  PROVE  ChunkRange(i) \in Pairs
<1>1. Chunk(policy) * i \in Int /\ Chunk(policy) * i + Chunk(policy) \in Int
  BY PolicyNumbers
<1> DEFINE first == Chunk(policy) * i
           end == IF first + Chunk(policy) < policy.length
                    THEN first + Chunk(policy) ELSE policy.length
<1>2. first \in Int /\ end \in Int
  BY <1>1, PolicyNumbers
<1>3. ChunkRange(i) = <<first, end>>
  BY DEF ChunkRange
<1> HIDE DEF first, end
<1> QED
  BY <1>2, <1>3, PairIn

LEMMA BlockNumbers ==
  ASSUME policy \in Policies, NEW t \in Threads, Active(policy, t)
  PROVE  /\ Block(t) \in Pairs /\ Block(t)[1] \in Nat /\ Block(t)[2] \in Nat
         /\ Block(t)[2] <= policy.length
<1> DEFINE n == policy.length
           c == Chunk(policy)
           l == LeagueSize(policy)
           q == League(policy, t)
<1>1. n \in Nat /\ c \in Nat \ {0} /\ l \in Nat \ {0} /\ q \in 0 .. l - 1
  BY PolicyNumbers, TeamNumbers, ActiveLeague
<1>2. Block(t) = <<PartFirst(n, c, l, q), PartEnd(n, c, l, q)>>
  BY DEF Block
<1> HIDE DEF n, c, l, q
<1>3. /\ PartFirst(n, c, l, q) \in Nat
      /\ PartEnd(n, c, l, q) \in Nat
      /\ PartEnd(n, c, l, q) <= n
  BY <1>1, PartTypes
<1> QED
  BY <1>2, <1>3, PairIn DEF n

LEMMA FirstChunkNumber ==
  ASSUME NEW p \in Policies, NEW l \in Nat
  PROVE  FirstChunk(p, l) \in Nat
<1>1. PartSize(p.length, Chunk(p), LeagueSize(p)) \in Nat
  BY PolicyNumbers
<1> QED
  BY <1>1 DEF FirstChunk

LEMMA CompareExchangeTypes ==
  ASSUME work \in [Threads -> Pairs], NEW v, NEW old, NEW new \in Pairs
  PROVE  CompareExchange(v, old, new) \in [Threads -> Pairs]
<1>1. CASE v \in Threads
  BY <1>1 DEF CompareExchange
<1>2. CASE v \notin Threads
  BY <1>2 DEF CompareExchange
<1> QED
  BY <1>1, <1>2

\* The type invariant but for the barriers.
LEMMA GotTypes ==
  ASSUME policy \in Policies, range \in [Threads -> Pairs], NEW t \in Threads,
         NEW i \in Int, Got(t, i)
  PROVE  range' \in [Threads -> Pairs]
  BY ChunkRangePair DEF Got

LEMMA StealingTypes ==
  ASSUME TeamsInStep, DataTypes, NEW t \in Threads,
         \/ TryOwn(t) \/ TakeOwn(t) \/ StealFromOther(t)
         \/ ShareIndex(t) \/ ReadIndex(t)
  PROVE  DataTypes'
<1>1. policy \in Policies
  BY DEF TeamsInStep, PoolInv, PoolTyping
<1>2. /\ \A u \in Threads : work[u] \in Pairs /\ w[u] \in Pairs
      /\ \A u \in Threads : work[u][1] \in Int /\ work[u][2] \in Int
                            /\ w[u][1] \in Int /\ w[u][2] \in Int
      /\ steal[t] \in Threads
  BY PairFields DEF DataTypes
<1>3. Nothing \in Pairs /\ -1 \in Int
  BY NothingPair
<1>4. CASE TryOwn(t)
  <2>1. range' \in [Threads -> Pairs]
    BY <1>1, <1>3, <1>4, GotTypes DEF TryOwn, DataTypes
  <2>2. w' \in [Threads -> Pairs]
    BY <1>3, <1>4 DEF TryOwn, DataTypes
  <2> QED
    BY <1>4, <2>1, <2>2 DEF TryOwn, DataTypes
<1>5. CASE TakeOwn(t)
  <2>1. range' \in [Threads -> Pairs]
    BY <1>1, <1>2, <1>3, <1>5, GotTypes DEF TakeOwn, DataTypes
  <2>2. w' \in [Threads -> Pairs]
    BY <1>2, <1>3, <1>5 DEF TakeOwn, DataTypes
  <2>3. <<w[t][1] + 1, w[t][2]>> \in Pairs
    BY <1>2, PairIn
  <2>4. work' \in [Threads -> Pairs]
    BY <1>5, <2>3, CompareExchangeTypes DEF TakeOwn, DataTypes
  <2> QED
    BY <1>5, <2>1, <2>2, <2>4 DEF TakeOwn, DataTypes
<1>6. CASE StealFromOther(t)
  <2>1. work[steal[t]][2] - 1 \in Int /\ work[steal[t]] \in Pairs
    BY <1>2
  <2>2. range' \in [Threads -> Pairs]
    BY <1>1, <1>3, <1>6, <2>1, GotTypes DEF StealFromOther, DataTypes
  <2>3. w' \in [Threads -> Pairs]
    <3>1. [w[t] EXCEPT ![1] = work[steal[t]][2] - 1] \in Pairs
      BY <1>2, <2>1, PairFields, PairIn
    <3>2. \/ w' = [w EXCEPT ![t] = [w[t] EXCEPT ![1] = work[steal[t]][2] - 1]]
          \/ w' = [w EXCEPT ![t] = work[steal[t]]]
          \/ w' = [w EXCEPT ![t] = Nothing]
      BY <1>6 DEF StealFromOther
    <3> QED
      BY <1>2, <1>3, <2>1, <3>1, <3>2 DEF DataTypes
  <2>4. <<w[t][1], w[t][2] - 1>> \in Pairs
    BY <1>2, PairIn
  <2>5. work' \in [Threads -> Pairs]
    BY <1>6, <2>4, CompareExchangeTypes DEF StealFromOther, DataTypes
  <2>6. steal' \in [Threads -> Threads]
    <3>1. StealAfter(policy, steal[t]) \in Threads
      BY <1>1, <1>2, StealAfterThread
    <3> QED
      BY <1>6, <3>1 DEF StealFromOther, DataTypes
  <2> QED
    BY <1>6, <2>2, <2>3, <2>5, <2>6 DEF StealFromOther, DataTypes
<1>7. CASE ShareIndex(t)
  <2>1. teamIndex' \in [Threads -> Int]
    BY <1>2, <1>7 DEF ShareIndex, DataTypes
  <2> QED
    BY <1>7, <2>1 DEF ShareIndex, DataTypes
<1>8. CASE ReadIndex(t)
  <2>1. teamIndex[Base(policy, t)] \in Int
    BY <1>1, ThreadNumbers DEF DataTypes
  <2>2. range' \in [Threads -> Pairs]
    BY <1>1, <1>8, <2>1, ChunkRangePair DEF ReadIndex, DataTypes
  <2> QED
    BY <1>8, <2>2 DEF ReadIndex, DataTypes
<1> QED
  BY <1>4, <1>5, <1>6, <1>7, <1>8

LEMMA WorkTypes ==
  ASSUME TeamsInStep, DataTypes, NEW t \in Threads,
         \/ Organize(t) \/ SetWorkPartition(t) \/ StartStealing(t)
         \/ OwnBlock(t) \/ RunItem(t) \/ Barrier(t)
  PROVE  DataTypes'
<1>1. policy \in Policies
  BY DEF TeamsInStep, PoolInv, PoolTyping
<1>2. CASE Organize(t) \/ StartStealing(t)
  BY <1>2 DEF Organize, StartStealing, DataTypes
<1>3. CASE SetWorkPartition(t)
  <2>1. StealAfter(policy, Base(policy, t)) \in Threads
    BY <1>1, ThreadNumbers, StealAfterThread
  <2> DEFINE l == League(policy, t)
  <2>2. l \in Nat /\ l + 1 \in Nat
    BY <1>1, ThreadNumbers
  <2>3. <<FirstChunk(policy, l), FirstChunk(policy, l + 1)>> \in Pairs
    BY <1>1, <2>2, FirstChunkNumber, PairIn
  <2>4. work' \in [Threads -> Pairs] /\ steal' \in [Threads -> Threads]
    BY <1>3, <2>1, <2>3 DEF SetWorkPartition, DataTypes
  <2> QED
    BY <1>3, <2>4 DEF SetWorkPartition, DataTypes
<1>4. CASE OwnBlock(t)
  <2>1. Active(policy, t)
    BY <1>4 DEF TeamsInStep, Whereabouts, Placed, InTeam, OwnBlock
  <2>2. Block(t) \in Pairs
    BY <1>1, <2>1, BlockNumbers
  <2>3. range' = [range EXCEPT ![t] = Block(t)]
    BY <1>4 DEF OwnBlock, Block
  <2>4. range' \in [Threads -> Pairs]
    BY <2>2, <2>3 DEF DataTypes
  <2> QED
    BY <1>4, <2>4 DEF OwnBlock, DataTypes
<1>5. CASE RunItem(t)
  <2> DEFINE r == range[t][1]
  <2>1. r \in Int /\ range[t] \in Pairs
    BY PairFields DEF DataTypes
  <2>2. executed' \in [Iterations -> [Threads -> Nat]]
    <3>1. executed' = [executed EXCEPT ![r][t] = @ + 1]
      BY <1>5 DEF RunItem
    <3> HIDE DEF r
    <3>2. CASE r \in Iterations
      BY <3>1, <3>2 DEF DataTypes
    <3>3. CASE r \notin Iterations
      BY <3>1, <3>3 DEF DataTypes
    <3> QED
      BY <3>2, <3>3
  <2>3. range' \in [Threads -> Pairs]
    <3>1. [range[t] EXCEPT ![1] = r + 1] \in Pairs
      BY <2>1, PairFields, PairIn
    <3>2. range' = range \/ range' = [range EXCEPT ![t] = [range[t] EXCEPT ![1] = r + 1]]
      BY <1>5 DEF RunItem
    <3> QED
      BY <3>1, <3>2 DEF DataTypes
  <2> QED
    BY <1>5, <2>2, <2>3 DEF RunItem, DataTypes
<1>6. CASE Barrier(t)
  <2>1. w[t][1] \in Int
    BY PairFields DEF DataTypes
  <2>2. range' \in [Threads -> Pairs]
    <3>1. range' = range \/ range' = [range EXCEPT ![t] = ChunkRange(w[t][1])]
      BY <1>6 DEF Barrier, Arrive, Signal, MasterWait, Wait, Clear, Release
    <3> QED
      BY <1>1, <2>1, <3>1, ChunkRangePair DEF DataTypes
  <2>3. UNCHANGED <<steal, work, w, teamIndex, executed>>
    BY <1>6 DEF Barrier, Arrive, Signal, MasterWait, Wait, Clear, Release
  <2> QED
    BY <2>2, <2>3 DEF DataTypes
<1> QED
  BY <1>2, <1>3, <1>4, <1>5, <1>6

LEMMA DataTypesNext ==
  TeamsInStep /\ DataTypes /\ [Next]_teamVars => DataTypes'
<1> SUFFICES ASSUME TeamsInStep, DataTypes, [Next]_teamVars
             PROVE  DataTypes'
  OBVIOUS
<1>1. CASE Launch
  BY <1>1, NothingPair DEF Launch, Resized, DataTypes
<1>2. CASE \E t \in Threads : Thread(t)
  BY <1>2, StealingTypes, WorkTypes DEF Thread
<1>3. CASE UNCHANGED teamVars
  BY <1>3 DEF teamVars, DataTypes
<1> QED
  BY <1>1, <1>2, <1>3 DEF Next

\* No counter of a barrier is ever negative.
LEMMA CountersNext ==
  ASSUME TeamsInStep, barrier \in [Places -> Counters], [Next]_teamVars
  PROVE  barrier' \in [Places -> Counters]
<1>1. policy \in Policies
  BY DEF TeamsInStep, PoolInv, PoolTyping
<1>2. NewBarrier \in Counters
  BY DEF NewBarrier, Counters
<1>3. CASE Launch
  BY <1>2, <1>3 DEF Launch, Resized
<1>4. ASSUME NEW t \in Threads, Barrier(t)
      PROVE  barrier' \in [Places -> Counters]
  <2>1. CASE Clear(t)
    <3>1. at[t].label = "clear" /\ at[t].scope \in {"pool", "team"}
      BY <2>1
      DEF Clear, TeamsInStep, PoolInv, PoolTyping, Locations, PlainLocations,
          PlainLabels, PoolLocations, TeamLocations, At
    <3>2. /\ Place(t) \in Places
          /\ barrier[Place(t)].arrive = Size(at[t].scope)
          /\ Size(at[t].scope) \in Nat
      <4>1. CASE at[t].scope = "pool"
        <5>1. t = 0 /\ Arrived = Threads /\ ~ Releasing
          BY <3>1, <4>1
          DEF TeamsInStep, PoolInv, Rounds, Counted, InPool, Releasing
        <5>2. Pool.arrive = PoolSize
          BY <5>1, PoolOfThreads DEF TeamsInStep, PoolInv, Counted
        <5> QED
          BY <4>1, <5>2, TeamAssumption, PoolOfThreads DEF Place, Size, Pool
      <4>2. CASE at[t].scope = "team"
        <5> DEFINE m == Master(t)
                   S == Teammates(policy, m)
        <5>1. policy.team > 1 /\ InTeam(at[t])
          BY <4>2 DEF TeamsInStep, Whereabouts, Placed, OfTeams, InTeam
        <5>2. /\ m \in Threads
              /\ Sound(S, m, Parts, TeamSteps, barrier[m])
              /\ Cardinality(S) = policy.team /\ t \in S
              /\ Parts[t] = "held"
          BY <3>1, <4>2, <5>1, TeamMember DEF TeamsInStep, TeamPart
        <5> HIDE DEF m, S
        <5>3. t = m /\ barrier[m].arrive = Cardinality(S)
          <6>1. t = m
            BY <5>2 DEF Sound, Round
          <6>2. barrier[m].wait # barrier[m].wait + 1
            BY <5>2 DEF Sound
          <6> QED
            BY <5>2, <6>1, <6>2 DEF Sound, Round
        <5> QED
          BY <1>1, <4>2, <5>2, <5>3, TeamNumbers DEF Place, Master, Size, Places, m
      <4> QED
        BY <3>1, <4>1, <4>2
    <3>3. barrier' = [barrier EXCEPT ![Place(t)] =
                        [barrier[Place(t)] EXCEPT !.arrive = @ - Size(at[t].scope)]]
      BY <2>1 DEF Clear
    <3>4. [barrier[Place(t)] EXCEPT !.arrive = @ - Size(at[t].scope)] \in Counters
      BY <3>2 DEF Counters
    <3> QED
      BY <3>3, <3>4
  <2>2. CASE ~ Clear(t)
    <3>1. \/ barrier' = barrier
          \/ barrier' = [barrier EXCEPT ![Place(t)].arrive = @ + 1]
          \/ barrier' = [barrier EXCEPT ![Place(t)].master = @ + 1]
          \/ barrier' = [barrier EXCEPT ![Place(t)].wait = @ + 1]
      BY <1>4, <2>2 DEF Barrier, Arrive, Signal, MasterWait, Wait, Release
    <3> QED
      BY <3>1 DEF Counters
  <2> QED
    BY <2>1, <2>2
<1>5. ASSUME NEW t \in Threads, Thread(t), ~ Barrier(t)
      PROVE  barrier' \in [Places -> Counters]
  <2>1. barrier' = barrier \/ barrier' = [barrier EXCEPT ![t] = NewBarrier]
    BY <1>5
    DEF Thread, Organize, SetWorkPartition, StartStealing, OwnBlock, TryOwn,
        TakeOwn, StealFromOther, ShareIndex, ReadIndex, RunItem
  <2> QED
    BY <1>2, <2>1
<1>6. CASE UNCHANGED teamVars
  BY <1>6 DEF teamVars
<1> QED
  BY <1>3, <1>4, <1>5, <1>6 DEF Next

-----------------------------------------------------------------------------
(* The turns of the teams.                                                 *)

\* A step that changes nothing of what u is doing in its turn.
Still(u) ==
  /\ policy' = policy
  /\ at'[u] = at[u]
  /\ range'[u] = range[u]
  /\ TeamChunk(u)' = TeamChunk(u)
  /\ at[u].scope = "team" => (Entered(u)' <=> Entered(u))

LEMMA TeamScope ==
  ASSUME PoolInv, NEW u \in Threads
  PROVE  /\ at[u] \in Locations
         /\ at[u].back \in {"item", "take", "chunk"} <=> at[u].scope = "team"
         /\ at[u].label = "wait" => at[u].scope \in {"team", "pool"}
         /\ at[u].label \in PlainLabels => at[u].scope = "none" /\ at[u].back = "none"
<1>1. at[u] \in Locations
  BY DEF PoolInv, PoolTyping
<1> QED
  BY <1>1 DEF Locations, PlainLocations, PlainLabels, PoolLocations, TeamLocations, At

LEMMA StillViews ==
  ASSUME PoolInv, NEW u \in Threads, Still(u)
  PROVE  /\ ToRead(u)' <=> ToRead(u)
         /\ Executing(u)' <=> Executing(u)
         /\ Over(u)' <=> Over(u)
         /\ Stopped(u)' <=> Stopped(u)
         /\ RoundRange(u)' = RoundRange(u)
         /\ InRange(u)' <=> InRange(u)
         /\ Ended(u)' <=> Ended(u)
         /\ Returned(u)' <=> Returned(u)
<1>1. /\ policy' = policy /\ at'[u] = at[u] /\ range'[u] = range[u]
      /\ TeamChunk(u)' = TeamChunk(u)
      /\ at[u].back \in {"item", "take", "chunk"} => (Entered(u)' <=> Entered(u))
  BY TeamScope DEF Still
<1>2. /\ ToRead(u)' <=> ToRead(u)
      /\ Executing(u)' <=> Executing(u)
  BY <1>1 DEF ToRead, Executing
<1>3. /\ Over(u)' <=> Over(u)
      /\ Stopped(u)' <=> Stopped(u)
  BY <1>1, <1>2 DEF Over, Stopped
<1>4. at[u].back = "item" => (Turned(u)' <=> Turned(u))
  BY <1>1 DEF Turned
<1>5. \A i : ChunkRange(i)' = ChunkRange(i)
  BY <1>1 DEF ChunkRange
<1>6. ChunkRange(TeamChunk(u))' = ChunkRange(TeamChunk(u)) /\ Block(u)' = Block(u)
  BY <1>1 DEF ChunkRange, Block
<1>7. RoundRange(u)' = RoundRange(u)
  BY <1>1, <1>2, <1>4, <1>6 DEF RoundRange
<1>8. Given(u)' = Given(u)
  BY <1>1, <1>6 DEF Given
<1>9. /\ InRange(u)' <=> InRange(u)
      /\ Ended(u)' <=> Ended(u)
      /\ Returned(u)' <=> Returned(u)
  BY <1>1, <1>2, <1>8 DEF InRange, Ended, AtTheEnd, Returned
<1> QED
  BY <1>2, <1>3, <1>7, <1>9

LEMMA Teams ==
  ASSUME policy \in Policies, NEW t \in Threads, NEW u \in Threads, Same(t, u)
  PROVE  /\ policy.team = 1 => t = u
         /\ Block(t) = Block(u)
         /\ TeamChunk(t) = TeamChunk(u)
         /\ t \in Teammates(policy, Master(u))
         /\ Same(u, t)
<1>1. Active(policy, t) /\ Base(policy, t) = Base(policy, u)
  BY DEF Same, Master
<1>2. League(policy, t) = League(policy, u)
  BY <1>1, LeagueIsTeam
<1>3. Base(policy, Base(policy, u)) = Base(policy, u)
  BY BaseIsBase
<1>4. policy.team = 1 => t = u
  BY <1>1, FlatTeam
<1>5. Block(t) = Block(u)
  BY <1>2 DEF Block
<1>6. TeamChunk(t) = TeamChunk(u) /\ Same(u, t)
  BY DEF Same, Master, TeamChunk
<1>7. t \in Teammates(policy, Master(u))
  BY <1>1, <1>3 DEF Teammates, Master
<1> QED
  BY <1>4, <1>5, <1>6, <1>7

\* What a step must leave or establish.
LEMMA TurnStep ==
  ASSUME TeamsInStep, DataTypes, SameRound, StopTogether, policy' = policy,
         \A u \in Threads :
           InRange(u)' /\ Ended(u)' /\ Shared(u)' /\ Returned(u)',
         policy.team > 1 =>
           \A u \in Threads : Active(policy, u) =>
             /\ Stopped(u)' <=> Stopped(u)
             /\ ~ Stopped(u) => RoundRange(u)' = RoundRange(u)
  PROVE  Turns' /\ SameRound' /\ StopTogether'
<1>1. policy \in Policies
  BY DEF TeamsInStep, PoolInv, PoolTyping
<1>2. \A t, u \in Threads : Same(t, u)' <=> Same(t, u)
  BY DEF Same, Master
<1>3. Turns'
  BY DEF Turns
<1>4. CASE policy.team = 1
  <2>1. \A t, u \in Threads : Same(t, u) => t = u
    BY <1>1, <1>4, Teams
  <2>2. SameRound' /\ (StopTogether' <=> \A t \in Threads : Same(t, t) /\ Stopped(t)' => Over(t)')
    BY <1>2, <2>1 DEF SameRound, StopTogether
  <2> QED
    BY <1>3, <2>2 DEF Stopped
<1>5. CASE policy.team > 1
  <2>1. SameRound'
    <3> SUFFICES ASSUME NEW t \in Threads, NEW u \in Threads, Same(t, u),
                        ~ Stopped(t)', ~ Stopped(u)'
                 PROVE  RoundRange(t)' = RoundRange(u)'
      BY <1>2 DEF SameRound
    <3>1. Active(policy, t) /\ Active(policy, u)
      BY DEF Same
    <3> QED
      BY <1>5, <3>1 DEF SameRound
  <2>2. StopTogether'
    <3> SUFFICES ASSUME NEW t \in Threads, NEW u \in Threads, Same(t, u),
                        Stopped(t)'
                 PROVE  Over(u)'
      BY <1>2 DEF StopTogether
    <3>1. Active(policy, t) /\ Active(policy, u) /\ TeamChunk(t) = TeamChunk(u)
      BY <1>1, Teams DEF Same
    <3>2. Stopped(t) /\ Over(u)
      BY <1>5, <3>1 DEF StopTogether
    <3>3. Stopped(u)
      BY <3>1, <3>2 DEF Stopped
    <3>4. Stopped(u)'
      BY <1>5, <3>1, <3>3
    <3> QED
      BY <3>4 DEF Stopped
  <2> QED
    BY <1>3, <2>1, <2>2
<1> QED
  BY <1>1, <1>4, <1>5, TeamNumbers

\* A step of t that leaves the others still.
LEMMA TurnOfOne ==
  ASSUME TurnInv, NEW t \in Threads, policy' = policy,
         \A u \in Threads : u # t => Still(u) /\ Shared(u)',
         InRange(t)', Ended(t)', Shared(t)', Returned(t)',
         policy.team > 1 /\ Active(policy, t) =>
           /\ Stopped(t)' <=> Stopped(t)
           /\ ~ Stopped(t) => RoundRange(t)' = RoundRange(t)
  PROVE  Turns' /\ SameRound' /\ StopTogether'
<1>1. PoolInv /\ Turns /\ TeamsInStep /\ DataTypes /\ SameRound /\ StopTogether
  BY DEF TurnInv, TeamsInStep
<1>2. ASSUME NEW u \in Threads
      PROVE  /\ InRange(u)' /\ Ended(u)' /\ Shared(u)' /\ Returned(u)'
             /\ policy.team > 1 /\ Active(policy, u) =>
                  /\ Stopped(u)' <=> Stopped(u)
                  /\ ~ Stopped(u) => RoundRange(u)' = RoundRange(u)
  <2>1. CASE u = t
    BY <2>1
  <2>2. CASE u # t
    <3>1. Still(u) /\ Shared(u)'
      BY <2>2
    <3>2. InRange(u) /\ Ended(u) /\ Returned(u)
      BY <1>1 DEF Turns
    <3> QED
      BY <1>1, <3>1, <3>2, StillViews
  <2> QED
    BY <2>1, <2>2
<1> QED
  BY <1>1, <1>2, TurnStep

\* While the others stay at what they know of their index.
LEMMA SharedStays ==
  ASSUME PoolInv, Turns, NEW u \in Threads, Still(u),
         teamIndex'[Master(u)] = teamIndex[Master(u)]
  PROVE  Shared(u)'
<1>1. Shared(u)
  BY DEF Turns
<1>2. /\ policy' = policy /\ at'[u] = at[u] /\ TeamChunk(u)' = TeamChunk(u)
      /\ ToRead(u)' <=> ToRead(u)
      /\ Master(u)' = Master(u)
  BY StillViews DEF Still, Master
<1> QED
  BY <1>1, <1>2 DEF Shared

LEMMA StillOther ==
  ASSUME PoolInv, NEW t \in Threads, Moves(t), NEW u \in Threads, u # t,
         range'[u] = range[u], w' = w,
         at[u].scope = "team" =>
           /\ step'[u].team = step[u].team
           /\ barrier'[Master(u)].wait = barrier[Master(u)].wait
  PROVE  Still(u)
<1>1. policy' = policy /\ at'[u] = at[u]
  BY DEF Moves, PoolInv, PoolTyping
<1> QED
  BY <1>1 DEF Still, TeamChunk, Master, Entered

\* The steps that touch only what t itself is doing.
LEMMA OnlyOne ==
  ASSUME TurnInv, NEW t \in Threads, Moves(t),
         \A u \in Threads : u # t => range'[u] = range[u],
         w' = w, teamIndex' = teamIndex,
         \A u \in Threads : u # t /\ at[u].scope = "team" =>
           /\ step'[u].team = step[u].team
           /\ barrier'[Master(u)].wait = barrier[Master(u)].wait,
         InRange(t)', Ended(t)', Shared(t)', Returned(t)',
         policy.team > 1 /\ Active(policy, t) =>
           /\ Stopped(t)' <=> Stopped(t)
           /\ ~ Stopped(t) => RoundRange(t)' = RoundRange(t)
  PROVE  Turns' /\ SameRound' /\ StopTogether'
<1>1. PoolInv /\ Turns /\ policy' = policy
  BY DEF TurnInv, TeamsInStep, Moves
<1>2. \A u \in Threads : u # t => Still(u) /\ Shared(u)'
  BY <1>1, StillOther, SharedStays
<1> QED
  BY <1>1, <1>2, TurnOfOne

\* A step that changes nothing of what the account says of u.
Kept(u) ==
  /\ HasTurn(u)' <=> HasTurn(u)
  /\ Executing(u)' <=> Executing(u)
  /\ TeamChunk(u)' = TeamChunk(u)
  /\ Executing(u) => range'[u] = range[u]
  /\ Active(policy, u) => (at'[u].label = "joined" <=> at[u].label = "joined")

NoTurn(t) ==
  ~ Executing(t) /\ ~ ToRead(t) /\ ~ Sharing(t) /\ at[t].label # "joined"

LEMMA KeptByOne ==
  ASSUME TurnInv, NEW t \in Threads, Moves(t),
         \A u \in Threads : u # t => range'[u] = range[u],
         w' = w,
         \A u \in Threads : u # t /\ at[u].scope = "team" =>
           /\ step'[u].team = step[u].team
           /\ barrier'[Master(u)].wait = barrier[Master(u)].wait,
         Executing(t)' <=> Executing(t), ToRead(t)' <=> ToRead(t),
         Sharing(t)' <=> Sharing(t), Executing(t) => range'[t] = range[t],
         Active(policy, t) => (at'[t].label = "joined" <=> at[t].label = "joined"),
         NEW u \in Threads
  PROVE  Kept(u)
<1>1. /\ PoolInv /\ policy' = policy /\ policy \in Policies
      /\ \A v \in Threads : v # t => at'[v] = at[v]
  BY DEF TurnInv, TeamsInStep, Moves, PoolInv, PoolTyping
<1>2. Master(u)' = Master(u) /\ Master(u) \in Threads
  BY <1>1, ThreadNumbers DEF Master
<1>3. TeamChunk(u)' = TeamChunk(u)
  BY <1>2 DEF TeamChunk
<1>4. Sharing(Master(u))' <=> Sharing(Master(u))
  BY <1>1, <1>2 DEF Sharing
<1>5. CASE u = t
  BY <1>1, <1>3, <1>4, <1>5 DEF Kept, HasTurn
<1>6. CASE u # t
  <2>1. Still(u)
    BY <1>1, <1>6, StillOther
  <2>2. /\ Executing(u)' <=> Executing(u)
        /\ ToRead(u)' <=> ToRead(u)
    BY <1>1, <2>1, StillViews
  <2> QED
    BY <1>1, <1>3, <1>4, <1>6, <2>2 DEF Kept, HasTurn
<1> QED
  BY <1>5, <1>6

-----------------------------------------------------------------------------
(* Before the turns begin.                                                 *)

Idle(loc) ==
  \/ loc.scope = "pool"
  \/ loc.label \in {"organize", "partition", "partitioned", "own_block"}

LEMMA IdleLocations ==
  ASSUME NEW loc \in Locations, Idle(loc)
  PROVE  /\ loc.label \notin {"joined", "item", "read_index", "share"}
         /\ loc.back \notin {"item", "take", "chunk"}
  BY DEF Idle, Locations, PlainLocations, PoolLocations, TeamLocations, At

LEMMA IdleTurn ==
  ASSUME TurnInv, NEW t \in Threads, policy' = policy,
         Idle(at[t]), at'[t] \in Locations, Idle(at'[t]),
         range'[t] = range[t]
  PROVE  /\ InRange(t)' /\ Ended(t)' /\ Shared(t)' /\ Returned(t)'
         /\ Stopped(t)' <=> Stopped(t)
         /\ RoundRange(t)' = RoundRange(t)
         /\ NoTurn(t) /\ NoTurn(t)'
<1>1. /\ at[t] \in Locations /\ Ended(t)
  BY DEF TurnInv, TeamsInStep, PoolInv, PoolTyping, Turns
<1>2. /\ at[t].label \notin {"joined", "item", "read_index", "share"}
      /\ at[t].back \notin {"item", "take", "chunk"}
      /\ at'[t].label \notin {"joined", "item", "read_index", "share"}
      /\ at'[t].back \notin {"item", "take", "chunk"}
  BY <1>1, IdleLocations
<1>3. /\ ~ ToRead(t) /\ ~ ToRead(t)'
      /\ ~ Executing(t) /\ ~ Executing(t)'
      /\ ~ Over(t) /\ ~ Over(t)'
  BY <1>2 DEF ToRead, Executing, Over
<1>4. Block(t)' = Block(t)
  BY DEF Block
<1>5. RoundRange(t)' = RoundRange(t)
  BY <1>2, <1>3, <1>4 DEF RoundRange
<1>6. AtTheEnd(t)' <=> AtTheEnd(t)
  BY <1>2, <1>3 DEF AtTheEnd
<1>7. NoTurn(t) /\ NoTurn(t)'
  BY <1>2, <1>3 DEF NoTurn, Sharing
<1> QED
  BY <1>1, <1>2, <1>3, <1>5, <1>6, <1>7
  DEF InRange, Ended, Shared, Returned, Stopped

LEMMA PoolBarrierTurn ==
  ASSUME TurnInv, NEW t \in Threads, Barrier(t), InPool(at[t]), PoolInv'
  PROVE  Turns' /\ SameRound' /\ StopTogether' /\ \A u \in Threads : Kept(u)
<1>1. /\ PoolInv /\ Whereabouts /\ at \in [Threads -> Locations]
      /\ at[t] \in PoolLocations
      /\ step \in [Threads -> [pool : Nat, team : Nat]]
      /\ barrier \in [Places -> [arrive : Int, master : Int, wait : Int]]
      /\ Place(t) = PoolPlace /\ at[t].scope = "pool"
      /\ policy \in Policies
  BY PoolMember DEF TurnInv, TeamsInStep, PoolInv, PoolTyping
<1>2. Moves(t) /\ policy' = policy
  BY <1>1, BarrierPlaced DEF Moves
<1>3. at'[t] \in Locations /\ Idle(at[t]) /\ Idle(at'[t])
  <2>1. \/ at'[t].scope = "pool"
        \/ at'[t] = At(at[t].back) /\ at[t].back \in {"partition", "partitioned"}
    BY <1>1
    DEF Barrier, Arrive, Signal, MasterWait, Wait, Clear, Release, Goto,
        PoolLocations
  <2>2. at'[t] \in Locations
    BY DEF PoolInv, PoolTyping
  <2> QED
    BY <1>1, <2>1, <2>2 DEF Idle, At
<1>4. /\ at[t].back # "chunk" /\ range' = range /\ w' = w
      /\ teamIndex' = teamIndex
  BY <1>1
  DEF PoolLocations, Barrier, Arrive, Signal, MasterWait, Wait, Clear, Release
<1>5. \A u \in Threads : u # t => step'[u].team = step[u].team
  BY <1>1 DEF Barrier, Arrive, Signal, MasterWait, Wait, Clear, Release
<1>6. \A u \in Threads : barrier'[u] = barrier[u]
  <2>1. \/ barrier' = barrier
        \/ \E new : barrier' = [barrier EXCEPT ![PoolPlace] = new]
    BY <1>1 DEF Barrier, Arrive, Signal, MasterWait, Wait, Clear, Release
  <2>2. \A u \in Threads : u # PoolPlace /\ u \in Places
    BY PoolOfThreads DEF Places
  <2> QED
    BY <1>1, <2>1, <2>2
<1>7. \A u \in Threads : Master(u) \in Threads
  BY <1>1, ThreadNumbers DEF Master
<1>8. /\ InRange(t)' /\ Ended(t)' /\ Shared(t)' /\ Returned(t)'
      /\ Stopped(t)' <=> Stopped(t)
      /\ RoundRange(t)' = RoundRange(t)
      /\ NoTurn(t) /\ NoTurn(t)'
  BY <1>2, <1>3, <1>4, IdleTurn
<1>9. \A u \in Threads : Kept(u)
  BY <1>2, <1>4, <1>5, <1>6, <1>7, <1>8, KeptByOne DEF NoTurn
<1> QED
  BY <1>2, <1>4, <1>5, <1>6, <1>7, <1>8, <1>9, OnlyOne

LEMMA OrganizeTurn ==
  ASSUME TurnInv, NEW t \in Threads, Organize(t), PoolInv'
  PROVE  Turns' /\ SameRound' /\ StopTogether' /\ \A u \in Threads : Kept(u)
<1>1. /\ PoolInv /\ Whereabouts /\ at \in [Threads -> Locations]
      /\ policy \in Policies /\ at[t].label = "organize" /\ policy.team > 1
  BY DEF TurnInv, TeamsInStep, PoolInv, PoolTyping, Organize, Whereabouts,
         Placed, OfTeams
<1>2. Moves(t) /\ policy' = policy
  BY <1>1, WorkPlaced DEF Moves
<1>3. at'[t] \in Locations /\ Idle(at[t]) /\ Idle(at'[t])
  <2>1. at'[t] = Rendezvous("pool", "partition")
    BY <1>1 DEF Organize, Goto
  <2>2. at'[t] \in Locations
    BY DEF PoolInv, PoolTyping
  <2> QED
    BY <1>1, <2>1, <2>2 DEF Idle, At, Rendezvous
<1>4. range' = range /\ w' = w /\ teamIndex' = teamIndex
  BY DEF Organize
\* No team meets before all of them have been organized.
<1>5. \A u \in Threads : at[u].scope # "team"
  BY <1>1, WhileOrganizing DEF InPool
<1>6. /\ InRange(t)' /\ Ended(t)' /\ Shared(t)' /\ Returned(t)'
      /\ Stopped(t)' <=> Stopped(t)
      /\ RoundRange(t)' = RoundRange(t)
      /\ NoTurn(t) /\ NoTurn(t)'
  BY <1>2, <1>3, <1>4, IdleTurn
<1>7. \A u \in Threads : Kept(u)
  BY <1>2, <1>4, <1>5, <1>6, KeptByOne DEF NoTurn
<1> QED
  BY <1>2, <1>4, <1>5, <1>6, <1>7, OnlyOne

LEMMA PartitionTurn ==
  ASSUME TurnInv, NEW t \in Threads, SetWorkPartition(t), PoolInv'
  PROVE  Turns' /\ SameRound' /\ StopTogether' /\ \A u \in Threads : Kept(u)
<1>1. /\ PoolInv /\ Whereabouts /\ at \in [Threads -> Locations]
      /\ policy \in Policies /\ at[t].label = "partition"
  BY DEF TurnInv, TeamsInStep, PoolInv, PoolTyping, SetWorkPartition
<1>2. Moves(t) /\ policy' = policy
  BY <1>1, WorkPlaced DEF Moves
<1>3. UNCHANGED <<range, w, teamIndex, step, barrier>>
  BY DEF SetWorkPartition
<1>4. at'[t] = AfterPartition(t) /\ at'[t] \in Locations /\ Idle(at[t])
  BY <1>1 DEF SetWorkPartition, Goto, PoolInv, PoolTyping, Idle
<1>5. CASE policy.dynamic \/ Active(policy, t)
  <2>1. Idle(at'[t])
    BY <1>4, <1>5 DEF AfterPartition, Idle, At, Rendezvous
  <2>2. /\ InRange(t)' /\ Ended(t)' /\ Shared(t)' /\ Returned(t)'
        /\ Stopped(t)' <=> Stopped(t)
        /\ RoundRange(t)' = RoundRange(t)
        /\ NoTurn(t) /\ NoTurn(t)'
    BY <1>2, <1>3, <1>4, <2>1, IdleTurn
  <2>3. \A u \in Threads : Kept(u)
    BY <1>2, <1>3, <2>2, KeptByOne DEF NoTurn
  <2> QED
    BY <1>2, <1>3, <2>2, <2>3, OnlyOne
<1>6. CASE ~ policy.dynamic /\ ~ Active(policy, t)
  <2>1. at'[t] = At("joined")
    BY <1>4, <1>6 DEF AfterPartition
  <2>2. at'[t].label = "joined" /\ at'[t].back = "none"
    BY <2>1 DEF At
  <2>3. InRange(t)' /\ Ended(t)' /\ Shared(t)' /\ Returned(t)'
    BY <1>2, <1>6, <2>2
    DEF InRange, Ended, Shared, Returned, Executing, AtTheEnd, ToRead
  <2>4. /\ ~ Executing(t) /\ ~ ToRead(t) /\ ~ Sharing(t)
        /\ ~ Executing(t)' /\ ~ ToRead(t)' /\ ~ Sharing(t)'
    BY <1>1, <2>2, TeamScope DEF PlainLabels, Executing, ToRead, Sharing
  <2>5. \A u \in Threads : Kept(u)
    BY <1>2, <1>3, <1>6, <2>4, KeptByOne
  <2> QED
    BY <1>2, <1>3, <1>6, <2>3, <2>5, OnlyOne
<1> QED
  BY <1>5, <1>6

\* A thread that begins a call of get_work_stealing.
LEMMA TakeLocation ==
  /\ policy.team = 1 => Take = At("try_own")
  /\ policy.team # 1 =>
       Take = [label |-> "arrive", scope |-> "team", back |-> "take"]
  BY DEF Take, Rendezvous, Size

\* It is at the end of its range, and the round is still the one it leaves.
LEMMA TakeTurn ==
  ASSUME policy' = policy, NEW t \in Threads, policy.dynamic, at'[t] = Take
  PROVE  /\ ~ Executing(t)' /\ ~ ToRead(t)' /\ ~ Over(t)'
         /\ at'[t].back \notin {"item", "chunk"}
         /\ InRange(t)' /\ Shared(t)' /\ Returned(t)' /\ ~ Stopped(t)'
         /\ RoundRange(t)' = range'[t]
         /\ Ended(t)' <=> range'[t][1] + 1 >= range'[t][2]
<1>1. /\ at'[t].label \in {"try_own", "arrive"}
      /\ at'[t].back \in {"none", "take"}
  BY TakeLocation DEF At
<1>2. ~ Executing(t)' /\ ~ ToRead(t)' /\ ~ Over(t)'
  BY <1>1 DEF Executing, ToRead, Over
<1>3. RoundRange(t)' = range'[t]
  BY <1>1, <1>2 DEF RoundRange
<1> QED
  BY <1>1, <1>2, <1>3
  DEF InRange, Shared, Returned, Stopped, Ended, AtTheEnd

LEMMA StartStealingTurn ==
  ASSUME TurnInv, NEW t \in Threads, StartStealing(t)
  PROVE  Turns' /\ SameRound' /\ StopTogether' /\ \A u \in Threads : Kept(u)
<1>1. /\ PoolInv /\ Whereabouts /\ at \in [Threads -> Locations]
      /\ policy \in Policies /\ at[t].label = "partitioned" /\ policy.dynamic
      /\ Ended(t) /\ at[t].back = "none"
  <2>1. PoolInv /\ at[t].label = "partitioned"
    BY DEF TurnInv, TeamsInStep, StartStealing
  <2>2. policy.dynamic
    BY <2>1 DEF PoolInv, Scheduled, ForStealing
  <2>3. at[t].back = "none"
    BY <2>1, TeamScope DEF PlainLabels
  <2> QED
    BY <2>1, <2>2, <2>3 DEF TurnInv, TeamsInStep, PoolInv, PoolTyping, Turns
<1>2. Moves(t) /\ policy' = policy
  BY <1>1, WorkPlaced DEF Moves
<1>3. UNCHANGED <<range, w, teamIndex, step, barrier>>
  BY DEF StartStealing
<1>4. ~ Executing(t) /\ ~ ToRead(t) /\ ~ Over(t) /\ RoundRange(t) = range[t]
  BY <1>1 DEF Executing, ToRead, Over, RoundRange
<1>5. range[t][1] + 1 >= range[t][2]
  BY <1>1, <1>4 DEF Ended, AtTheEnd
<1>6. CASE Active(policy, t)
  <2>1. at'[t] = Take
    BY <1>1, <1>6 DEF StartStealing, Goto
  <2>2. /\ ~ Sharing(t) /\ ~ Sharing(t)' /\ at'[t].label # "joined"
        /\ ~ Executing(t)' /\ ~ ToRead(t)'
    <3>1. at'[t].label \in {"try_own", "arrive"} /\ at'[t].back \in {"none", "take"}
      BY <2>1, TakeLocation DEF At
    <3> QED
      BY <1>1, <3>1 DEF Sharing, Executing, ToRead
  <2>3. \A u \in Threads : Kept(u)
    BY <1>1, <1>2, <1>3, <1>4, <2>2, KeptByOne
  <2> QED
    BY <1>1, <1>2, <1>3, <1>4, <1>5, <2>1, <2>3, TakeTurn, OnlyOne DEF Stopped
<1>7. CASE ~ Active(policy, t)
  <2>1. at'[t] = At("joined")
    BY <1>1, <1>7 DEF StartStealing, Goto
  <2>2. at'[t].label = "joined" /\ at'[t].back = "none"
    BY <2>1 DEF At
  <2>3. InRange(t)' /\ Ended(t)' /\ Shared(t)' /\ Returned(t)'
    BY <1>2, <1>7, <2>2
    DEF InRange, Ended, Shared, Returned, Executing, AtTheEnd, ToRead
  <2>4. /\ ~ Sharing(t) /\ ~ Executing(t)' /\ ~ ToRead(t)' /\ ~ Sharing(t)'
    BY <1>1, <2>2 DEF Executing, ToRead, Sharing
  <2>5. \A u \in Threads : Kept(u)
    BY <1>2, <1>3, <1>4, <1>7, <2>4, KeptByOne
  <2> QED
    BY <1>2, <1>3, <1>7, <2>3, <2>5, OnlyOne
<1> QED
  BY <1>6, <1>7

LEMMA OwnBlockTurn ==
  ASSUME TurnInv, NEW t \in Threads, OwnBlock(t)
  PROVE  Turns' /\ SameRound' /\ StopTogether'
<1>1. /\ PoolInv /\ Whereabouts /\ at \in [Threads -> Locations]
      /\ range \in [Threads -> Pairs]
      /\ policy \in Policies /\ at[t].label = "own_block"
      /\ ~ policy.dynamic /\ Active(policy, t) /\ at[t].back = "none"
  <2>1. PoolInv /\ at[t].label = "own_block" /\ Placed(policy, t, at[t])
    BY DEF TurnInv, TeamsInStep, OwnBlock, Whereabouts
  <2>2. at[t].back = "none"
    BY <2>1, TeamScope DEF PlainLabels
  <2> QED
    BY <2>1, <2>2
    DEF TurnInv, TeamsInStep, PoolInv, PoolTyping, Placed, InTeam, DataTypes
<1>2. Moves(t) /\ policy' = policy
  BY <1>1, WorkPlaced DEF Moves
<1>3. UNCHANGED <<w, teamIndex, step, barrier>>
  BY DEF OwnBlock
<1>4. /\ range' = [range EXCEPT ![t] = Block(t)]
      /\ at' = [at EXCEPT ![t] = At(IF Block(t)[1] < Block(t)[2]
                                      THEN "item" ELSE "joined")]
  BY DEF OwnBlock, Goto, Block
<1>5. range'[t] = Block(t) /\ \A u \in Threads : u # t => range'[u] = range[u]
  BY <1>1, <1>4
<1>6. Block(t)' = Block(t) /\ Block(t)[1] \in Nat
  BY <1>1, <1>2, BlockNumbers DEF Block
<1>7. ~ Executing(t) /\ ~ ToRead(t) /\ RoundRange(t) = Block(t)
  BY <1>1 DEF Executing, ToRead, RoundRange
<1>8. CASE Block(t)[1] < Block(t)[2]
  <2>1. at'[t] = At("item")
    BY <1>1, <1>4, <1>8
  <2>2. at'[t].label = "item" /\ at'[t].back = "none"
    BY <2>1 DEF At
  <2>3. /\ Executing(t)' /\ ~ ToRead(t)' /\ RoundRange(t)' = range'[t]
        /\ InRange(t)' /\ Ended(t)' /\ Shared(t)' /\ Returned(t)'
    BY <1>1, <1>2, <1>5, <1>6, <1>8, <2>2
    DEF Executing, ToRead, RoundRange, InRange, Given, Ended, AtTheEnd, Shared,
        Returned
  <2> QED
    BY <1>1, <1>2, <1>3, <1>5, <1>7, <2>3, OnlyOne DEF Stopped
<1>9. CASE ~ Block(t)[1] < Block(t)[2]
  <2>1. at'[t] = At("joined")
    BY <1>1, <1>4, <1>9
  <2>2. at'[t].label = "joined" /\ at'[t].back = "none"
    BY <2>1 DEF At
  <2>3. /\ ~ Executing(t)' /\ ~ ToRead(t)' /\ RoundRange(t)' = range'[t]
        /\ InRange(t)' /\ Ended(t)' /\ Shared(t)' /\ Returned(t)'
    BY <1>1, <1>2, <2>2
    DEF Executing, ToRead, RoundRange, InRange, Given, Ended, AtTheEnd, Shared,
        Returned
  <2> QED
    BY <1>1, <1>2, <1>3, <1>5, <1>7, <2>3, OnlyOne DEF Stopped
<1> QED
  BY <1>8, <1>9

-----------------------------------------------------------------------------
(* The turns themselves.                                                   *)

LEMMA BetweenItemsLocation ==
  /\ policy.team = 1 => BetweenItems = At("item")
  /\ policy.team # 1 =>
       BetweenItems = [label |-> "arrive", scope |-> "team", back |-> "item"]
  BY DEF BetweenItems, Rendezvous, Size

LEMMA RunItemTurn ==
  ASSUME TurnInv, NEW t \in Threads, RunItem(t)
  PROVE  Turns' /\ SameRound' /\ StopTogether'
<1> DEFINE r == range[t][1]
           e == range[t][2]
<1>1. /\ PoolInv /\ Whereabouts /\ at \in [Threads -> Locations]
      /\ range \in [Threads -> Pairs]
      /\ policy \in Policies /\ at[t].label = "item" /\ at[t].back = "none"
      /\ InRange(t)
  <2>1. PoolInv /\ at[t].label = "item" /\ InRange(t)
    BY DEF TurnInv, TeamsInStep, RunItem, Turns
  <2>2. at[t].back = "none"
    BY <2>1, TeamScope DEF PlainLabels
  <2> QED
    BY <2>1, <2>2 DEF TurnInv, TeamsInStep, PoolInv, PoolTyping, DataTypes
<1>2. Moves(t) /\ policy' = policy
  BY <1>1, WorkPlaced DEF Moves
<1>3. UNCHANGED <<w, teamIndex, step, barrier>>
  BY DEF RunItem
<1>4. /\ Executing(t) /\ ~ ToRead(t) /\ ~ Over(t) /\ ~ Stopped(t)
      /\ RoundRange(t) = range[t]
  BY <1>1 DEF Executing, ToRead, Over, RoundRange, Stopped
<1>5. /\ r \in Int /\ e \in Int /\ range[t] = <<r, e>> /\ r < e
      /\ policy.dynamic => TeamChunk(t) >= 0
      /\ Given(t)[1] <= r /\ e = Given(t)[2]
  BY <1>1, <1>4, PairFields DEF InRange
<1>6. \A u \in Threads : u # t => range'[u] = range[u]
  BY <1>1 DEF RunItem
<1>7. /\ TeamChunk(t)' = TeamChunk(t) /\ Given(t)' = Given(t)
  BY <1>2, <1>3 DEF TeamChunk, Master, Given, ChunkRange, Block
<1>10. Given(t)[1] \in Int
  <2>1. CASE policy.dynamic
    <3>1. TeamChunk(t) \in Int
      BY <1>1, ThreadNumbers, PairFields DEF TurnInv, DataTypes, TeamChunk, Master
    <3> QED
      BY <1>1, <2>1, <3>1, ChunkRangePair, PairFields DEF Given
  <2>2. CASE ~ policy.dynamic
    <3>1. Active(policy, t)
      BY <1>1 DEF Whereabouts, Placed, InTeam
    <3> QED
      BY <1>1, <2>2, <3>1, BlockNumbers, PairFields DEF Given
  <2> QED
    BY <2>1, <2>2
<1>8. CASE r + 1 < e
  <2>1. range'[t] = <<r + 1, e>>
    <3>1. range'[t] = [range[t] EXCEPT ![1] = r + 1]
      BY <1>1, <1>8 DEF RunItem
    <3> QED
      BY <1>1, <1>5, <3>1, PairFields
  <2>2. at'[t] = BetweenItems
    BY <1>1, <1>8 DEF RunItem, Goto
  <2>3. /\ at'[t].label \in {"item", "arrive"} /\ at'[t].back \in {"none", "item"}
        /\ at'[t].label = "item" \/ at'[t].back = "item"
        /\ policy.team # 1 => at'[t].label = "arrive" /\ at'[t].back = "item"
    BY <2>2, BetweenItemsLocation DEF At
  <2>4. Executing(t)' /\ ~ ToRead(t)' /\ ~ Over(t)' /\ ~ Stopped(t)'
    BY <2>3 DEF Executing, ToRead, Over, Stopped
  <2>5. InRange(t)'
    <3>1. range'[t][1] = r + 1 /\ range'[t][2] = e
      BY <2>1
    <3>2. Given(t)[1] \in Int
      BY <1>10
    <3> HIDE DEF r, e
    <3>3. Given(t)'[1] <= r + 1 /\ r + 1 < e /\ e = Given(t)'[2]
      BY <1>5, <1>7, <1>8, <3>2
    <3>4. policy'.dynamic => TeamChunk(t)' >= 0
      BY <1>2, <1>5, <1>7
    <3> QED
      BY <3>1, <3>3, <3>4 DEF InRange
  <2>6. Ended(t)' /\ Shared(t)' /\ Returned(t)'
    BY <2>3, <2>4 DEF Ended, AtTheEnd, Shared, Returned
  <2>7. policy.team # 1 => RoundRange(t)' = <<r, e>>
    <3>1. range'[t][1] - 1 = r /\ range'[t][2] = e
      BY <1>5, <2>1
    <3> HIDE DEF r, e
    <3> QED
      BY <2>3, <3>1 DEF RoundRange, Turned
  <2> QED
    BY <1>2, <1>3, <1>4, <1>5, <1>6, <2>4, <2>5, <2>6, <2>7, OnlyOne
<1>9. CASE ~ r + 1 < e
  <2>1. range'[t] = range[t]
    BY <1>9 DEF RunItem
  <2>2. CASE policy.dynamic
    <3>1. at'[t] = Take
      BY <1>1, <1>9, <2>2 DEF RunItem, Goto
    <3>2. range'[t][1] + 1 >= range'[t][2]
      BY <1>5, <1>9, <2>1
    <3> QED
      BY <1>2, <1>3, <1>4, <1>6, <2>1, <2>2, <3>1, <3>2, TakeTurn, OnlyOne
  <2>3. CASE ~ policy.dynamic
    <3>1. at'[t] = At("joined")
      BY <1>1, <1>9, <2>3 DEF RunItem, Goto
    <3>2. at'[t].label = "joined" /\ at'[t].back = "none"
      BY <3>1 DEF At
    <3>3. /\ RoundRange(t)' = range'[t] /\ ~ Stopped(t)'
          /\ InRange(t)' /\ Ended(t)' /\ Shared(t)' /\ Returned(t)'
      BY <1>2, <2>3, <3>2
      DEF Executing, ToRead, RoundRange, InRange, Ended, AtTheEnd, Shared,
          Returned, Stopped
    <3> QED
      BY <1>2, <1>3, <1>4, <1>6, <2>1, <3>3, OnlyOne
  <2> QED
    BY <2>2, <2>3
<1> QED
  BY <1>8, <1>9

\* A thread that knows its index goes to the chunk.
LEMMA ChunkTurn ==
  ASSUME policy \in Policies, policy' = policy, NEW t \in Threads, policy.dynamic,
         NEW i \in Int, at'[t] = WithChunk(i), TeamChunk(t)' = i,
         i >= 0 => range'[t] = ChunkRange(i)
  PROVE  /\ InRange(t)' /\ Ended(t)' /\ Shared(t)' /\ Returned(t)'
         /\ ~ ToRead(t)'
         /\ Stopped(t)' <=> i < 0
         /\ ~ i < 0 => RoundRange(t)' = ChunkRange(i)
<1>1. ChunkRange(i)[1] \in Int /\ ChunkRange(i)[2] \in Int
  BY ChunkRangePair, PairFields
<1>2. CASE i < 0
  <2>1. at'[t] = At("joined")
    BY <1>2 DEF WithChunk
  <2>2. at'[t].label = "joined" /\ at'[t].back = "none"
    BY <2>1 DEF At
  <2> QED
    BY <1>2, <2>2
    DEF InRange, Ended, Shared, Returned, Stopped, Executing, AtTheEnd, ToRead,
        Over
<1>3. CASE ~ i < 0
  <2>1. range'[t] = ChunkRange(i)
    BY <1>3
  <2>2. CASE ChunkRange(i)[1] < ChunkRange(i)[2]
    <3>1. at'[t] = At("item")
      BY <1>3, <2>2 DEF WithChunk
    <3>2. at'[t].label = "item" /\ at'[t].back = "none"
      BY <3>1 DEF At
    <3>3. Executing(t)' /\ ~ ToRead(t)' /\ ~ Over(t)'
      BY <3>2 DEF Executing, ToRead, Over
    <3>4. Given(t)' = ChunkRange(i)
      BY DEF Given, ChunkRange
    <3>5. RoundRange(t)' = range'[t]
      BY <3>2, <3>3 DEF RoundRange
    <3>6. InRange(t)'
      BY <1>1, <1>3, <2>1, <2>2, <3>4 DEF InRange
    <3> QED
      BY <1>3, <2>1, <3>2, <3>3, <3>5, <3>6
      DEF Ended, AtTheEnd, Shared, Returned, Stopped
  <2>3. CASE ~ ChunkRange(i)[1] < ChunkRange(i)[2]
    <3>1. at'[t] = Take
      BY <1>3, <2>3 DEF WithChunk
    <3>2. range'[t][1] + 1 >= range'[t][2]
      BY <1>1, <2>1, <2>3
    <3> QED
      BY <1>3, <2>1, <3>1, <3>2, TakeTurn
  <2> QED
    BY <2>2, <2>3
<1> QED
  BY <1>2, <1>3

LEMMA ReadIndexTurn ==
  ASSUME TurnInv, NEW t \in Threads, ReadIndex(t)
  PROVE  Turns' /\ SameRound' /\ StopTogether'
<1> DEFINE i == teamIndex[Base(policy, t)]
<1>1. /\ PoolInv /\ Whereabouts /\ at \in [Threads -> Locations]
      /\ range \in [Threads -> Pairs] /\ teamIndex \in [Threads -> Int]
      /\ policy \in Policies /\ at[t].label = "read_index" /\ at[t].back = "none"
      /\ policy.dynamic /\ Shared(t)
  <2>1. PoolInv /\ at[t].label = "read_index" /\ Shared(t)
    BY DEF TurnInv, TeamsInStep, ReadIndex, Turns
  <2>2. at[t].back = "none" /\ policy.dynamic
    BY <2>1, TeamScope DEF PlainLabels, PoolInv, Scheduled, ForStealing
  <2> QED
    BY <2>1, <2>2 DEF TurnInv, TeamsInStep, PoolInv, PoolTyping, DataTypes
<1>2. Moves(t) /\ policy' = policy
  BY <1>1, StealingPlaced DEF Moves
<1>3. UNCHANGED <<w, teamIndex, step, barrier>>
  BY DEF ReadIndex
<1>4. /\ ToRead(t) /\ Over(t) /\ ~ Executing(t)
      /\ RoundRange(t) = ChunkRange(TeamChunk(t))
  BY <1>1 DEF Executing, ToRead, Over, RoundRange
<1>5. i \in Int /\ TeamChunk(t) = i /\ TeamChunk(t)' = i
  <2>1. i \in Int
    BY <1>1, ThreadNumbers
  <2>2. TeamChunk(t) = i
    BY <1>1, <1>4 DEF Shared, Master
  <2>3. TeamChunk(t)' = TeamChunk(t)
    BY <1>2, <1>3 DEF TeamChunk, Master
  <2> QED
    BY <2>1, <2>2, <2>3
<1>6. /\ at' = [at EXCEPT ![t] = WithChunk(i)]
      /\ range' = [range EXCEPT ![t] = IF i < 0 THEN @ ELSE ChunkRange(i)]
  BY DEF ReadIndex, Goto
<1>7. Stopped(t) <=> i < 0
  BY <1>1, <1>4, <1>5 DEF Stopped
<1> HIDE DEF i
<1>8. /\ at'[t] = WithChunk(i)
      /\ i >= 0 => range'[t] = ChunkRange(i)
      /\ \A u \in Threads : u # t => range'[u] = range[u]
  BY <1>1, <1>5, <1>6
<1>9. /\ InRange(t)' /\ Ended(t)' /\ Shared(t)' /\ Returned(t)'
      /\ Stopped(t)' <=> i < 0
      /\ ~ i < 0 => RoundRange(t)' = ChunkRange(i)
  BY <1>1, <1>2, <1>5, <1>8, ChunkTurn
<1> QED
  BY <1>2, <1>3, <1>4, <1>5, <1>7, <1>8, <1>9, OnlyOne

-----------------------------------------------------------------------------
(* The rendezvous of a team.                                               *)

\* While a master holds its team up, the others wait for it.
LEMMA HeldUp ==
  ASSUME TeamsInStep, policy.team > 1, NEW t \in Threads,
         TeamPart(at[t]) \in {"held", "release"}, InTeam(at[t])
  PROVE  /\ Master(t) = t /\ Active(policy, t) /\ Entered(t)
         /\ \A u \in Threads : Same(u, t) /\ u # t =>
              /\ at[u].scope = "team" /\ at[u].label = "wait"
              /\ at[u].back \in {"item", "take"}
              /\ Entered(u)
<1> DEFINE m == Master(t)
           S == Teammates(policy, m)
           b == barrier[m]
<1>1. /\ PoolInv /\ Whereabouts /\ TeamRounds /\ policy \in Policies
  BY DEF TeamsInStep, PoolInv, PoolTyping
<1>2. /\ Active(policy, t) /\ m \in Threads /\ IsMaster(m) /\ t \in S
      /\ S \subseteq Threads
      /\ Sound(S, m, Parts, TeamSteps, b)
      /\ Parts[t] = TeamPart(at[t])
  BY <1>1, TeamMember
<1>3. m = t
  BY <1>2 DEF Sound, Round
<1>4. b.master = b.wait + 1 /\ b.wait # b.wait + 1
  BY <1>2, <1>3 DEF Sound, Round
<1>5. ArrivedAt(S, TeamSteps, b) = S /\ SignallingAt(S, Parts) = {}
  BY <1>2, <1>3, <1>4 DEF Sound, Round
<1>6. \A u \in Threads : Same(u, t) => u \in S /\ Master(u) = m
  BY <1>1, <1>3, Teams DEF Same
<1> HIDE DEF S, b
<1>7. ASSUME NEW u \in Threads, Same(u, t)
      PROVE  Entered(u)
  <2>1. u \in ArrivedAt(S, TeamSteps, b)
    BY <1>5, <1>6, <1>7
  <2> QED
    BY <1>6, <1>7, <2>1 DEF Entered, ArrivedAt, TeamSteps, b, m
<1>8. ASSUME NEW u \in Threads, Same(u, t), u # t
      PROVE  /\ at[u].scope = "team" /\ at[u].label = "wait"
             /\ at[u].back \in {"item", "take"}
  <2>1. u \in S /\ Parts[u] = TeamPart(at[u])
    BY <1>6, <1>8 DEF Parts
  <2>2. TeamSteps[u] = b.wait + 1 /\ Parts[u] # "signal"
    BY <1>5, <2>1 DEF ArrivedAt, SignallingAt
  <2>3. Parts[u] \notin {"out", "signal", "held", "release"}
    BY <1>2, <1>3, <1>4, <1>8, <2>1, <2>2 DEF Sound, Round
  <2>4. at[u].scope = "team" /\ at[u].label = "wait"
    BY <2>1, <2>3 DEF TeamPart
  <2>5. at[u] \in TeamLocations
    BY <1>1, <2>4, LocationKinds DEF PoolInv, PoolTyping
  <2> QED
    BY <2>4, <2>5 DEF TeamLocations
<1>9. Same(t, t)
  BY <1>2 DEF Same
<1> QED
  BY <1>2, <1>3, <1>7, <1>8, <1>9

\* The members of a team meet either between two iterations or for a new chunk.
LEMMA SameKind ==
  ASSUME TurnInv, NEW t \in Threads, NEW u \in Threads, Same(t, u),
         at[t].back = "item", Turned(t), AtTheEnd(u)
  PROVE  FALSE
<1>1. /\ SameRound /\ InRange(t) /\ Ended(u) /\ range \in [Threads -> Pairs]
      /\ PoolInv
  BY DEF TurnInv, Turns, DataTypes, TeamsInStep
<1>2. /\ at[t].label # "joined" /\ at[t].label # "read_index"
  BY <1>1, TeamScope DEF PlainLabels
<1>3. Executing(t) /\ ~ ToRead(t) /\ ~ Stopped(t) /\ ~ Stopped(u)
  BY <1>2 DEF Executing, ToRead, Stopped, Over, AtTheEnd
<1>4. RoundRange(t) = <<range[t][1] - 1, range[t][2]>>
  BY DEF RoundRange
<1>5. RoundRange(u) = range[u]
  BY DEF RoundRange, AtTheEnd, Executing
<1>6. RoundRange(t) = RoundRange(u)
  BY <1>1, <1>3 DEF SameRound
<1>7. /\ range[t][1] < range[t][2]
      /\ range[u][1] + 1 >= range[u][2]
      /\ range[t][1] \in Int /\ range[t][2] \in Int
  BY <1>1, <1>3, PairFields DEF InRange, Ended
<1>8. range[u][1] = range[t][1] - 1 /\ range[u][2] = range[t][2]
  BY <1>4, <1>5, <1>6
<1> QED
  BY <1>7, <1>8

LEMMA ShareIndexTurn ==
  ASSUME TurnInv, NEW t \in Threads, ShareIndex(t)
  PROVE  Turns' /\ SameRound' /\ StopTogether' /\ \A u \in Threads : Kept(u)
<1>1. /\ TeamsInStep /\ PoolInv /\ Whereabouts /\ at \in [Threads -> Locations]
      /\ policy \in Policies /\ at[t].label = "share" /\ at[t].back = "none"
      /\ policy.dynamic /\ policy.team > 1 /\ Turns /\ Ended(t)
      /\ teamIndex \in [Threads -> Int]
  <2>1. PoolInv /\ at[t].label = "share" /\ Ended(t) /\ Turns
    BY DEF TurnInv, TeamsInStep, ShareIndex, Turns
  <2>2. at[t].back = "none" /\ policy.dynamic
    BY <2>1, TeamScope DEF PlainLabels, PoolInv, Scheduled, ForStealing
  <2>3. policy.team > 1
    BY <2>1 DEF TurnInv, TeamsInStep, Whereabouts, Placed, OfTeams
  <2> QED
    BY <2>1, <2>2, <2>3 DEF TurnInv, TeamsInStep, PoolInv, PoolTyping, DataTypes
<1>2. Moves(t) /\ policy' = policy
  BY <1>1, StealingPlaced DEF Moves
<1>3. UNCHANGED <<w, range, step, barrier>>
  BY DEF ShareIndex
<1>4. /\ Master(t) = t /\ Active(policy, t)
      /\ \A u \in Threads : Same(u, t) /\ u # t =>
           at[u].label = "wait" /\ at[u].back \in {"item", "take"} /\ Entered(u)
  <2>1. TeamPart(at[t]) = "held" /\ InTeam(at[t])
    BY <1>1 DEF TeamPart, InTeam
  <2> QED
    BY <1>1, <2>1, HeldUp
<1>5. /\ at'[t] = [label |-> "clear", scope |-> "team", back |-> "chunk"]
      /\ teamIndex' = [teamIndex EXCEPT ![t] = w[t][1]]
  BY <1>1, <1>4 DEF ShareIndex, Goto, Master
<1>6. TeamChunk(t)' = TeamChunk(t) /\ TeamChunk(t) = w[t][1] /\ Master(t)' = t
  BY <1>2, <1>3, <1>4 DEF TeamChunk, Master
<1>7. /\ ~ Executing(t) /\ ~ ToRead(t) /\ ~ Over(t) /\ ~ Stopped(t)
      /\ RoundRange(t) = range[t]
  BY <1>1 DEF Executing, ToRead, Over, RoundRange, Stopped
<1>8. /\ ~ Executing(t)' /\ ~ ToRead(t)' /\ ~ Over(t)' /\ ~ Stopped(t)'
      /\ RoundRange(t)' = range[t]
  BY <1>1, <1>2, <1>3, <1>5 DEF Executing, ToRead, Over, RoundRange, Stopped
<1>9. Shared(t)'
  BY <1>1, <1>5, <1>6 DEF Shared
<1>10. InRange(t)' /\ Ended(t)' /\ Returned(t)'
  BY <1>1, <1>2, <1>3, <1>5, <1>7, <1>8 DEF InRange, Ended, AtTheEnd, Returned
<1>11. ASSUME NEW u \in Threads, u # t
       PROVE  Still(u) /\ Shared(u)'
  <2>1. Still(u)
    BY <1>1, <1>2, <1>3, <1>11, StillOther
  <2>2. CASE Master(u) # t
    <3>1. teamIndex'[Master(u)] = teamIndex[Master(u)]
      BY <1>1, <1>5, <2>2
    <3> QED
      BY <1>1, <2>1, <3>1, SharedStays
  <2>3. CASE Master(u) = t /\ ~ Active(policy, u)
    <3>1. ~ InTeam(at[u])
      BY <1>1, <2>3 DEF Whereabouts, Placed
    <3>2. ~ ToRead(u) /\ at[u].back # "chunk"
      BY <1>1, <3>1, TeamScope DEF InTeam, ToRead
    <3> QED
      BY <1>1, <2>1, <3>2, StillViews DEF Still, Shared
  <2>4. CASE Master(u) = t /\ Active(policy, u)
    <3>1. Same(u, t)
      BY <1>4, <2>4 DEF Same
    <3>2. ~ ToRead(u) /\ at[u].back # "chunk"
      BY <1>4, <1>11, <3>1 DEF ToRead
    <3> QED
      BY <1>1, <2>1, <3>2, StillViews DEF Still, Shared
  <2> QED
    BY <2>1, <2>2, <2>3, <2>4
<1>12. \A u \in Threads : Kept(u)
  <2>1. Sharing(t) /\ Sharing(t)' /\ at'[t].label # "joined"
    BY <1>1, <1>5 DEF Sharing
  <2> QED
    BY <1>1, <1>2, <1>3, <1>7, <1>8, <2>1, KeptByOne
<1> QED
  BY <1>2, <1>3, <1>7, <1>8, <1>9, <1>10, <1>11, <1>12, TurnOfOne

\* A step of t within its turn.
LEMMA SameTurn ==
  ASSUME policy' = policy, NEW t \in Threads, range'[t] = range[t],
         w' = w, teamIndex' = teamIndex,
         at[t].label # "joined", at'[t].label # "joined",
         at'[t].back = "chunk" => at[t].back = "chunk",
         Executing(t)' <=> Executing(t), ToRead(t)' <=> ToRead(t),
         at'[t].back = "item" /\ Turned(t)' <=> at[t].back = "item" /\ Turned(t),
         InRange(t), Ended(t), Shared(t)
  PROVE  /\ InRange(t)' /\ Ended(t)' /\ Shared(t)' /\ Returned(t)'
         /\ Stopped(t)' <=> Stopped(t)
         /\ RoundRange(t)' = RoundRange(t)
<1>1. Master(t)' = Master(t) /\ TeamChunk(t)' = TeamChunk(t) /\ Block(t)' = Block(t)
  BY DEF Master, TeamChunk, Block
<1>2. ChunkRange(TeamChunk(t))' = ChunkRange(TeamChunk(t))
  BY <1>1 DEF ChunkRange
<1>3. Given(t)' = Given(t)
  BY <1>1, <1>2 DEF Given
<1>4. InRange(t)' /\ Ended(t)' /\ Shared(t)' /\ Returned(t)'
  BY <1>1, <1>3 DEF InRange, Ended, AtTheEnd, Shared, Returned
<1>5. Stopped(t)' <=> Stopped(t)
  BY <1>1 DEF Stopped, Over
<1>6. RoundRange(t)' = RoundRange(t)
  BY <1>1, <1>2 DEF RoundRange
<1> QED
  BY <1>4, <1>5, <1>6

LEMMA TeamBarrierTurn ==
  ASSUME TurnInv, NEW t \in Threads, Barrier(t), ~ Release(t),
         at[t].scope = "team"
  PROVE  Turns' /\ SameRound' /\ StopTogether' /\ \A u \in Threads : Kept(u)
<1> DEFINE m == Master(t)
           S == Teammates(policy, m)
           b == barrier[m]
<1>1. /\ PoolInv /\ Whereabouts /\ TeamRounds /\ at \in [Threads -> Locations]
      /\ policy \in Policies
      /\ step \in [Threads -> [pool : Nat, team : Nat]]
      /\ barrier \in [Places -> [arrive : Int, master : Int, wait : Int]]
      /\ at[t] \in TeamLocations /\ InTeam(at[t]) /\ policy.team > 1
      /\ InRange(t) /\ Ended(t) /\ Shared(t)
  <2>1. PoolInv /\ Whereabouts /\ TeamRounds /\ Turns
    BY DEF TurnInv, TeamsInStep
  <2>2. at[t] \in TeamLocations
    BY <2>1, LocationKinds DEF PoolInv, PoolTyping
  <2> QED
    BY <2>1, <2>2
    DEF PoolInv, PoolTyping, InTeam, Whereabouts, Placed, OfTeams, Turns
<1>2. /\ m \in Threads /\ t \in S
      /\ Sound(S, m, Parts, TeamSteps, b)
      /\ Parts[t] = TeamPart(at[t]) /\ TeamSteps[t] = step[t].team
  BY <1>1, TeamMember
<1>3. Place(t) = m /\ m \in Places /\ (RendezvousRank(t) = 0 <=> t = m)
  <2>1. t \in Nat /\ m \in Nat
    BY <1>2, PoolOfThreads
  <2> QED
    BY <1>2, <2>1 DEF Place, Master, Places, RendezvousRank
<1>4. Moves(t) /\ policy' = policy
  BY <1>1, BarrierPlaced DEF Moves
<1> HIDE DEF m, S, b
<1>5. UNCHANGED <<w, range, teamIndex>>
  BY DEF Barrier, Arrive, Signal, MasterWait, Wait, Clear
<1>6. \A u \in Threads : barrier'[u].wait = barrier[u].wait
  <2>1. \/ barrier' = barrier
        \/ barrier' = [barrier EXCEPT ![m] = [b EXCEPT !.arrive = barrier'[m].arrive]]
        \/ barrier' = [barrier EXCEPT ![m] = [b EXCEPT !.master = barrier'[m].master]]
    <3>1. \/ barrier' = barrier
          \/ \E n : barrier' = [barrier EXCEPT ![m] = [b EXCEPT !.arrive = n]]
          \/ \E n : barrier' = [barrier EXCEPT ![m] = [b EXCEPT !.master = n]]
      BY <1>3 DEF Barrier, Arrive, Signal, MasterWait, Wait, Clear, b
    <3> QED
      BY <1>1, <1>3, <3>1 DEF b
  <2> QED
    BY <1>1, <2>1 DEF Places, b
<1>7. /\ \A u \in Threads : u # t => step'[u].team = step[u].team
      /\ step'[t].team = IF at[t].label = "arrive" THEN step[t].team + 1
                                                   ELSE step[t].team
  BY <1>1 DEF Barrier, Arrive, Signal, MasterWait, Wait, Clear
<1>8. /\ Entered(t) <=> step[t].team = b.wait + 1
      /\ Entered(t)' <=> step'[t].team = b.wait + 1
  <2>1. Master(t)' = m /\ barrier'[m].wait = b.wait
    BY <1>2, <1>4, <1>6 DEF Master, m, b
  <2> QED
    BY <1>1, <1>4, <2>1 DEF Entered, m, b
<1>9. \/ /\ at[t].label = "arrive" /\ Entered(t)'
         /\ at'[t].label \in {"signal", "wait"} /\ at'[t].back = at[t].back
      \/ /\ at[t].label = "signal" /\ Entered(t) /\ Entered(t)'
         /\ at'[t].label = "wait" /\ at'[t].back = at[t].back
      \/ /\ at[t].label = "wait" /\ Entered(t) /\ Entered(t)'
         /\ \/ /\ at[t].back = "take" /\ at'[t].label = "try_own"
               /\ at'[t].back = "none"
            \/ /\ at[t].back = "item" /\ at'[t].label = "clear"
               /\ at'[t].back = "item"
      \/ /\ at[t].label = "wait" /\ ~ Entered(t) /\ ~ Entered(t)'
         /\ at'[t].back = "none"
         /\ \/ at[t].back = "take" /\ at'[t].label = "read_index"
            \/ at[t].back = "item" /\ at'[t].label = "item"
      \/ /\ at[t].label = "clear" /\ Entered(t) /\ Entered(t)'
         /\ at'[t].label = "release" /\ at'[t].back = at[t].back
  <2>1. CASE Arrive(t)
    <3>1. at[t].label = "arrive" /\ Parts[t] = "out"
      BY <1>2, <2>1 DEF Arrive, TeamPart
    <3>2. step[t].team = b.wait
      BY <1>2, <3>1 DEF Sound, Round
    <3>3. at'[t].label \in {"signal", "wait"} /\ at'[t].back = at[t].back
      BY <1>1, <2>1 DEF Arrive, Goto, TeamLocations
    <3> QED
      BY <1>7, <1>8, <3>1, <3>2, <3>3
  <2>2. CASE Signal(t)
    <3>1. at[t].label = "signal" /\ Parts[t] = "signal"
      BY <1>1, <1>2, <2>2 DEF Signal, TeamPart
    <3>2. step[t].team = b.wait + 1
      BY <1>2, <3>1 DEF Sound, Round
    <3>3. at'[t].label = "wait" /\ at'[t].back = at[t].back
      BY <1>1, <2>2 DEF Signal, Goto, TeamLocations
    <3> QED
      BY <1>7, <1>8, <3>1, <3>2, <3>3
  <2>3. CASE MasterWait(t)
    <3>1. at[t].label = "wait" /\ Parts[t] = "wait" /\ t = m
      BY <1>1, <1>2, <1>3, <2>3 DEF MasterWait, TeamPart
    <3>2. step[t].team = b.wait + 1
      BY <1>2, <3>1 DEF Sound, Round
    <3>3. at'[t] = IF at[t].back = "take" THEN At("try_own")
                                          ELSE [at[t] EXCEPT !.label = "clear"]
      BY <1>1, <2>3 DEF MasterWait, Goto
    <3> QED
      BY <1>1, <1>7, <1>8, <3>1, <3>2, <3>3 DEF TeamLocations, At
  <2>4. CASE Wait(t)
    <3>1. at[t].label = "wait" /\ b.wait = step[t].team
      BY <1>1, <1>3, <2>4 DEF Wait, b
    <3>2. b.wait # b.wait + 1
      BY <1>2 DEF Sound
    <3>3. at'[t] = At(IF at[t].back = "take" THEN "read_index" ELSE at[t].back)
      BY <1>1, <2>4 DEF Wait, Goto
    <3> QED
      BY <1>1, <1>7, <1>8, <3>1, <3>2, <3>3 DEF TeamLocations, At
  <2>5. CASE Clear(t)
    <3>1. at[t].label = "clear" /\ Parts[t] = "held"
      BY <1>1, <1>2, <2>5 DEF Clear, TeamPart
    <3>2. step[t].team = b.wait + 1
      BY <1>2, <3>1 DEF Sound, Round
    <3>3. at'[t].label = "release" /\ at'[t].back = at[t].back
      BY <1>1, <2>5 DEF Clear, Goto, TeamLocations
    <3> QED
      BY <1>7, <1>8, <3>1, <3>2, <3>3
  <2> QED
    BY <2>1, <2>2, <2>3, <2>4, <2>5 DEF Barrier
<1>10. /\ at[t].label \notin {"joined", "item", "read_index"}
       /\ at[t].back \in {"take", "item", "chunk"}
       /\ at'[t].label # "joined"
  BY <1>1, <1>9 DEF TeamLocations
<1>11. at'[t].back = "chunk" => at[t].back = "chunk"
  BY <1>9
<1>12. /\ Executing(t)' <=> Executing(t)
       /\ ToRead(t)' <=> ToRead(t)
       /\ at'[t].back = "item" /\ Turned(t)' <=> at[t].back = "item" /\ Turned(t)
  BY <1>9, <1>10 DEF Executing, ToRead, Turned
<1>13. /\ InRange(t)' /\ Ended(t)' /\ Shared(t)' /\ Returned(t)'
       /\ Stopped(t)' <=> Stopped(t)
       /\ RoundRange(t)' = RoundRange(t)
  BY <1>1, <1>4, <1>5, <1>10, <1>11, <1>12, SameTurn
<1>14. \A u \in Threads : u # t /\ at[u].scope = "team" =>
         /\ step'[u].team = step[u].team
         /\ barrier'[Master(u)].wait = barrier[Master(u)].wait
  BY <1>1, <1>6, <1>7, ThreadNumbers DEF Master
<1>15. Sharing(t)' <=> Sharing(t)
  BY <1>9, <1>10 DEF Sharing
<1>16. \A u \in Threads : Kept(u)
  BY <1>4, <1>5, <1>10, <1>12, <1>14, <1>15, KeptByOne
<1> QED
  BY <1>4, <1>5, <1>13, <1>14, <1>16, OnlyOne

\* A step of the whole team of t that leaves the other teams still.
LEMMA TurnOfTeam ==
  ASSUME TurnInv, NEW t \in Threads, policy' = policy,
         \A u \in Threads : ~ Same(u, t) => Still(u) /\ Shared(u)',
         \A u \in Threads : Same(u, t) =>
           InRange(u)' /\ Ended(u)' /\ Shared(u)' /\ Returned(u)',
         \A u, v \in Threads : Same(u, t) /\ Same(v, t) =>
           /\ Stopped(u)' => Over(v)'
           /\ ~ Stopped(u)' /\ ~ Stopped(v)' => RoundRange(u)' = RoundRange(v)'
  PROVE  Turns' /\ SameRound' /\ StopTogether'
<1>1. PoolInv /\ Turns /\ SameRound /\ StopTogether
  BY DEF TurnInv, TeamsInStep
<1>2. \A u, v \in Threads : Same(u, v)' <=> Same(u, v)
  BY DEF Same, Master
<1>3. \A u, v \in Threads : Same(u, v) => (Same(u, t) <=> Same(v, t))
  BY DEF Same
<1>4. ASSUME NEW u \in Threads, ~ Same(u, t)
      PROVE  /\ InRange(u)' /\ Ended(u)' /\ Shared(u)' /\ Returned(u)'
             /\ Over(u)' <=> Over(u)
             /\ Stopped(u)' <=> Stopped(u)
             /\ RoundRange(u)' = RoundRange(u)
  BY <1>1, <1>4, StillViews DEF Turns
<1>5. Turns'
  BY <1>4 DEF Turns
<1>6. SameRound'
  <2> SUFFICES ASSUME NEW u \in Threads, NEW v \in Threads, Same(u, v),
                      ~ Stopped(u)', ~ Stopped(v)'
               PROVE  RoundRange(u)' = RoundRange(v)'
    BY <1>2 DEF SameRound
  <2>1. CASE Same(u, t)
    BY <1>3, <2>1
  <2>2. CASE ~ Same(u, t)
    BY <1>1, <1>3, <1>4, <2>2 DEF SameRound
  <2> QED
    BY <2>1, <2>2
<1>7. StopTogether'
  <2> SUFFICES ASSUME NEW u \in Threads, NEW v \in Threads, Same(u, v),
                      Stopped(u)'
               PROVE  Over(v)'
    BY <1>2 DEF StopTogether
  <2>1. CASE Same(u, t)
    BY <1>3, <2>1
  <2>2. CASE ~ Same(u, t)
    BY <1>1, <1>3, <1>4, <2>2 DEF StopTogether
  <2> QED
    BY <2>1, <2>2
<1> QED
  BY <1>5, <1>6, <1>7

\* Who is released goes on with the iteration or the chunk of the round.
LEMMA ReleaseTurn ==
  ASSUME TurnInv, NEW t \in Threads, Release(t), at[t].scope = "team"
  PROVE  /\ Turns' /\ SameRound' /\ StopTogether'
         /\ \A u \in Threads : u # t \/ at[t].back = "item" => Kept(u)
<1> DEFINE i == w[t][1]
<1>1. /\ TeamsInStep /\ PoolInv /\ at \in [Threads -> Locations]
      /\ policy \in Policies /\ Turns /\ SameRound
      /\ step \in [Threads -> [pool : Nat, team : Nat]]
      /\ barrier \in [Places -> [arrive : Int, master : Int, wait : Int]]
      /\ range \in [Threads -> Pairs] /\ w \in [Threads -> Pairs]
      /\ at[t].label = "release" /\ at[t].back \in {"item", "chunk"}
      /\ policy.team > 1 /\ Whereabouts /\ InTeam(at[t])
      /\ TeamPart(at[t]) = "release"
  <2>1. PoolInv /\ Whereabouts /\ at[t].label = "release"
    BY DEF TurnInv, TeamsInStep, Release
  <2>2. at[t] \in TeamLocations
    BY <2>1, LocationKinds DEF PoolInv, PoolTyping
  <2> QED
    BY <2>1, <2>2
    DEF TurnInv, TeamsInStep, PoolInv, PoolTyping, InTeam, Whereabouts, Placed,
        OfTeams, TeamLocations, TeamPart, DataTypes
<1>2. /\ Master(t) = t /\ Active(policy, t) /\ Entered(t) /\ Same(t, t)
      /\ \A u \in Threads : Same(u, t) /\ u # t =>
           /\ at[u].scope = "team" /\ at[u].label = "wait"
           /\ at[u].back \in {"item", "take"} /\ Entered(u)
  BY <1>1, HeldUp DEF Same
<1>3. Moves(t) /\ policy' = policy /\ \A u \in Threads : u # t => at'[u] = at[u]
  BY <1>1, BarrierPlaced DEF Moves, Barrier
<1>4. /\ UNCHANGED <<step, w, teamIndex>>
      /\ barrier' = [barrier EXCEPT ![t] =
                       [barrier[t] EXCEPT !.wait = barrier[t].wait + 1]]
      /\ at'[t] = IF at[t].back = "chunk" THEN WithChunk(i) ELSE At("item")
      /\ range' = IF at[t].back = "chunk"
                    THEN [range EXCEPT ![t] = ChunkRange(i)] ELSE range
  BY <1>1, <1>2 DEF Release, Goto, Place, Master
<1>5. /\ barrier'[t].wait = barrier[t].wait + 1 /\ barrier[t].wait \in Int
      /\ \A u \in Threads : u # t => barrier'[u].wait = barrier[u].wait
      /\ \A u \in Threads : u # t => range'[u] = range[u]
  BY <1>1, <1>4 DEF Places
<1>6. /\ \A u \in Threads : Master(u)' = Master(u)
      /\ \A u \in Threads : TeamChunk(u)' = TeamChunk(u) /\ TeamChunk(u) = w[Master(u)][1]
      /\ \A u \in Threads : Given(u)' = Given(u)
  BY <1>3, <1>4 DEF Master, TeamChunk, Given, Block, ChunkRange
<1>7. ASSUME NEW u \in Threads, ~ Same(u, t)
      PROVE  Still(u) /\ Shared(u)'
  <2>1. u # t
    BY <1>2, <1>7
  <2>2. at[u].scope = "team" => Master(u) # t
    BY <1>1, <1>2, <1>7 DEF Whereabouts, Placed, InTeam, Same
  <2>3. Master(u) \in Threads
    BY <1>1, ThreadNumbers DEF Master
  <2>4. Still(u)
    BY <1>1, <1>3, <1>4, <1>5, <2>1, <2>2, <2>3, StillOther
  <2> QED
    BY <1>1, <1>4, <2>4, SharedStays
<1>12. ASSUME NEW u \in Threads, ~ Same(u, t)
       PROVE  Kept(u)
  <2>1. Still(u) /\ at'[u] = at[u] /\ range'[u] = range[u]
    BY <1>2, <1>3, <1>5, <1>7, <1>12
  <2>2. Active(policy, u) => Master(u) # t /\ Master(u) \in Threads
    BY <1>1, <1>2, <1>12, ThreadNumbers DEF Same, Master
  <2>3. Active(policy, u) => (Sharing(Master(u))' <=> Sharing(Master(u)))
    BY <1>3, <1>6, <2>2 DEF Sharing
  <2>4. /\ Executing(u)' <=> Executing(u)
        /\ ToRead(u)' <=> ToRead(u)
    BY <1>1, <2>1, StillViews
  <2> QED
    BY <1>3, <1>6, <2>1, <2>3, <2>4 DEF Kept, HasTurn
<1>8. ASSUME NEW u \in Threads, Same(u, t)
      PROVE  /\ Master(u) = t /\ TeamChunk(u)' = i /\ TeamChunk(u) = i
             /\ ~ Entered(u)'
  <2>1. Master(u) = t
    BY <1>2, <1>8 DEF Same
  <2>2. step[u].team = barrier[t].wait + 1
    BY <1>2, <1>8, <2>1 DEF Entered
  <2>3. step'[u].team # barrier'[t].wait + 1
    BY <1>4, <1>5, <2>2
  <2> QED
    BY <1>6, <2>1, <2>3 DEF Entered
<1>9. i \in Int
  BY <1>1, PairFields
<1> HIDE DEF i
<1>10. CASE at[t].back = "item"
  <2>1. /\ at'[t].label = "item" /\ at'[t].back = "none" /\ range' = range
    BY <1>4, <1>10 DEF At
  <2>2. Turned(t) /\ Executing(t) /\ ~ Stopped(t)
    BY <1>1, <1>2, <1>10 DEF Turned, Executing, Stopped, Over, ToRead
  <2>3. ASSUME NEW u \in Threads, Same(u, t)
        PROVE  /\ Executing(u) /\ Executing(u)'
               /\ ~ Stopped(u)' /\ ~ ToRead(u)' /\ at'[u].back # "chunk"
               /\ at'[u].label # "joined"
               /\ RoundRange(u)' = range[t]
               /\ Kept(u)
    <3>1. CASE u = t
      <4>1. ~ ToRead(t)' /\ Executing(t)' /\ ~ Stopped(t)' /\ RoundRange(t)' = range'[t]
        BY <2>1 DEF ToRead, Executing, Stopped, Over, RoundRange
      <4>2. Kept(t)
        BY <1>1, <1>6, <2>1, <2>2, <4>1 DEF Kept, HasTurn
      <4> QED
        BY <2>1, <2>2, <3>1, <4>1, <4>2
    <3>2. CASE u # t
      <4>1. at[u].label = "wait" /\ at[u].back \in {"item", "take"} /\ Entered(u)
        BY <1>2, <2>3, <3>2
      <4>2. at[u].back = "item"
        <5> SUFFICES ASSUME at[u].back = "take"
                     PROVE  FALSE
          BY <4>1
        <5>1. policy.dynamic
          BY <1>1 DEF PoolInv, Scheduled, ForStealing
        <5>2. AtTheEnd(u)
          BY <4>1, <5>1 DEF AtTheEnd, Executing, ToRead
        <5> QED
          BY <1>1, <1>10, <2>2, <2>3, <5>2, SameKind, Teams
      <4>3. Turned(u) /\ Executing(u) /\ ~ Stopped(u)
        BY <4>1, <4>2 DEF Turned, Executing, Stopped, Over, ToRead
      <4>4. RoundRange(u) = RoundRange(t)
        BY <1>1, <2>2, <2>3, <4>3 DEF SameRound
      <4>5. /\ RoundRange(u) = <<range[u][1] - 1, range[u][2]>>
            /\ RoundRange(t) = <<range[t][1] - 1, range[t][2]>>
        BY <1>10, <2>2, <4>2, <4>3 DEF RoundRange
      <4>6. range[u] = range[t]
        <5>1. /\ range[u][1] \in Int /\ range[u] = <<range[u][1], range[u][2]>>
              /\ range[t][1] \in Int /\ range[t] = <<range[t][1], range[t][2]>>
          BY <1>1, PairFields
        <5>4. <<range[u][1] - 1, range[u][2]>> = <<range[t][1] - 1, range[t][2]>>
          BY <4>4, <4>5
        <5>2. range[u][1] - 1 = range[t][1] - 1 /\ range[u][2] = range[t][2]
          BY <5>1, <5>4
        <5>3. range[u][1] = range[t][1]
          BY <5>1, <5>2
        <5> QED
          BY <5>1, <5>2, <5>3
      <4>7. at'[u].label = "wait" /\ at'[u].back = "item" /\ ~ Turned(u)'
        BY <1>3, <1>8, <2>3, <3>2, <4>1, <4>2 DEF Turned
      <4>8. /\ ~ ToRead(u)' /\ Executing(u)' /\ ~ Stopped(u)'
            /\ RoundRange(u)' = range'[u]
        BY <4>7 DEF ToRead, Executing, Stopped, Over, RoundRange
      <4>9. Kept(u)
        BY <1>6, <2>1, <4>1, <4>3, <4>7, <4>8 DEF Kept, HasTurn
      <4> QED
        BY <2>1, <4>3, <4>6, <4>7, <4>8, <4>9
    <3> QED
      BY <3>1, <3>2
  <2>4. ASSUME NEW u \in Threads, Same(u, t)
        PROVE  InRange(u)' /\ Ended(u)' /\ Shared(u)' /\ Returned(u)'
    <3>1. InRange(u)
      BY <1>1 DEF Turns
    <3>2. InRange(u)'
      BY <1>3, <1>6, <2>1, <2>3, <2>4, <3>1 DEF InRange
    <3> QED
      BY <2>3, <2>4, <3>2 DEF Ended, AtTheEnd, Shared, Returned
  <2> QED
    BY <1>3, <1>7, <1>10, <1>12, <2>3, <2>4, TurnOfTeam
<1>11. CASE at[t].back = "chunk"
  <2>1. policy.dynamic
    BY <1>1, <1>11 DEF PoolInv, Scheduled, ForStealing
  <2>2. at'[t] = WithChunk(i) /\ range'[t] = ChunkRange(i)
    BY <1>1, <1>4, <1>11
  <2>3. /\ InRange(t)' /\ Ended(t)' /\ Shared(t)' /\ Returned(t)'
        /\ Stopped(t)' <=> i < 0
        /\ ~ i < 0 => RoundRange(t)' = ChunkRange(i)
    BY <1>1, <1>2, <1>3, <1>8, <1>9, <2>1, <2>2, ChunkTurn
  <2>4. i < 0 => Over(t)'
    BY <2>2 DEF WithChunk, Over, At
  <2>5. AtTheEnd(t)
    BY <1>1, <1>11, <2>1 DEF AtTheEnd, Executing, ToRead
  <2>6. teamIndex[t] = i
    BY <1>1, <1>2, <1>8, <1>11 DEF Turns, Shared
  <2>7. \A j \in Int : ChunkRange(j)' = ChunkRange(j)
    BY <1>3 DEF ChunkRange
  <2>8. ASSUME NEW u \in Threads, Same(u, t), u # t
        PROVE  /\ InRange(u)' /\ Ended(u)' /\ Shared(u)' /\ Returned(u)'
               /\ Stopped(u)' <=> i < 0
               /\ Over(u)'
               /\ RoundRange(u)' = ChunkRange(i)
               /\ Kept(u)
    <3>1. at[u].label = "wait" /\ at[u].back \in {"item", "take"} /\ Entered(u)
      BY <1>2, <2>8
    <3>2. at[u].back = "take"
      BY <2>5, <2>8, <3>1, SameKind DEF Turned
    <3>3. at'[u].label = "wait" /\ at'[u].back = "take" /\ ~ Entered(u)'
      BY <1>3, <1>8, <2>8, <3>1, <3>2
    <3>4. ToRead(u)' /\ ~ Executing(u)' /\ Over(u)'
      BY <3>3 DEF ToRead, Executing, Over
    <3>5. TeamChunk(u)' = i /\ Master(u)' = t
      BY <1>6, <1>8, <2>8
    <3>6. RoundRange(u)' = ChunkRange(i)
      <4>1. RoundRange(u)' = ChunkRange(TeamChunk(u))'
        BY <3>3, <3>4 DEF RoundRange
      <4>2. ChunkRange(TeamChunk(u))' = ChunkRange(i)
        BY <1>3, <3>5 DEF ChunkRange
      <4> QED
        BY <4>1, <4>2
    <3>7. Stopped(u)' <=> i < 0
      BY <1>3, <2>1, <3>4, <3>5 DEF Stopped
    <3>8. InRange(u)' /\ Ended(u)' /\ Shared(u)' /\ Returned(u)'
      BY <1>4, <2>6, <3>3, <3>4, <3>5 DEF InRange, Ended, AtTheEnd, Shared, Returned
    <3>9. Kept(u)
      <4>1. HasTurn(u) /\ HasTurn(u)'
        BY <1>1, <1>8, <1>11, <2>8, <3>4 DEF HasTurn, Sharing, Same
      <4>2. ~ Executing(u) /\ at[u].label # "joined"
        BY <3>1, <3>2 DEF Executing
      <4> QED
        BY <1>8, <2>8, <3>3, <3>4, <4>1, <4>2 DEF Kept
    <3> QED
      BY <3>4, <3>6, <3>7, <3>8, <3>9
  <2> QED
    BY <1>3, <1>7, <1>11, <1>12, <2>3, <2>4, <2>8, TurnOfTeam
<1> QED
  BY <1>1, <1>10, <1>11

LEMMA StaysAtTheEnd ==
  ASSUME policy' = policy, NEW u \in Threads, range'[u] = range[u],
         AtTheEnd(u), AtTheEnd(u)', at'[u].back # "chunk", Ended(u)
  PROVE  /\ InRange(u)' /\ Ended(u)' /\ Shared(u)' /\ Returned(u)'
         /\ ~ Stopped(u) /\ ~ Stopped(u)'
         /\ RoundRange(u)' = RoundRange(u)
<1>1. /\ ~ Executing(u) /\ ~ ToRead(u) /\ at[u].label # "joined" /\ policy.dynamic
      /\ ~ Executing(u)' /\ ~ ToRead(u)' /\ at'[u].label # "joined"
      /\ policy'.dynamic
  BY DEF AtTheEnd
<1>2. RoundRange(u) = range[u] /\ RoundRange(u)' = range'[u]
  BY <1>1 DEF RoundRange, Executing
<1> QED
  BY <1>1, <1>2 DEF InRange, Ended, Shared, Returned, Stopped, Over

\* A master that looks for a chunk: it has one, or none, or goes on.
LEMMA SearchTurn ==
  ASSUME TurnInv, NEW t \in Threads, Moves(t),
         at[t].label \in {"try_own", "own", "steal"},
         UNCHANGED <<step, barrier, teamIndex>>,
         \A u \in Threads : u # t => w'[u] = w[u],
         \/ /\ range' = range /\ at'[t].back = "none"
            /\ at'[t].label \in {"own", "steal"}
         \/ \E i \in Int : Got(t, i) /\ w'[t][1] = i
  PROVE  Turns' /\ SameRound' /\ StopTogether'
<1>1. /\ TeamsInStep /\ DataTypes /\ PoolInv /\ at \in [Threads -> Locations]
      /\ policy \in Policies /\ policy' = policy /\ Turns /\ SameRound
      /\ StopTogether /\ Whereabouts /\ range \in [Threads -> Pairs]
      /\ \A u \in Threads : u # t => at'[u] = at[u]
  BY DEF TurnInv, TeamsInStep, PoolInv, PoolTyping, Moves, DataTypes
<1>2. /\ at[t].scope = "none" /\ at[t].back = "none" /\ policy.dynamic
      /\ TeamPart(at[t]) = "held" /\ InTeam(at[t])
      /\ Master(t) = t /\ Active(policy, t)
  <2>1. at[t].scope = "none" /\ at[t].back = "none"
    BY <1>1, TeamScope DEF PlainLabels
  <2>2. TeamPart(at[t]) = "held" /\ InTeam(at[t])
    BY <2>1 DEF TeamPart, InTeam
  <2> QED
    BY <1>1, <2>1, <2>2
    DEF PoolInv, Scheduled, ForStealing, Whereabouts, Placed, Master
<1>3. AtTheEnd(t) /\ Ended(t)
  BY <1>1, <1>2 DEF AtTheEnd, Executing, ToRead, Turns
<1>4. /\ \A u \in Threads : Master(u)' = Master(u)
      /\ \A u \in Threads : u # t => range'[u] = range[u]
      /\ \A u \in Threads : Entered(u)' <=> Entered(u)
      /\ \A u \in Threads : Master(u) # t => TeamChunk(u)' = TeamChunk(u)
  <2>1. \A u \in Threads : u # t => range'[u] = range[u]
    BY <1>1 DEF Got
  <2>2. \A u \in Threads : Master(u)' = Master(u) /\ Master(u) \in Threads
    BY <1>1, ThreadNumbers DEF Master
  <2> QED
    BY <1>1, <2>1, <2>2 DEF TeamChunk, Entered
<1>5. ASSUME NEW u \in Threads, u # t, Master(u) # t
      PROVE  Still(u) /\ Shared(u)'
  <2>1. Still(u)
    BY <1>1, <1>4, <1>5 DEF Still
  <2> QED
    BY <1>1, <2>1, SharedStays
\* It goes on.
<1>6. ASSUME range' = range, at'[t].back = "none",
             at'[t].label \in {"own", "steal", "share"}
      PROVE  /\ InRange(t)' /\ Ended(t)' /\ Shared(t)' /\ Returned(t)'
             /\ ~ Stopped(t) /\ ~ Stopped(t)'
             /\ RoundRange(t)' = RoundRange(t)
  <2>1. AtTheEnd(t)'
    BY <1>1, <1>2, <1>6 DEF AtTheEnd, Executing, ToRead
  <2> QED
    BY <1>1, <1>3, <1>6, <2>1, StaysAtTheEnd
<1>7. CASE policy.team = 1
  <2>1. \A u \in Threads : u # t => Master(u) # t
    BY <1>1, <1>7, FlatTeam DEF Master
  <2>2. InRange(t)' /\ Ended(t)' /\ Shared(t)' /\ Returned(t)'
    <3>1. CASE \E i \in Int : Got(t, i) /\ w'[t][1] = i
      <4>1. PICK i \in Int : Got(t, i) /\ w'[t][1] = i
        BY <3>1
      <4>2. /\ at' = [at EXCEPT ![t] = WithChunk(i)]
            /\ range' = [range EXCEPT ![t] = IF i < 0 THEN @ ELSE ChunkRange(i)]
        BY <1>7, <4>1 DEF Got, Goto
      <4>3. at'[t] = WithChunk(i) /\ (i >= 0 => range'[t] = ChunkRange(i))
        BY <1>1, <4>2
      <4>4. TeamChunk(t)' = i
        BY <1>2, <1>4, <4>1 DEF TeamChunk
      <4> QED
        BY <1>1, <1>2, <4>3, <4>4, ChunkTurn
    <3>2. CASE ~ \E i \in Int : Got(t, i) /\ w'[t][1] = i
      BY <1>6, <3>2
    <3> QED
      BY <3>1, <3>2
  <2> QED
    BY <1>1, <1>5, <1>7, <2>1, <2>2, TurnOfOne
<1>8. CASE policy.team > 1
  <2>1. \A u \in Threads : Same(u, t) /\ u # t =>
          /\ at[u].scope = "team" /\ at[u].label = "wait"
          /\ at[u].back \in {"item", "take"} /\ Entered(u)
    BY <1>1, <1>2, <1>8, HeldUp
  <2>2. /\ range' = range /\ at'[t].back = "none"
        /\ at'[t].label \in {"own", "steal", "share"}
    <3>1. CASE \E i \in Int : Got(t, i)
      <4>1. at' = [at EXCEPT ![t] = At("share")] /\ range' = range
        BY <1>8, <3>1 DEF Got, Goto
      <4>2. at'[t] = At("share")
        BY <1>1, <4>1
      <4> QED
        BY <4>1, <4>2 DEF At
    <3>2. CASE ~ \E i \in Int : Got(t, i)
      BY <3>2
    <3> QED
      BY <3>1, <3>2
  <2>3. ASSUME NEW u \in Threads, Same(u, t), u # t
        PROVE  /\ InRange(u)' /\ Ended(u)' /\ Shared(u)' /\ Returned(u)'
               /\ ~ Stopped(u) /\ ~ Stopped(u)'
               /\ RoundRange(u)' = RoundRange(u)
    <3>1. at[u].back = "take" /\ at[u].label = "wait" /\ Entered(u)
      BY <1>3, <2>1, <2>3, SameKind DEF Turned
    <3>2. at'[u] = at[u] /\ range'[u] = range[u] /\ Entered(u)'
      BY <1>1, <1>4, <2>3, <3>1
    <3>3. AtTheEnd(u) /\ AtTheEnd(u)' /\ Ended(u)
      BY <1>1, <1>2, <3>1, <3>2 DEF AtTheEnd, Executing, ToRead, Turns
    <3> QED
      BY <1>1, <3>1, <3>2, <3>3, StaysAtTheEnd
  <2>4. ASSUME NEW u \in Threads, ~ Active(policy, u)
        PROVE  InRange(u)' /\ Ended(u)' /\ Shared(u)' /\ Returned(u)'
    <3>1. u # t /\ ~ InTeam(at[u])
      BY <1>1, <1>2, <2>4 DEF Whereabouts, Placed
    <3>2. at'[u] = at[u] /\ range'[u] = range[u]
      BY <1>1, <1>4, <3>1
    <3>3. /\ ~ Executing(u) /\ ~ Executing(u)' /\ ~ ToRead(u) /\ ~ ToRead(u)'
          /\ at[u].back # "chunk"
      BY <1>1, <3>1, <3>2, TeamScope DEF InTeam, Executing, ToRead
    <3>4. Ended(u)
      BY <1>1 DEF Turns
    <3> QED
      BY <1>1, <2>4, <3>2, <3>3, <3>4
      DEF InRange, Ended, AtTheEnd, Shared, Returned
  <2>5. ASSUME NEW u \in Threads, Active(policy, u), Master(u) # t
        PROVE  /\ InRange(u)' /\ Ended(u)' /\ Shared(u)' /\ Returned(u)'
               /\ Stopped(u)' <=> Stopped(u)
               /\ RoundRange(u)' = RoundRange(u)
    <3>1. Still(u) /\ Shared(u)'
      BY <1>2, <1>5, <2>5
    <3> QED
      BY <1>1, <3>1, StillViews DEF Turns
  <2>6. \A u \in Threads : Active(policy, u) /\ Master(u) = t => Same(u, t)
    BY <1>2 DEF Same
  <2>7. ASSUME NEW u \in Threads
        PROVE  /\ InRange(u)' /\ Ended(u)' /\ Shared(u)' /\ Returned(u)'
               /\ Active(policy, u) =>
                    /\ Stopped(u)' <=> Stopped(u)
                    /\ RoundRange(u)' = RoundRange(u)
    <3>1. CASE u = t
      BY <1>6, <2>2, <3>1
    <3>2. CASE u # t
      BY <2>3, <2>4, <2>5, <2>6, <3>2
    <3> QED
      BY <3>1, <3>2
  <2> QED
    BY <1>1, <2>7, TurnStep
<1> QED
  BY <1>1, <1>7, <1>8, TeamNumbers

LEMMA StealingTurn ==
  ASSUME TurnInv, NEW t \in Threads,
         TryOwn(t) \/ TakeOwn(t) \/ StealFromOther(t)
  PROVE  Turns' /\ SameRound' /\ StopTogether'
<1>1. /\ PoolInv /\ Whereabouts /\ at \in [Threads -> Locations]
      /\ w \in [Threads -> Pairs] /\ work \in [Threads -> Pairs]
      /\ steal \in [Threads -> Threads]
  BY DEF TurnInv, TeamsInStep, PoolInv, PoolTyping, DataTypes
<1>2. Moves(t) /\ at[t].label \in {"try_own", "own", "steal"}
  BY <1>1, StealingPlaced DEF TryOwn, TakeOwn, StealFromOther
<1>3. at[t].back = "none"
  BY <1>1, <1>2, TeamScope DEF PlainLabels
<1>4. /\ UNCHANGED <<step, barrier, teamIndex>>
      /\ \A u \in Threads : u # t => w'[u] = w[u]
  BY <1>1 DEF TryOwn, TakeOwn, StealFromOther
<1>5. /\ Nothing \in Pairs /\ Nothing[1] = -1 /\ -1 \in Int
      /\ \A u \in Threads : /\ work[u][1] \in Int /\ work[u][2] - 1 \in Int
                            /\ w[u] \in Pairs
                            /\ \A x \in Int : [w[u] EXCEPT ![1] = x][1] = x
  BY <1>1, NothingPair, PairFields
<1>6. \/ /\ range' = range /\ at'[t].back = "none"
         /\ at'[t].label \in {"own", "steal"}
      \/ \E i \in Int : Got(t, i) /\ w'[t][1] = i
  <2>1. CASE TryOwn(t)
    <3>1. w'[t] = Nothing
      BY <1>1, <2>1 DEF TryOwn
    <3>2. \/ \E label \in {"own", "steal"} : Goto(t, At(label)) /\ range' = range
          \/ Got(t, -1)
      BY <2>1 DEF TryOwn
    <3>3. CASE \E label \in {"own", "steal"} : Goto(t, At(label)) /\ range' = range
      BY <1>1, <3>3 DEF Goto, At
    <3> QED
      BY <1>5, <3>1, <3>2, <3>3
  <2>2. CASE TakeOwn(t)
    <3>1. \/ Got(t, work[t][1]) /\ w' = [w EXCEPT ![t] = work[t]]
          \/ UNCHANGED <<at, range>> /\ at[t].label = "own"
          \/ Goto(t, At("steal")) /\ range' = range
          \/ Got(t, -1) /\ w' = [w EXCEPT ![t] = Nothing]
      BY <2>2 DEF TakeOwn
    <3>2. CASE Got(t, work[t][1]) /\ w' = [w EXCEPT ![t] = work[t]]
      <4>1. w'[t] = work[t]
        BY <1>1, <3>2
      <4> QED
        BY <1>5, <3>2, <4>1
    <3>3. CASE UNCHANGED <<at, range>> /\ at[t].label = "own"
      BY <1>3, <3>3
    <3>4. CASE Goto(t, At("steal")) /\ range' = range
      BY <1>1, <3>4 DEF Goto, At
    <3>5. CASE Got(t, -1) /\ w' = [w EXCEPT ![t] = Nothing]
      <4>1. w'[t] = Nothing
        BY <1>1, <3>5
      <4> QED
        BY <1>5, <3>5, <4>1
    <3> QED
      BY <3>1, <3>2, <3>3, <3>4, <3>5
  <2>3. CASE StealFromOther(t)
    <3> DEFINE i == work[steal[t]][2] - 1
    <3>1. i \in Int
      BY <1>1, <1>5
    <3>2. \/ Got(t, i) /\ w' = [w EXCEPT ![t] = [w[t] EXCEPT ![1] = i]]
          \/ UNCHANGED <<at, range>> /\ at[t].label = "steal"
          \/ Got(t, -1) /\ w' = [w EXCEPT ![t] = Nothing]
      BY <2>3 DEF StealFromOther
    <3> HIDE DEF i
    <3>3. CASE Got(t, i) /\ w' = [w EXCEPT ![t] = [w[t] EXCEPT ![1] = i]]
      <4>1. w'[t] = [w[t] EXCEPT ![1] = i]
        BY <1>1, <3>3
      <4>2. w'[t][1] = i
        BY <1>5, <3>1, <4>1
      <4> QED
        BY <3>1, <3>3, <4>2
    <3>4. CASE UNCHANGED <<at, range>> /\ at[t].label = "steal"
      BY <1>3, <3>4
    <3>5. CASE Got(t, -1) /\ w' = [w EXCEPT ![t] = Nothing]
      <4>1. w'[t] = Nothing
        BY <1>1, <3>5
      <4> QED
        BY <1>5, <3>5, <4>1
    <3> QED
      BY <3>2, <3>3, <3>4, <3>5
  <2> QED
    BY <2>1, <2>2, <2>3
<1> QED
  BY <1>2, <1>4, <1>6, SearchTurn

\* Nobody has begun.
LEMMA NobodyBegan ==
  ASSUME policy' \in Policies,
         \A t \in Threads :
           /\ at'[t].back = "none"
           /\ at'[t].label \in {"joined", "organize", "partition"}
           /\ range'[t] = <<0, 0>> /\ w'[t] = Nothing
  PROVE  /\ \A t \in Threads : InRange(t)' /\ Ended(t)' /\ Shared(t)'
         /\ \A t \in Threads : ~ Executing(t)' /\ ~ ToRead(t)'
         /\ \A t \in Threads : at'[t].label = "joined" => RoundRange(t)' = <<0, 0>>
         /\ \A t \in Threads : at'[t].label # "joined" =>
              /\ ~ Stopped(t)'
              /\ RoundRange(t)' = IF policy'.dynamic THEN <<0, 0>> ELSE Block(t)'
<1>1. \A t \in Threads : ~ Executing(t)' /\ ~ ToRead(t)'
  BY DEF Executing, ToRead
<1>2. \A t \in Threads : range'[t][1] = 0 /\ range'[t][2] = 0
  OBVIOUS
<1> QED
  BY <1>1, <1>2
  DEF InRange, Ended, AtTheEnd, Shared, RoundRange, Stopped, Over

LEMMA LaunchTurn ==
  ASSUME TurnInv, Launch, policy' \in Policies
  PROVE  Turns' /\ SameRound' /\ StopTogether'
<1>1. /\ policy' = Head(todo) /\ at' = [t \in Threads |-> Begin(Head(todo))]
      /\ range' = [t \in Threads |-> <<0, 0>>]
      /\ w' = [t \in Threads |-> Nothing]
  BY DEF Launch
<1>2. \A t \in Threads :
        /\ at'[t].back = "none" /\ at'[t].label \in {"organize", "partition"}
        /\ range'[t] = <<0, 0>> /\ w'[t] = Nothing
  BY <1>1 DEF Begin, At
<1>3. \A t \in Threads :
        /\ InRange(t)' /\ Ended(t)' /\ Shared(t)' /\ ~ Stopped(t)'
        /\ RoundRange(t)' = IF policy'.dynamic THEN <<0, 0>> ELSE Block(t)'
  BY <1>2, NobodyBegan
<1>4. Turns' /\ StopTogether'
  BY <1>2, <1>3 DEF Turns, Returned, StopTogether
<1>5. \A t, u \in Threads : Same(t, u)' => Block(t)' = Block(u)'
  <2> SUFFICES ASSUME NEW t \in Threads, NEW u \in Threads, Same(t, u)'
               PROVE  Block(t)' = Block(u)'
    OBVIOUS
  <2>1. Base(policy', t) = Base(policy', u)
    BY DEF Same, Master
  <2>2. League(policy', t) = League(policy', u)
    BY <2>1, LeagueIsTeam
  <2> QED
    BY <2>2 DEF Block
<1> QED
  BY <1>3, <1>4, <1>5 DEF SameRound

LEMMA TurnInvInit == Init => TurnInv
<1> SUFFICES ASSUME Init
             PROVE  TurnInv
  OBVIOUS
<1>1. TeamsInStep /\ policy \in Policies
  BY TeamsInStepInit DEF TeamsInStep, PoolInv, PoolTyping
<1>2. DataTypes
  BY NothingPair, PoolOfThreads DEF Init, DataTypes
<1>3. \A t \in Threads :
        /\ at[t].label = "joined" /\ at[t].back = "none"
        /\ range[t] = <<0, 0>> /\ TeamChunk(t) = -1
  <2>1. \A t \in Threads : Master(t) \in Threads
    BY <1>1, ThreadNumbers DEF Master
  <2> QED
    BY <2>1, NothingPair DEF Init, At, TeamChunk
<1>4. \A t \in Threads : ~ Executing(t) /\ ~ ToRead(t) /\ Over(t)
  BY <1>3 DEF Executing, ToRead, Over
<1>5. Turns
  BY <1>3, <1>4 DEF Turns, InRange, Ended, AtTheEnd, Shared, Returned
<1>6. SameRound /\ StopTogether
  BY <1>3, <1>4 DEF SameRound, RoundRange, StopTogether
<1> QED
  BY <1>1, <1>2, <1>5, <1>6 DEF TurnInv

LEMMA TurnInvNext == TurnInv /\ [Next]_teamVars => TurnInv'
<1> SUFFICES ASSUME TurnInv, [Next]_teamVars
             PROVE  TurnInv'
  OBVIOUS
<1>1. TeamsInStep' /\ DataTypes'
  BY TeamsInStepNext, DataTypesNext DEF TurnInv
<1>2. PoolInv /\ PoolInv' /\ policy' \in Policies
  BY <1>1 DEF TurnInv, TeamsInStep, PoolInv, PoolTyping
<1>3. ASSUME NEW t \in Threads, Thread(t)
      PROVE  Turns' /\ SameRound' /\ StopTogether'
  <2>1. CASE Barrier(t)
    <3>1. at[t] \in PoolLocations \cup TeamLocations
      BY <1>2, <2>1
      DEF PoolInv, PoolTyping, Barrier, Arrive, Signal, MasterWait, Wait, Clear,
          Release, Locations, PlainLocations, PlainLabels, At
    <3>2. CASE InPool(at[t])
      BY <1>2, <2>1, <3>2, PoolBarrierTurn
    <3>3. CASE ~ InPool(at[t])
      <4>1. at[t].scope = "team"
        BY <3>1, <3>3 DEF InPool, PoolLocations, TeamLocations
      <4> QED
        BY <2>1, <4>1, TeamBarrierTurn, ReleaseTurn
    <3> QED
      BY <3>2, <3>3
  <2>2. CASE ~ Barrier(t)
    BY <1>2, <1>3, <2>2, OrganizeTurn, PartitionTurn, StartStealingTurn,
       OwnBlockTurn, StealingTurn, ShareIndexTurn, ReadIndexTurn, RunItemTurn
    DEF Thread
  <2> QED
    BY <2>1, <2>2
<1>4. CASE Launch
  BY <1>1, <1>2, <1>4, LaunchTurn DEF TurnInv
<1>5. CASE UNCHANGED teamVars
  <2>1. \A t \in Threads : Still(t) /\ Shared(t)'
    BY <1>2, <1>5, SharedStays
    DEF teamVars, Still, TeamChunk, Master, Entered, TurnInv
  <2>2. policy' = policy
    BY <1>5 DEF teamVars
  <2>3. \A t \in Threads : InRange(t)' /\ Ended(t)' /\ Returned(t)'
    BY <1>2, <2>1, StillViews DEF TurnInv, Turns
  <2>4. Turns' /\ SameRound' /\ StopTogether'
    BY <1>2, <2>1, <2>2, <2>3, StillViews, TurnStep DEF TurnInv
  <2> QED
    BY <1>1, <2>4 DEF TurnInv
<1> QED
  BY <1>1, <1>3, <1>4, <1>5 DEF Next, TurnInv

\* The members of a team are in the same round of exec_team, at the same
\* iterations, whatever the others do: they meet before a member goes on.
THEOREM TurnInvariant == Spec => []TurnInv
<1> QED
  BY TurnInvInit, TurnInvNext, PTL DEF Spec

\* "Don't allow team members to lap one another": the members of a team that
\* execute an iteration execute the same one.
THEOREM NobodyLaps == Spec => []NoLapping
<1>1. TurnInv => NoLapping
  <2> SUFFICES ASSUME TurnInv, NEW t \in Threads, NEW u \in Threads,
                      at[t].label = "item", at[u].label = "item",
                      League(policy, t) = League(policy, u),
                      Active(policy, t), Active(policy, u)
               PROVE  range[t] = range[u]
    BY DEF NoLapping
  <2>1. policy \in Policies /\ PoolInv /\ SameRound
    BY DEF TurnInv, TeamsInStep, PoolInv, PoolTyping
  <2>2. Same(t, u)
    BY <2>1, LeagueIsTeam DEF Same, Master
  <2>3. at[t].back = "none" /\ at[u].back = "none"
    BY <2>1, TeamScope DEF PlainLabels
  <2>4. /\ ~ Stopped(t) /\ RoundRange(t) = range[t]
        /\ ~ Stopped(u) /\ RoundRange(u) = range[u]
    BY <2>3 DEF Stopped, Over, ToRead, Executing, RoundRange
  <2> QED
    BY <2>1, <2>2, <2>4 DEF SameRound
<1> QED
  BY <1>1, TurnInvariant, PTL

\* The types, with the invariant that keeps the counters of the barriers from
\* going below zero.
TypesInv == TeamsInStep /\ DataTypes /\ barrier \in [Places -> Counters]

\* Every variable of the pool keeps its type: the threads stay at the locations
\* of exec_range and exec_team, and no counter of a barrier becomes negative.
THEOREM TypesAreKept == Spec => []TypeOK
<1>1. Init => TypesInv
  BY TurnInvInit DEF TurnInv, TypesInv, Init, NewBarrier, Counters
<1>2. TypesInv /\ [Next]_teamVars => TypesInv'
  BY TeamsInStepNext, DataTypesNext, CountersNext DEF TypesInv
<1>3. TypesInv => TypeOK
  BY DEF TypesInv, TeamsInStep, PoolInv, PoolTyping, TypeOK
<1> QED
  BY <1>1, <1>2, <1>3, PTL DEF Spec

-----------------------------------------------------------------------------
(* The chunks and the masters.                                             *)

\* Nobody steals before every block is set.
LEMMA AllPartitioned ==
  ASSUME PoolInv, NEW t \in Threads, at[t].label \in {"try_own", "own", "steal"},
         NEW u \in Threads
  PROVE  Partitioned(u)
<1>1. /\ ~ InPool(at[t]) /\ at[t].back = "none" /\ policy.dynamic
  BY TeamScope DEF PlainLabels, InPool, PoolInv, Scheduled, ForStealing
<1>2. Ahead(policy, at[t]) = 0 /\ step[t].pool = Pool.wait
  BY <1>1 DEF Ahead, PoolInv, Rounds
<1>3. /\ step[u].pool + Ahead(policy, at[u]) = Pool.wait
      /\ step[u].pool \in {Pool.wait, Pool.wait + 1}
      /\ Ahead(policy, at[u]) \in Nat /\ Pool.wait \in Int
  <2>1. step[u].pool \in Nat /\ step[t].pool \in Nat /\ Pool.wait \in Int
    BY PoolNumbers DEF PoolInv
  <2>2. step[u].pool + Ahead(policy, at[u]) = step[t].pool + Ahead(policy, at[t])
    BY DEF PoolInv, InStep
  <2>3. step[u].pool \in {Pool.wait, Pool.wait + 1}
    BY DEF PoolInv, Rounds
  <2> QED
    BY <1>2, <2>1, <2>2, <2>3, AheadType
<1>4. Ahead(policy, at[u]) = 0
  BY <1>3
<1>5. CASE PoolSize = 1
  <2>1. t = u
    BY <1>5, TeamAssumption DEF Threads
  <2> QED
    BY <1>1, <2>1 DEF Partitioned
<1>6. CASE PoolSize # 1
  <2>1. PoolSize > 1
    BY <1>6, TeamAssumption
  <2>2. Dynamic(policy) = 1
    BY <1>1, <2>1 DEF Dynamic
  <2> QED
    BY <1>4, <2>1, <2>2 DEF Ahead, Partitioned
<1> QED
  BY <1>5, <1>6

\* The iterations of the chunks.
LEMMA ItersOf ==
  ASSUME policy \in Policies, NEW i \in Nat, NEW r, r \in Iters(i)
  PROVE  /\ r \in 0 .. policy.length - 1
         /\ i = r \div Chunk(policy)
         /\ ChunkRange(i)[1] <= r /\ r < ChunkRange(i)[2]
         /\ ChunkRange(i)[1] \in Int /\ ChunkRange(i)[2] \in Int
<1> DEFINE c == Chunk(policy)
           n == policy.length
           first == c * i
           end == IF first + c < n THEN first + c ELSE n
<1>1. c \in Nat \ {0} /\ n \in Nat
  BY PolicyNumbers
<1>2. ChunkRange(i) = <<first, end>>
  BY DEF ChunkRange
<1> HIDE DEF c
<1>3. first \in Nat /\ first = i * c
  BY <1>1
<1>4. end \in Int /\ end <= first + c /\ end <= n
  BY <1>1, <1>3
<1>5. ChunkRange(i)[1] = first /\ ChunkRange(i)[2] = end
  BY <1>2
<1>6. r \in Int /\ first <= r /\ r <= end - 1
  BY <1>3, <1>4, <1>5 DEF Iters
<1> HIDE DEF first, end, n
<1>7. r - first \in 0 .. c - 1 /\ r = i * c + (r - first)
  BY <1>1, <1>3, <1>4, <1>6
<1>8. r \div c = i
  BY <1>1, <1>7, DivModUnique
<1>9. r \in 0 .. n - 1 /\ r < end
  BY <1>1, <1>3, <1>4, <1>6
<1> QED
  BY <1>3, <1>4, <1>5, <1>6, <1>8, <1>9 DEF c, n

LEMMA ChunkOf ==
  ASSUME policy \in Policies, NEW r \in 0 .. policy.length - 1
  PROVE  r \div Chunk(policy) \in Chunks /\ r \in Iters(r \div Chunk(policy))
<1> DEFINE c == Chunk(policy)
           n == policy.length
           l == LeagueSize(policy)
           k == CeilDiv(n, c)
           P == CeilDiv(k, l)
           i == r \div c
<1>1. c \in Nat \ {0} /\ n \in Nat /\ l \in Nat \ {0} /\ r \in Nat /\ r < n
  BY PolicyNumbers, TeamNumbers
<1> HIDE DEF c, n, l
<1>2. k \in Nat /\ n <= k * c
  BY <1>1, CeilDivEnough
<1> HIDE DEF k
<1>3. P \in Nat /\ k <= P * l
  BY <1>1, <1>2, CeilDivEnough
<1>4. FirstChunk(policy, l) = P * l
  BY DEF FirstChunk, PartSize, P, k, l, c, n
<1> HIDE DEF P
<1>5. k * c \in Nat /\ P * l \in Nat
  BY <1>1, <1>2, <1>3
<1>6. r < k * c
  BY <1>1, <1>2, <1>5
<1>7. i \in Nat /\ i < k
  BY <1>1, <1>2, <1>6, DivLess, DivModDef
<1>8. i \in Chunks
  BY <1>2, <1>3, <1>4, <1>5, <1>7 DEF Chunks, l
<1>9. i * c \in Nat /\ i * c <= r /\ r < i * c + c
  <2>1. i * c <= r /\ r < (i + 1) * c
    BY <1>1, DivModDef
  <2> HIDE DEF i
  <2>2. (i + 1) * c = i * c + c /\ i * c \in Nat
    BY <1>1, <1>7
  <2> QED
    BY <2>1, <2>2
<1> DEFINE first == c * i
           end == IF first + c < n THEN first + c ELSE n
<1>10. ChunkRange(i) = <<first, end>>
  BY DEF ChunkRange, c, n
<1> HIDE DEF i
<1>11. first = i * c /\ first \in Nat
  BY <1>1, <1>7
<1>12. r < end /\ end \in Int /\ first <= r
  BY <1>1, <1>9, <1>11
<1> HIDE DEF first, end
<1>13. r \in first .. end - 1
  BY <1>1, <1>11, <1>12
<1>14. r \in Iters(i)
  BY <1>10, <1>13 DEF Iters
<1> QED
  BY <1>8, <1>14 DEF i, c

LEMMA ChunksNat == policy \in Policies => Chunks \subseteq Nat
  BY DEF Chunks

\* The first threads of the teams, one team apart.
LEMMA MasterNumbers ==
  ASSUME policy \in Policies, NEW m \in Threads, IsMaster(m)
  PROVE  /\ League(policy, m) \in 0 .. LeagueSize(policy) - 1
         /\ m = League(policy, m) * Alloc(policy)
         /\ m + policy.team <= PoolSize
<1>1. m = League(policy, m) * Alloc(policy) /\ Fits(policy, m)
  BY ThreadNumbers DEF IsMaster, Master, Active
<1> QED
  BY <1>1, ActiveLeague DEF IsMaster, Fits

LEMMA MastersApart ==
  ASSUME policy \in Policies, NEW m \in Threads, IsMaster(m),
         NEW k \in Threads, IsMaster(k), m < k
  PROVE  m + Alloc(policy) <= k /\ Fits(policy, m + Alloc(policy))
<1> DEFINE a == Alloc(policy)
           i == League(policy, m)
           j == League(policy, k)
<1>1. /\ i \in Nat /\ j \in Nat /\ a \in Nat \ {0} /\ m = i * a /\ k = j * a
      /\ k + policy.team <= PoolSize /\ PoolSize \in Nat /\ policy.team \in Nat
      /\ m \in Nat /\ k \in Nat
  <2>1. m = i * a /\ k = j * a /\ k + policy.team <= PoolSize
    BY MasterNumbers
  <2>2. i \in Nat /\ j \in Nat /\ m \in Nat /\ k \in Nat
    BY ThreadNumbers
  <2>3. a \in Nat \ {0} /\ PoolSize \in Nat /\ policy.team \in Nat
    BY TeamNumbers
  <2> QED
    BY <2>1, <2>2, <2>3
<1> HIDE DEF a, i, j
<1>2. i < j
  <2> SUFFICES ASSUME j <= i
               PROVE  FALSE
    BY <1>1
  <2>1. j * a <= i * a
    BY <1>1, MultMono
  <2> QED
    BY <1>1, <2>1
<1>3. (i + 1) * a <= j * a
  BY <1>1, <1>2, MultMono
<1>4. (i + 1) * a = i * a + a
  BY <1>1
<1>5. m + a <= k
  BY <1>1, <1>3, <1>4
<1>6. m + a + policy.team <= PoolSize
  BY <1>1, <1>5
<1> QED
  BY <1>5, <1>6 DEF Fits, a

LEMMA NextMaster ==
  ASSUME policy \in Policies, NEW m \in Threads, IsMaster(m)
  PROVE  /\ StealAfter(policy, m) \in Threads /\ IsMaster(StealAfter(policy, m))
         /\ \A k \in Threads : IsMaster(k) =>
              IF StealAfter(policy, m) = 0
                THEN k <= m
                ELSE m < StealAfter(policy, m) /\ (m < k => StealAfter(policy, m) <= k)
<1> DEFINE a == Alloc(policy)
           i == League(policy, m)
<1>1. /\ i \in Nat /\ a \in Nat \ {0} /\ m = i * a /\ m \in Nat
      /\ PoolSize \in Nat \ {0} /\ policy.team \in 1 .. PoolSize
      /\ LeagueSize(policy) \in Nat \ {0}
  BY MasterNumbers, ThreadNumbers, TeamNumbers
<1>2. 0 \in Threads /\ IsMaster(0)
  <2>1. 0 \in 0 .. LeagueSize(policy) - 1 /\ 0 * Alloc(policy) = 0
    BY <1>1
  <2> QED
    BY <2>1, LeagueMaster
<1>3. CASE Fits(policy, m + a)
  <2>1. StealAfter(policy, m) = m + a /\ m + a \in Threads
    BY <1>1, <1>3 DEF StealAfter, Fits, Threads
  <2>2. m + a = (i + 1) * a + 0 /\ 0 \in 0 .. a - 1 /\ (i + 1) * a = m + a
    <3> HIDE DEF i, a
    <3> QED
      BY <1>1
  <2>3. Base(policy, m + a) = m + a /\ (m + a) % a = 0
    BY <1>1, <2>1, <2>2, BaseOf
  <2>4. IsMaster(m + a)
    BY <1>1, <1>3, <2>3 DEF IsMaster, Master, Active
  <2> QED
    BY <1>1, <2>1, <2>4, MastersApart
<1>4. CASE ~ Fits(policy, m + a)
  <2>1. StealAfter(policy, m) = 0
    BY <1>4 DEF StealAfter
  <2>2. \A k \in Threads : k \in Nat
    BY PoolOfThreads
  <2>3. \A k \in Threads : IsMaster(k) => k <= m
    BY <1>1, <1>4, <2>2, MastersApart
  <2> QED
    BY <1>2, <2>1, <2>3
<1> QED
  BY <1>3, <1>4

\* Whom a thief has gone past when it goes on from v.
LEMMA GoneOn ==
  ASSUME policy \in Policies, NEW t \in Threads, IsMaster(t),
         NEW v \in Threads, IsMaster(v), NEW m \in Threads, IsMaster(m),
         NEW s, s = StealAfter(policy, v),
         IF t < s THEN t < m /\ m < s ELSE t < m \/ m < s
  PROVE  \/ v # t /\ m = v
         \/ v # t /\ IF t < v THEN t < m /\ m < v ELSE t < m \/ m < v
         \/ v = t /\ FALSE
<1>1. t \in Nat /\ v \in Nat /\ m \in Nat /\ s \in Nat
  BY NextMaster, PoolOfThreads
<1>2. /\ s = 0 => m <= v /\ t <= v
      /\ s # 0 => v < s /\ (v < m => s <= m) /\ (v < t => s <= t)
  BY NextMaster
<1> QED
  BY <1>1, <1>2

-----------------------------------------------------------------------------
(* The account of the iterations.                                          *)

\* A step after which u has executed of the chunk i what it had before.
CarriedAt(u, i) ==
  /\ Holds(u, i)' => Holds(u, i)
  /\ \A r \in Iters(i) :
       /\ Behind(u, i, r)' <=> Behind(u, i, r)
       /\ executed'[r][u] = executed[r][u]

LEMMA ChunkCarried ==
  ASSUME policy' = policy, NEW i, \A u \in Threads : CarriedAt(u, i)
  PROVE  /\ Untaken(i) => Untaken(i)'
         /\ \A m : TakenBy(m, i) => TakenBy(m, i)'
<1>1. Iters(i)' = Iters(i)
  BY DEF Iters, ChunkRange
<1>2. \A u : Master(u)' = Master(u)
  BY DEF Master
<1>3. Untaken(i) => Untaken(i)'
  BY <1>1 DEF Untaken, CarriedAt
<1>4. ASSUME NEW m, TakenBy(m, i)
      PROVE  TakenBy(m, i)'
  BY <1>1, <1>2, <1>4 DEF TakenBy, CarriedAt
<1> QED
  BY <1>3, <1>4

\* While the blocks stay, and what is executed of every chunk.
LEMMA ChunksCarried ==
  ASSUME policy' = policy, EveryChunk,
         \A m \in Threads : IsMaster(m) => Left(m)' = Left(m),
         \A u \in Threads : \A i \in Chunks : CarriedAt(u, i)
  PROVE  EveryChunk'
<1>1. /\ Chunks' = Chunks
      /\ \A m : IsMaster(m)' <=> IsMaster(m)
  BY DEF Chunks, IsMaster, Master
<1> SUFFICES ASSUME NEW i \in Chunks
             PROVE  IF \E m \in Threads : IsMaster(m)' /\ i \in Left(m)'
                      THEN Untaken(i)'
                      ELSE \E m \in Threads : IsMaster(m)' /\ TakenBy(m, i)'
  BY <1>1 DEF EveryChunk
<1>2. /\ Untaken(i) => Untaken(i)'
      /\ \A m : TakenBy(m, i) => TakenBy(m, i)'
  BY ChunkCarried
<1>3. IF \E m \in Threads : IsMaster(m) /\ i \in Left(m)
        THEN Untaken(i)
        ELSE \E m \in Threads : IsMaster(m) /\ TakenBy(m, i)
  BY DEF EveryChunk
<1> QED
  BY <1>1, <1>2, <1>3

LEMMA KeptCarried ==
  ASSUME NEW u \in Threads, Kept(u), executed' = executed, NEW i
  PROVE  CarriedAt(u, i)
  BY DEF Kept, CarriedAt, Holds, Behind

LEMMA KeptGivenUp ==
  ASSUME NEW u \in Threads, Kept(u), Active(policy, u)
  PROVE  GivenUp(u)' <=> GivenUp(u)
  BY DEF Kept, GivenUp

LEMMA LeftSame ==
  ASSUME policy' = policy, NEW m \in Threads, work'[m] = work[m],
         Partitioned(m)' <=> Partitioned(m)
  PROVE  Left(m)' = Left(m)
  BY DEF Left, FirstChunk, League

\* A step that leaves the blocks and the thieves.
LEMMA QuietBlocks ==
  ASSUME TurnInv, DynamicAccount, policy.dynamic, NEW t \in Threads, Moves(t),
         UNCHANGED <<work, steal, w>>,
         \A u \in Threads : Active(policy, u) /\ GivenUp(u)' => GivenUp(u),
         Partitioned(t)' <=> Partitioned(t),
         at'[t].label \in {"own", "steal"} => at'[t].label = at[t].label
  PROVE  /\ Blocks' /\ Thieves' /\ NothingLeft'
         /\ \A m \in Threads : Left(m)' = Left(m)
<1>1. /\ policy' = policy /\ \A u \in Threads : u # t => at'[u] = at[u]
      /\ EveryChunk /\ Blocks /\ Thieves /\ NothingLeft
  BY DEF Moves, TurnInv, TeamsInStep, PoolInv, PoolTyping, DynamicAccount
<1>2. \A u \in Threads : Partitioned(u)' <=> Partitioned(u)
  BY <1>1 DEF Partitioned
<1>3. \A m \in Threads : Left(m)' = Left(m)
  BY <1>1, <1>2, LeftSame
<1>4. /\ \A m : IsMaster(m)' <=> IsMaster(m)
      /\ \A m : League(policy, m)' = League(policy, m)
      /\ \A l : FirstChunk(policy, l)' = FirstChunk(policy, l)
  BY <1>1 DEF IsMaster, Master, League, FirstChunk
<1>6. Blocks'
  <2> SUFFICES ASSUME NEW m \in Threads, IsMaster(m), Partitioned(m)
               PROVE  /\ FirstChunk(policy, League(policy, m))' <= work'[m][1]
                      /\ work'[m][1] <= work'[m][2]
                      /\ work'[m][2] <= FirstChunk(policy, League(policy, m) + 1)'
    BY <1>2, <1>4 DEF Blocks
  <2> QED
    BY <1>1 DEF Blocks, FirstChunk, League
<1>7. Thieves'
  <2> SUFFICES ASSUME NEW u \in Threads, IsMaster(u), Partitioned(u)
               PROVE  /\ IsMaster(steal[u])'
                      /\ \A m \in Threads :
                           IsMaster(m) /\ Passed(u, m)' => Left(m)' = {}
                      /\ at'[u].label \in {"own", "steal"} =>
                           w'[u] = Nothing \/ w'[u][1] < w'[u][2]
                      /\ at'[u].label = "steal" => steal'[u] # u /\ Left(u)' = {}
    BY <1>2, <1>4 DEF Thieves
  <2>1. /\ IsMaster(steal[u])
        /\ \A m \in Threads : IsMaster(m) /\ Passed(u, m) => Left(m) = {}
        /\ at[u].label \in {"own", "steal"} => w[u] = Nothing \/ w[u][1] < w[u][2]
        /\ at[u].label = "steal" => steal[u] # u /\ Left(u) = {}
    BY <1>1 DEF Thieves
  <2>2. at'[u].label \in {"own", "steal"} => at'[u].label = at[u].label
    BY <1>1
  <2>3. \A m \in Threads : Passed(u, m)' <=> Passed(u, m)
    BY DEF Passed
  <2>4. IsMaster(steal[u])' <=> IsMaster(steal[u])
    BY <1>1 DEF IsMaster, Master
  <2> QED
    BY <1>1, <1>3, <1>4, <2>1, <2>2, <2>3, <2>4
<1>8. NothingLeft'
  BY <1>1, <1>3, <1>4 DEF NothingLeft
<1> QED
  BY <1>3, <1>6, <1>7, <1>8

LEMMA QuietAccount ==
  ASSUME TurnInv, DynamicAccount, policy.dynamic, NEW t \in Threads, Moves(t),
         UNCHANGED <<work, steal, w>>,
         \A u \in Threads : \A i \in Chunks : CarriedAt(u, i),
         \A u \in Threads : Active(policy, u) /\ GivenUp(u)' => GivenUp(u),
         Partitioned(t)' <=> Partitioned(t),
         at'[t].label \in {"own", "steal"} => at'[t].label = at[t].label
  PROVE  DynamicAccount'
<1>1. EveryChunk /\ policy' = policy
  BY DEF DynamicAccount, Moves
<1>2. /\ Blocks' /\ Thieves' /\ NothingLeft'
      /\ \A m \in Threads : Left(m)' = Left(m)
  BY QuietBlocks
<1>3. EveryChunk'
  BY <1>1, <1>2, ChunksCarried
<1> QED
  BY <1>2, <1>3 DEF DynamicAccount

\* With the static schedule.
LEMMA StaticQuiet ==
  ASSUME StaticAccount, policy' = policy, executed' = executed,
         \A u \in Threads : Kept(u)
  PROVE  StaticAccount'
<1> SUFFICES ASSUME ~ policy.dynamic, NEW u \in Threads,
                    NEW r \in 0 .. policy.length - 1
             PROVE  executed'[r][u] =
                      IF /\ Active(policy, u)
                         /\ Block(u)'[1] <= r /\ r < Block(u)'[2]
                         /\ \/ at'[u].label = "joined"
                            \/ Executing(u)' /\ r < range'[u][1]
                        THEN 1 ELSE 0
  BY DEF StaticAccount
<1>1. Block(u)' = Block(u)
  BY DEF Block
<1>2. executed[r][u] =
        IF /\ Active(policy, u)
           /\ Block(u)[1] <= r /\ r < Block(u)[2]
           /\ \/ at[u].label = "joined"
              \/ Executing(u) /\ r < range[u][1]
          THEN 1 ELSE 0
  BY DEF StaticAccount
<1>3. Active(policy, u) =>
        ( \/ at'[u].label = "joined"
          \/ Executing(u)' /\ r < range'[u][1] )
          <=> ( \/ at[u].label = "joined"
                \/ Executing(u) /\ r < range[u][1] )
  BY DEF Kept
<1> QED
  BY <1>1, <1>2, <1>3

LEMMA KeptAccount ==
  ASSUME TurnInv, DynamicAccount, StaticAccount, NEW t \in Threads, Moves(t),
         UNCHANGED <<work, steal, w, executed>>, \A u \in Threads : Kept(u),
         Partitioned(t)' <=> Partitioned(t),
         at'[t].label \in {"own", "steal"} => at'[t].label = at[t].label
  PROVE  DynamicAccount' /\ StaticAccount'
<1>1. policy' = policy
  BY DEF Moves
<1>2. StaticAccount'
  BY <1>1, StaticQuiet
<1>3. CASE policy.dynamic
  <2>1. \A u \in Threads : \A i \in Chunks : CarriedAt(u, i)
    BY KeptCarried
  <2>2. \A u \in Threads : Active(policy, u) /\ GivenUp(u)' => GivenUp(u)
    BY KeptGivenUp
  <2> QED
    BY <1>2, <1>3, <2>1, <2>2, QuietAccount
<1>4. CASE ~ policy.dynamic
  BY <1>1, <1>2, <1>4 DEF DynamicAccount
<1> QED
  BY <1>3, <1>4

LEMMA ChunkLocation ==
  ASSUME NEW i
  PROVE  /\ WithChunk(i).label \in {"joined", "item", "try_own", "arrive"}
         /\ WithChunk(i).back \in {"none", "take"}
         /\ i < 0 => WithChunk(i).label = "joined"
         /\ ~ i < 0 => WithChunk(i).label # "joined"
  BY TakeLocation DEF WithChunk, At

\* A thread that goes on with the chunk its team has.
LEMMA ChunkGoesOn ==
  ASSUME policy \in Policies, policy' = policy, executed' = executed,
         NEW u \in Threads, HasTurn(u), ~ Executing(u),
         NEW i \in Int, TeamChunk(u) = i, TeamChunk(u)' = i,
         at'[u] = WithChunk(i), i >= 0 => range'[u] = ChunkRange(i)
  PROVE  /\ \A j \in Chunks : CarriedAt(u, j)
         /\ Active(policy, u) /\ GivenUp(u)' => GivenUp(u)
<1>1. Active(policy, u) /\ GivenUp(u)' => GivenUp(u)
  BY DEF GivenUp
<1>2. ASSUME NEW j \in Chunks, j # i
      PROVE  CarriedAt(u, j)
  BY <1>2 DEF CarriedAt, Holds, Behind
<1>3. ASSUME i \in Chunks
      PROVE  CarriedAt(u, i)
  <2>1. i \in Nat /\ Holds(u, i)
    BY <1>3, ChunksNat DEF Holds
  <2>2. ASSUME NEW r \in Iters(i)
        PROVE  ~ Behind(u, i, r) /\ ~ Behind(u, i, r)'
    <3>1. /\ ChunkRange(i)[1] <= r /\ r < ChunkRange(i)[2] /\ r \in Int
          /\ ChunkRange(i)[1] \in Int /\ ChunkRange(i)[2] \in Int
      BY <2>1, <2>2, ItersOf
    <3>2. at'[u] = At("item") /\ range'[u] = ChunkRange(i)
      BY <2>1, <3>1 DEF WithChunk
    <3>3. at'[u].label = "item"
      BY <3>2 DEF At
    <3>4. Executing(u)' /\ HasTurn(u)'
      BY <3>3 DEF Executing, HasTurn
    <3>5. Holds(u, i)' /\ ~ r < range'[u][1]
      BY <3>1, <3>2, <3>4 DEF Holds
    <3> QED
      BY <2>1, <3>5 DEF Behind
  <2> QED
    BY <2>1, <2>2 DEF CarriedAt
<1> QED
  BY <1>1, <1>2, <1>3

LEMMA BarrierPartitioned ==
  ASSUME TurnInv, NEW t \in Threads, Barrier(t)
  PROVE  /\ Moves(t)
         /\ Partitioned(t)' <=> Partitioned(t)
         /\ at'[t].label \notin {"own", "steal"}
         /\ UNCHANGED <<work, steal, w, executed, teamIndex>>
<1>1. /\ PoolInv /\ Whereabouts /\ at \in [Threads -> Locations]
      /\ at[t] \in PoolLocations \cup TeamLocations
  BY DEF TurnInv, TeamsInStep, PoolInv, PoolTyping, Barrier, Arrive, Signal,
         MasterWait, Wait, Clear, Release, Locations, PlainLocations,
         PlainLabels, At
<1>2. Moves(t)
  BY <1>1, BarrierPlaced
<1>3. UNCHANGED <<work, steal, w, executed, teamIndex>>
  BY DEF Barrier, Arrive, Signal, MasterWait, Wait, Clear, Release
<1>4. \/ at'[t].back = at[t].back /\ at'[t].label \notin {"organize", "partition", "own", "steal"}
      \/ at'[t] = At(at[t].back) /\ at[t].back # "take"
      \/ at[t].back = "take" /\ at'[t] \in {At("try_own"), At("read_index")}
      \/ at[t].back = "chunk" /\ \E i : at'[t] = WithChunk(i)
  BY <1>1
  DEF Barrier, Arrive, Signal, MasterWait, Wait, Clear, Release, Goto,
      PoolLocations, TeamLocations
<1>5. /\ at[t].label \notin {"organize", "partition"}
      /\ at[t].back \in {"partition", "partitioned", "take", "item", "chunk"}
  BY <1>1 DEF PoolLocations, TeamLocations
<1>6. CASE at[t].back = "chunk" /\ \E i : at'[t] = WithChunk(i)
  <2>1. at'[t].label \notin {"organize", "partition", "own", "steal"} /\ at'[t].back # "partition"
    BY <1>6, ChunkLocation
  <2> QED
    BY <1>2, <1>3, <1>5, <1>6, <2>1 DEF Partitioned
<1>7. CASE ~ (at[t].back = "chunk" /\ \E i : at'[t] = WithChunk(i))
  BY <1>2, <1>3, <1>4, <1>5, <1>7 DEF Partitioned, At
<1> QED
  BY <1>6, <1>7

LEMMA BarrierAccount ==
  ASSUME TurnInv, DynamicAccount, StaticAccount, NEW t \in Threads, Barrier(t),
         PoolInv'
  PROVE  DynamicAccount' /\ StaticAccount'
<1>1. /\ PoolInv /\ policy \in Policies /\ w \in [Threads -> Pairs]
      /\ range \in [Threads -> Pairs] /\ Whereabouts
      /\ at[t] \in PoolLocations \cup TeamLocations
      /\ at \in [Threads -> Locations] /\ TeamsInStep
  BY DEF TurnInv, DataTypes, TeamsInStep, PoolInv, PoolTyping, Barrier, Arrive,
         Signal, MasterWait, Wait, Clear, Release, Locations, PlainLocations,
         PlainLabels, At
<1>2. /\ Moves(t) /\ policy' = policy
      /\ Partitioned(t)' <=> Partitioned(t)
      /\ at'[t].label \notin {"own", "steal"}
      /\ UNCHANGED <<work, steal, w, executed, teamIndex>>
  BY BarrierPartitioned DEF Moves
<1>3. ASSUME \A u \in Threads : Kept(u)
      PROVE  DynamicAccount' /\ StaticAccount'
  BY <1>2, <1>3, KeptAccount
<1>4. CASE InPool(at[t])
  BY <1>1, <1>3, <1>4, PoolBarrierTurn
<1>5. CASE ~ InPool(at[t])
  <2>1. at[t].scope = "team" /\ at[t] \in TeamLocations
    BY <1>1, <1>5 DEF InPool, PoolLocations, TeamLocations
  <2>2. CASE ~ Release(t) \/ at[t].back = "item"
    BY <1>3, <2>1, <2>2, TeamBarrierTurn, ReleaseTurn
  <2>3. CASE Release(t) /\ at[t].back # "item"
    <3> DEFINE i == w[t][1]
    <3>1. at[t].label = "release" /\ at[t].back = "chunk"
      BY <2>1, <2>3 DEF Release, TeamLocations
    <3>2. \A u \in Threads : u # t => Kept(u)
      BY <2>1, <2>3, ReleaseTurn
    <3>3. /\ policy.dynamic /\ policy.team > 1 /\ Active(policy, t)
          /\ Master(t) = t
      BY <1>1, <2>1, <3>1
      DEF PoolInv, Scheduled, ForStealing, Whereabouts, Placed, InTeam, OfTeams,
          TeamPart, Master
    <3>4. HasTurn(t) /\ ~ Executing(t)
      BY <3>1, <3>3 DEF HasTurn, Sharing, Executing
    <3>5. at' = [at EXCEPT ![t] = WithChunk(i)] /\ range' = [range EXCEPT ![t] = ChunkRange(i)]
      BY <2>3, <3>1 DEF Release, Goto
    <3>6. at'[t] = WithChunk(i) /\ range'[t] = ChunkRange(i)
      BY <1>1, <3>5
    <3>7. i \in Int /\ TeamChunk(t) = i /\ TeamChunk(t)' = i
      BY <1>1, <1>2, <3>3, PairFields DEF TeamChunk, Master
    <3> HIDE DEF i
    <3>8. /\ \A j \in Chunks : CarriedAt(t, j)
          /\ Active(policy, t) /\ GivenUp(t)' => GivenUp(t)
      BY <1>1, <1>2, <3>4, <3>6, <3>7, ChunkGoesOn
    <3>9. \A u \in Threads : \A j \in Chunks : CarriedAt(u, j)
      BY <1>2, <3>2, <3>8, KeptCarried
    <3>10. \A u \in Threads : Active(policy, u) /\ GivenUp(u)' => GivenUp(u)
      BY <3>2, <3>8, KeptGivenUp
    <3>11. StaticAccount'
      BY <1>2, <3>3 DEF StaticAccount
    <3> QED
      BY <1>2, <3>3, <3>9, <3>10, <3>11, QuietAccount
  <2> QED
    BY <2>2, <2>3
<1> QED
  BY <1>4, <1>5

LEMMA QuietWorkAccount ==
  ASSUME TurnInv, DynamicAccount, StaticAccount, NEW t \in Threads, PoolInv',
         Organize(t) \/ StartStealing(t) \/ ShareIndex(t)
  PROVE  DynamicAccount' /\ StaticAccount'
<1>1. /\ PoolInv /\ Whereabouts /\ at \in [Threads -> Locations]
  BY DEF TurnInv, TeamsInStep, PoolInv, PoolTyping
<1>2. Moves(t) /\ UNCHANGED <<work, steal, w, executed>>
  BY <1>1, WorkPlaced, StealingPlaced DEF Organize, StartStealing, ShareIndex
<1>3. \A u \in Threads : Kept(u)
  BY OrganizeTurn, StartStealingTurn, ShareIndexTurn
<1>4. /\ Partitioned(t)' <=> Partitioned(t)
      /\ at'[t].label \notin {"own", "steal"}
  <2>1. CASE Organize(t)
    <3>1. at[t].label = "organize" /\ at'[t] = Rendezvous("pool", "partition")
      BY <1>1, <2>1 DEF Organize, Goto
    <3> QED
      BY <3>1 DEF Partitioned, Rendezvous, At
  <2>2. CASE StartStealing(t)
    <3>1. at[t].label = "partitioned" /\ at'[t] \in {Take, At("joined")}
      BY <1>1, <2>2 DEF StartStealing, Goto
    <3>2. at[t].back = "none"
      BY <1>1, <3>1, TeamScope DEF PlainLabels
    <3>3. at'[t].label \in {"try_own", "arrive", "joined"} /\ at'[t].back \in {"none", "take"}
      BY <3>1, TakeLocation DEF At
    <3> QED
      BY <3>1, <3>2, <3>3 DEF Partitioned
  <2>3. CASE ShareIndex(t)
    <3>1. at[t].label = "share" /\ at'[t].label = "clear" /\ at'[t].back = "chunk"
      BY <1>1, <2>3 DEF ShareIndex, Goto
    <3>2. at[t].back = "none"
      BY <1>1, <3>1, TeamScope DEF PlainLabels
    <3> QED
      BY <3>1, <3>2 DEF Partitioned
  <2> QED
    BY <2>1, <2>2, <2>3
<1> QED
  BY <1>2, <1>3, <1>4, KeptAccount

LEMMA ReadIndexAccount ==
  ASSUME TurnInv, DynamicAccount, StaticAccount, NEW t \in Threads, ReadIndex(t)
  PROVE  DynamicAccount' /\ StaticAccount'
<1> DEFINE i == teamIndex[Base(policy, t)]
<1>1. /\ PoolInv /\ Whereabouts /\ at \in [Threads -> Locations]
      /\ range \in [Threads -> Pairs] /\ teamIndex \in [Threads -> Int]
      /\ policy \in Policies /\ at[t].label = "read_index" /\ at[t].back = "none"
      /\ policy.dynamic /\ Shared(t)
  <2>1. PoolInv /\ at[t].label = "read_index" /\ Shared(t)
    BY DEF TurnInv, TeamsInStep, ReadIndex, Turns
  <2>2. at[t].back = "none" /\ policy.dynamic
    BY <2>1, TeamScope DEF PlainLabels, PoolInv, Scheduled, ForStealing
  <2> QED
    BY <2>1, <2>2 DEF TurnInv, TeamsInStep, PoolInv, PoolTyping, DataTypes
<1>2. Moves(t) /\ policy' = policy
  BY <1>1, StealingPlaced DEF Moves
<1>3. UNCHANGED <<w, teamIndex, step, barrier, work, steal, executed>>
  BY DEF ReadIndex
<1>4. ToRead(t) /\ HasTurn(t) /\ ~ Executing(t) /\ ~ Sharing(t)
  BY <1>1 DEF Executing, ToRead, HasTurn, Sharing
<1>5. i \in Int /\ TeamChunk(t) = i /\ TeamChunk(t)' = i
  <2>1. i \in Int
    BY <1>1, ThreadNumbers
  <2>2. TeamChunk(t) = i
    BY <1>1, <1>4 DEF Shared, Master
  <2>3. TeamChunk(t)' = TeamChunk(t)
    BY <1>2, <1>3 DEF TeamChunk, Master
  <2> QED
    BY <2>1, <2>2, <2>3
<1>6. /\ at' = [at EXCEPT ![t] = WithChunk(i)]
      /\ range' = [range EXCEPT ![t] = IF i < 0 THEN @ ELSE ChunkRange(i)]
  BY DEF ReadIndex, Goto
<1> HIDE DEF i
<1>7. /\ at'[t] = WithChunk(i)
      /\ i >= 0 => range'[t] = ChunkRange(i)
      /\ \A u \in Threads : u # t => range'[u] = range[u] /\ at'[u] = at[u]
  BY <1>1, <1>5, <1>6
<1>8. /\ \A j \in Chunks : CarriedAt(t, j)
      /\ Active(policy, t) /\ GivenUp(t)' => GivenUp(t)
  BY <1>1, <1>2, <1>3, <1>4, <1>5, <1>7, ChunkGoesOn
<1>9. /\ at'[t].label \in {"joined", "item", "try_own", "arrive"}
      /\ at'[t].back \in {"none", "take"}
  BY <1>7, ChunkLocation
<1>10. ASSUME NEW u \in Threads, u # t
       PROVE  Kept(u)
  <2>1. Still(u)
    BY <1>1, <1>2, <1>3, <1>7, <1>10, StillOther
  <2>2. /\ Executing(u)' <=> Executing(u)
        /\ ToRead(u)' <=> ToRead(u)
    BY <1>1, <2>1, StillViews
  <2>3. Master(u)' = Master(u) /\ TeamChunk(u)' = TeamChunk(u)
    BY <1>2, <1>3 DEF TeamChunk, Master
  <2>4. Sharing(Master(u))' <=> Sharing(Master(u))
    <3>1. Sharing(t)' <=> Sharing(t)
      BY <1>4, <1>9 DEF Sharing
    <3>2. Master(u) \in Threads
      BY <1>1, ThreadNumbers DEF Master
    <3>3. \A v \in Threads : Sharing(v)' <=> Sharing(v)
      BY <1>7, <3>1 DEF Sharing
    <3> QED
      BY <2>3, <3>2, <3>3 DEF Sharing
  <2> QED
    BY <1>2, <1>7, <1>10, <2>2, <2>3, <2>4 DEF Kept, HasTurn
<1>11. \A u \in Threads : \A j \in Chunks : CarriedAt(u, j)
  BY <1>3, <1>8, <1>10, KeptCarried
<1>12. \A u \in Threads : Active(policy, u) /\ GivenUp(u)' => GivenUp(u)
  BY <1>8, <1>10, KeptGivenUp
<1>13. /\ Partitioned(t)' <=> Partitioned(t)
       /\ at'[t].label \notin {"own", "steal"}
  BY <1>1, <1>9 DEF Partitioned
<1>14. StaticAccount'
  BY <1>1, <1>2 DEF StaticAccount
<1> QED
  BY <1>1, <1>2, <1>3, <1>11, <1>12, <1>13, <1>14, QuietAccount

\* The policy decides what does not change with the chunks.
LEMMA SamePolicy ==
  ASSUME policy' = policy
  PROVE  /\ \A m : IsMaster(m)' <=> IsMaster(m)
         /\ \A m : Master(m)' = Master(m)
         /\ \A m : League(policy, m)' = League(policy, m)
         /\ \A l : FirstChunk(policy, l)' = FirstChunk(policy, l)
         /\ \A i : Iters(i)' = Iters(i)
         /\ \A i : ChunkRange(i)' = ChunkRange(i)
         /\ \A u : Block(u)' = Block(u)
         /\ Chunks' = Chunks
  BY DEF IsMaster, Master, League, FirstChunk, Iters, ChunkRange, Block, Chunks

LEMMA NextFirstChunk ==
  ASSUME policy \in Policies, NEW l \in Nat
  PROVE  /\ FirstChunk(policy, l) \in Nat /\ FirstChunk(policy, l + 1) \in Nat
         /\ FirstChunk(policy, l) <= FirstChunk(policy, l + 1)
<1> DEFINE P == PartSize(policy.length, Chunk(policy), LeagueSize(policy))
<1>1. P \in Nat
  BY PolicyNumbers
<1>2. FirstChunk(policy, l) = P * l /\ FirstChunk(policy, l + 1) = P * (l + 1)
  BY DEF FirstChunk
<1> HIDE DEF P
<1>3. P * l \in Nat /\ P * (l + 1) = P * l + P
  BY <1>1
<1> QED
  BY <1>1, <1>2, <1>3

LEMMA PartitionAccount ==
  ASSUME TurnInv, DynamicAccount, StaticAccount, NEW t \in Threads, PoolInv',
         SetWorkPartition(t)
  PROVE  DynamicAccount' /\ StaticAccount'
<1> DEFINE l == League(policy, t)
<1>1. /\ PoolInv /\ Whereabouts /\ at \in [Threads -> Locations]
      /\ policy \in Policies /\ at[t].label = "partition"
      /\ work \in [Threads -> Pairs] /\ steal \in [Threads -> Threads]
  BY DEF TurnInv, TeamsInStep, PoolInv, PoolTyping, SetWorkPartition, DataTypes
<1>2. Moves(t) /\ policy' = policy /\ \A u \in Threads : u # t => at'[u] = at[u]
  BY <1>1, WorkPlaced DEF Moves
<1>3. /\ UNCHANGED <<w, executed>> /\ at'[t] = AfterPartition(t)
      /\ \A u \in Threads : u # t => work'[u] = work[u] /\ steal'[u] = steal[u]
      /\ Active(policy, t) =>
           /\ work'[t] = <<FirstChunk(policy, l), FirstChunk(policy, l + 1)>>
           /\ steal'[t] = StealAfter(policy, Base(policy, t))
  BY <1>1 DEF SetWorkPartition, Goto
<1>4. \A u \in Threads : Kept(u)
  BY PartitionTurn
<1>5. StaticAccount'
  BY <1>2, <1>3, <1>4, StaticQuiet
<1>6. CASE policy.dynamic
  <2>1. /\ ~ Partitioned(t) /\ Partitioned(t)'
        /\ at'[t].label \notin {"own", "steal"}
    BY <1>1, <1>3, <1>6 DEF AfterPartition, Rendezvous, At, Partitioned
  <2>2. /\ EveryChunk /\ Blocks /\ Thieves /\ NothingLeft
    BY <1>6 DEF DynamicAccount
  <2>3. \A u \in Threads : u # t => (Partitioned(u)' <=> Partitioned(u))
    BY <1>2 DEF Partitioned
  <2>4. \A m \in Threads : IsMaster(m) => Left(m)' = Left(m)
    <3>1. \A m \in Threads : m # t => Left(m)' = Left(m)
      BY <1>2, <1>3, <2>3, LeftSame
    <3>2. IsMaster(t) => Left(t)' = Left(t)
      <4>1. IsMaster(t) => work'[t][1] = FirstChunk(policy, l) /\ work'[t][2] = FirstChunk(policy, l + 1)
        BY <1>3 DEF IsMaster
      <4> QED
        BY <2>1, <4>1 DEF Left
    <3> QED
      BY <3>1, <3>2
  <2>5. EveryChunk'
    BY <1>2, <1>3, <1>4, <2>2, <2>4, ChunksCarried, KeptCarried
  <2>6. NothingLeft'
    <3>1. \A u \in Threads : Active(policy, u) => (GivenUp(u)' <=> GivenUp(u))
      BY <1>4, KeptGivenUp
    <3> QED
      BY <1>2, <2>2, <2>4, <3>1, SamePolicy DEF NothingLeft
  <2>7. Blocks'
    <3> SUFFICES ASSUME NEW m \in Threads, IsMaster(m), Partitioned(m)'
                 PROVE  /\ FirstChunk(policy, League(policy, m)) <= work'[m][1]
                        /\ work'[m][1] <= work'[m][2]
                        /\ work'[m][2] <= FirstChunk(policy, League(policy, m) + 1)
      BY <1>2, SamePolicy DEF Blocks, FirstChunk, League
    <3>1. CASE m = t
      <4>1. /\ work'[t][1] = FirstChunk(policy, l)
            /\ work'[t][2] = FirstChunk(policy, l + 1)
        BY <1>3, <3>1 DEF IsMaster
      <4>2. l \in Nat
        BY <1>1, ThreadNumbers
      <4> QED
        BY <1>1, <3>1, <4>1, <4>2, NextFirstChunk
    <3>2. CASE m # t
      BY <1>3, <2>2, <2>3, <3>2 DEF Blocks
    <3> QED
      BY <3>1, <3>2
  <2>8. Thieves'
    <3> SUFFICES ASSUME NEW u \in Threads, IsMaster(u), Partitioned(u)'
                 PROVE  /\ IsMaster(steal'[u])
                        /\ \A m \in Threads :
                             IsMaster(m) /\ Passed(u, m)' => Left(m) = {}
                        /\ at'[u].label \in {"own", "steal"} =>
                             w[u] = Nothing \/ w[u][1] < w[u][2]
                        /\ at'[u].label = "steal" => steal'[u] # u /\ Left(u) = {}
      BY <1>2, <1>3, <2>4 DEF Thieves, IsMaster, Master
    <3>1. CASE u = t
      <4>1. steal'[t] = StealAfter(policy, t)
        BY <1>3, <3>1 DEF IsMaster, Master
      <4>2. IsMaster(steal'[t])
        BY <1>1, <3>1, <4>1, NextMaster
      <4>3. \A m \in Threads : IsMaster(m) => ~ Passed(t, m)'
        BY <1>1, <3>1, <4>1, GoneOn DEF Passed
      <4> QED
        BY <2>1, <3>1, <4>2, <4>3
    <3>2. CASE u # t
      <4>1. steal'[u] = steal[u] /\ at'[u] = at[u] /\ Partitioned(u)
        BY <1>2, <1>3, <2>3, <3>2
      <4>2. \A m \in Threads : Passed(u, m)' <=> Passed(u, m)
        BY <4>1 DEF Passed
      <4> QED
        BY <2>2, <4>1, <4>2 DEF Thieves
    <3> QED
      BY <3>1, <3>2
  <2> QED
    BY <1>5, <2>5, <2>6, <2>7, <2>8 DEF DynamicAccount
<1>7. CASE ~ policy.dynamic
  BY <1>2, <1>5, <1>7 DEF DynamicAccount
<1> QED
  BY <1>6, <1>7

LEMMA OwnBlockAccount ==
  ASSUME TurnInv, StaticAccount, NEW t \in Threads, OwnBlock(t)
  PROVE  DynamicAccount' /\ StaticAccount'
<1>1. /\ PoolInv /\ Whereabouts /\ at \in [Threads -> Locations]
      /\ range \in [Threads -> Pairs]
      /\ policy \in Policies /\ at[t].label = "own_block"
      /\ ~ policy.dynamic /\ Active(policy, t) /\ at[t].back = "none"
  <2>1. PoolInv /\ at[t].label = "own_block" /\ Placed(policy, t, at[t])
    BY DEF TurnInv, TeamsInStep, OwnBlock, Whereabouts
  <2>2. at[t].back = "none"
    BY <2>1, TeamScope DEF PlainLabels
  <2> QED
    BY <2>1, <2>2
    DEF TurnInv, TeamsInStep, PoolInv, PoolTyping, Placed, InTeam, DataTypes
<1>2. Moves(t) /\ policy' = policy /\ executed' = executed
  BY <1>1, WorkPlaced DEF Moves, OwnBlock
<1>3. /\ range' = [range EXCEPT ![t] = Block(t)]
      /\ at' = [at EXCEPT ![t] = At(IF Block(t)[1] < Block(t)[2]
                                      THEN "item" ELSE "joined")]
  BY DEF OwnBlock, Goto, Block
<1>4. /\ range'[t] = Block(t)
      /\ at'[t] = At(IF Block(t)[1] < Block(t)[2] THEN "item" ELSE "joined")
      /\ \A u \in Threads : u # t => range'[u] = range[u] /\ at'[u] = at[u]
  BY <1>1, <1>3
<1>5. Block(t)[1] \in Int /\ Block(t)[2] \in Int
  BY <1>1, BlockNumbers
<1> SUFFICES ASSUME NEW u \in Threads, NEW r \in 0 .. policy.length - 1
             PROVE  executed[r][u] =
                      IF /\ Active(policy, u)
                         /\ Block(u)[1] <= r /\ r < Block(u)[2]
                         /\ \/ at'[u].label = "joined"
                            \/ Executing(u)' /\ r < range'[u][1]
                        THEN 1 ELSE 0
  BY <1>1, <1>2, SamePolicy DEF StaticAccount, DynamicAccount
<1>6. executed[r][u] =
        IF /\ Active(policy, u)
           /\ Block(u)[1] <= r /\ r < Block(u)[2]
           /\ \/ at[u].label = "joined"
              \/ Executing(u) /\ r < range[u][1]
          THEN 1 ELSE 0
  BY <1>1 DEF StaticAccount
<1>7. CASE u # t
  BY <1>4, <1>6, <1>7 DEF Executing
<1>8. CASE u = t
  <2>1. executed[r][t] = 0
    BY <1>1, <1>6, <1>8 DEF Executing
  <2>2. CASE Block(t)[1] < Block(t)[2]
    BY <1>4, <1>5, <1>8, <2>1, <2>2 DEF At
  <2>3. CASE ~ Block(t)[1] < Block(t)[2]
    BY <1>5, <1>8, <2>1, <2>3
  <2> QED
    BY <2>2, <2>3
<1> QED
  BY <1>7, <1>8

LEMMA KeptByOthers ==
  ASSUME TurnInv, NEW t \in Threads, Moves(t),
         \A u \in Threads : u # t => range'[u] = range[u],
         UNCHANGED <<w, step, barrier>>, Sharing(t)' <=> Sharing(t),
         NEW u \in Threads, u # t
  PROVE  Kept(u)
<1>1. /\ PoolInv /\ policy \in Policies /\ policy' = policy
      /\ \A v \in Threads : v # t => at'[v] = at[v]
  BY DEF TurnInv, TeamsInStep, PoolInv, PoolTyping, Moves
<1>2. Still(u)
  BY <1>1, StillOther
<1>3. /\ Executing(u)' <=> Executing(u)
      /\ ToRead(u)' <=> ToRead(u)
  BY <1>1, <1>2, StillViews
<1>4. Master(u)' = Master(u) /\ TeamChunk(u)' = TeamChunk(u)
  BY <1>1 DEF TeamChunk, Master
<1>5. Sharing(Master(u))' <=> Sharing(Master(u))
  <2>1. Master(u) \in Threads
    BY <1>1, ThreadNumbers DEF Master
  <2>2. \A v \in Threads : Sharing(v)' <=> Sharing(v)
    BY <1>1 DEF Sharing
  <2> QED
    BY <1>4, <2>1, <2>2 DEF Sharing
<1> QED
  BY <1>1, <1>3, <1>4, <1>5 DEF Kept, HasTurn

\* What a step of the loop over a range does.
LEMMA RunItemStep ==
  ASSUME TurnInv, NEW t \in Threads, RunItem(t),
         NEW r, r = range[t][1], NEW e, e = range[t][2]
  PROVE  /\ Moves(t) /\ policy' = policy
         /\ UNCHANGED <<w, step, barrier, work, steal>>
         /\ policy \in Policies /\ Active(policy, t) /\ at[t].label = "item"
         /\ Executing(t) /\ ~ ToRead(t) /\ ~ Sharing(t) /\ Partitioned(t)
         /\ r \in Int /\ e \in Int /\ r < e
         /\ policy.dynamic => TeamChunk(t) \in Nat
         /\ Given(t)[1] \in Int /\ Given(t)[1] <= r /\ Given(t)[2] = e
<1>1. /\ PoolInv /\ Whereabouts /\ at \in [Threads -> Locations]
      /\ range \in [Threads -> Pairs] /\ w \in [Threads -> Pairs]
      /\ policy \in Policies /\ at[t].label = "item" /\ at[t].back = "none"
      /\ InRange(t)
  <2>1. PoolInv /\ at[t].label = "item" /\ InRange(t)
    BY DEF TurnInv, TeamsInStep, RunItem, Turns
  <2>2. at[t].back = "none"
    BY <2>1, TeamScope DEF PlainLabels
  <2> QED
    BY <2>1, <2>2 DEF TurnInv, TeamsInStep, PoolInv, PoolTyping, DataTypes
<1>2. Moves(t) /\ policy' = policy /\ UNCHANGED <<w, step, barrier, work, steal>>
  BY <1>1, WorkPlaced DEF Moves, RunItem
<1>3. Active(policy, t)
  BY <1>1 DEF Whereabouts, Placed, InTeam
<1>4. Executing(t) /\ ~ ToRead(t) /\ ~ Sharing(t) /\ Partitioned(t)
  BY <1>1 DEF Executing, ToRead, Sharing, Partitioned
<1>5. TeamChunk(t) \in Int
  BY <1>1, ThreadNumbers, PairFields DEF TeamChunk, Master
<1>6. Given(t)[1] \in Int
  <2>1. CASE policy.dynamic
    BY <1>1, <1>5, <2>1, ChunkRangePair, PairFields DEF Given
  <2>2. CASE ~ policy.dynamic
    BY <1>1, <1>3, <2>2, BlockNumbers, PairFields DEF Given
  <2> QED
    BY <2>1, <2>2
<1>7. r \in Int /\ e \in Int
  BY <1>1, PairFields
<1>8. /\ r < e /\ Given(t)[1] <= r /\ Given(t)[2] = e
      /\ policy.dynamic => TeamChunk(t) >= 0
  BY <1>1, <1>4 DEF InRange
<1>9. policy.dynamic => TeamChunk(t) \in Nat
  BY <1>5, <1>8
<1> QED
  BY <1>1, <1>2, <1>3, <1>4, <1>6, <1>7, <1>8, <1>9

LEMMA RunItemMoves ==
  ASSUME TurnInv, NEW t \in Threads, RunItem(t),
         NEW r, r = range[t][1], NEW e, e = range[t][2]
  PROVE  /\ ~ ToRead(t)' /\ ~ Sharing(t)' /\ Partitioned(t)'
         /\ at'[t].label \notin {"own", "steal"}
         /\ r + 1 < e => /\ Executing(t)' /\ range'[t][1] = r + 1
                         /\ at'[t].label # "joined"
         /\ ~ r + 1 < e => /\ ~ Executing(t)'
                           /\ at'[t].label = "joined" <=> ~ policy.dynamic
<1>1. /\ at \in [Threads -> Locations] /\ range \in [Threads -> Pairs]
  BY DEF TurnInv, TeamsInStep, PoolInv, PoolTyping, DataTypes
<1>2. policy' = policy /\ r \in Int /\ e \in Int
  BY RunItemStep
<1>3. CASE r + 1 < e
  <2>1. range'[t] = [range[t] EXCEPT ![1] = r + 1] /\ at'[t] = BetweenItems
    BY <1>1, <1>3 DEF RunItem, Goto
  <2>2. range'[t][1] = r + 1
    BY <1>1, <1>2, <2>1, PairFields
  <2>3. /\ at'[t].label \in {"item", "arrive"}
        /\ at'[t].back \in {"none", "item"}
        /\ at'[t].label = "item" \/ at'[t].back = "item"
    BY <2>1, BetweenItemsLocation DEF At
  <2> QED
    BY <1>3, <2>2, <2>3 DEF ToRead, Sharing, Partitioned, Executing
<1>4. CASE ~ r + 1 < e
  <2>1. at'[t] = IF policy.dynamic THEN Take ELSE At("joined")
    BY <1>1, <1>4 DEF RunItem, Goto
  <2>2. /\ at'[t].label \in {"try_own", "arrive", "joined"}
        /\ at'[t].back \in {"none", "take"}
        /\ at'[t].label = "joined" <=> ~ policy.dynamic
    BY <2>1, TakeLocation DEF At
  <2> QED
    BY <1>4, <2>2 DEF ToRead, Sharing, Partitioned, Executing
<1> QED
  BY <1>3, <1>4

LEMMA LengthIterations ==
  policy \in Policies => 0 .. policy.length - 1 \subseteq Iterations
  BY DEF Iterations

LEMMA RunItemCount ==
  ASSUME executed \in [Iterations -> [Threads -> Nat]], NEW t \in Threads,
         RunItem(t), NEW r \in Iterations, r = range[t][1]
  PROVE  /\ executed'[r][t] = executed[r][t] + 1
         /\ \A k \in Iterations, u \in Threads :
              k # r \/ u # t => executed'[k][u] = executed[k][u]
<1>1. executed' = [executed EXCEPT ![r][t] = @ + 1]
  BY DEF RunItem
<1> QED
  BY <1>1

LEMMA RunItemIteration ==
  ASSUME TurnInv, NEW t \in Threads, RunItem(t), NEW r, r = range[t][1]
  PROVE  /\ r \in 0 .. policy.length - 1 /\ r \in Iterations
         /\ policy.dynamic => r \in Iters(TeamChunk(t))
<1> DEFINE e == range[t][2]
           i == TeamChunk(t)
<1>1. /\ policy \in Policies /\ Active(policy, t)
      /\ r \in Int /\ e \in Int /\ r < e
      /\ policy.dynamic => i \in Nat
      /\ Given(t)[1] \in Int /\ Given(t)[1] <= r /\ Given(t)[2] = e
  BY RunItemStep
<1>2. policy.dynamic => r \in Iters(i)
  <2> SUFFICES ASSUME policy.dynamic
               PROVE  r \in Iters(i)
    OBVIOUS
  <2>1. Given(t) = ChunkRange(i)
    BY DEF Given
  <2> HIDE DEF e, i
  <2>2. ChunkRange(i)[1] <= r /\ r <= ChunkRange(i)[2] - 1 /\ ChunkRange(i)[1] \in Int
        /\ ChunkRange(i)[2] \in Int
    BY <1>1, <2>1
  <2> QED
    BY <1>1, <2>2 DEF Iters
<1>3. r \in 0 .. policy.length - 1
  <2>1. CASE policy.dynamic
    BY <1>1, <1>2, <2>1, ItersOf
  <2>2. CASE ~ policy.dynamic
    <3>1. Block(t)[1] \in Nat /\ Block(t)[2] \in Nat /\ Block(t)[2] <= policy.length
      BY <1>1, BlockNumbers
    <3>2. Given(t) = Block(t)
      BY <2>2 DEF Given
    <3>3. policy.length \in Nat
      BY <1>1, PolicyNumbers
    <3> HIDE DEF e
    <3> QED
      BY <1>1, <3>1, <3>2, <3>3
  <2> QED
    BY <2>1, <2>2
<1> QED
  BY <1>1, <1>2, <1>3, LengthIterations

LEMMA RunItemStatic ==
  ASSUME TurnInv, StaticAccount, NEW t \in Threads, RunItem(t)
  PROVE  StaticAccount'
<1> DEFINE r == range[t][1]
           e == range[t][2]
<1>1. /\ policy' = policy /\ Moves(t) /\ policy \in Policies /\ Active(policy, t)
      /\ r \in Int /\ e \in Int /\ r < e /\ Executing(t) /\ at[t].label = "item"
      /\ Given(t)[1] \in Int /\ Given(t)[1] <= r /\ Given(t)[2] = e
  BY RunItemStep
<1>2. /\ r + 1 < e => Executing(t)' /\ range'[t][1] = r + 1 /\ at'[t].label # "joined"
      /\ ~ r + 1 < e => ~ Executing(t)' /\ (at'[t].label = "joined" <=> ~ policy.dynamic)
  BY RunItemMoves
<1>3. r \in 0 .. policy.length - 1 /\ r \in Iterations
  BY RunItemIteration
<1>4. executed \in [Iterations -> [Threads -> Nat]]
  BY DEF TurnInv, DataTypes
<1>5. /\ executed'[r][t] = executed[r][t] + 1
      /\ \A k \in Iterations, u \in Threads :
           k # r \/ u # t => executed'[k][u] = executed[k][u]
  BY <1>3, <1>4, RunItemCount
<1>6. \A u \in Threads : u # t => Kept(u)
  <2>1. /\ UNCHANGED <<w, step, barrier>>
        /\ ~ Sharing(t) /\ ~ Sharing(t)'
    BY RunItemStep, RunItemMoves
  <2>2. \A u \in Threads : u # t => range'[u] = range[u]
    BY DEF RunItem, TurnInv, DataTypes
  <2> QED
    BY <1>1, <2>1, <2>2, KeptByOthers
<1> SUFFICES ASSUME ~ policy.dynamic, NEW u \in Threads,
                    NEW k \in 0 .. policy.length - 1
             PROVE  executed'[k][u] =
                      IF /\ Active(policy, u)
                         /\ Block(u)[1] <= k /\ k < Block(u)[2]
                         /\ \/ at'[u].label = "joined"
                            \/ Executing(u)' /\ k < range'[u][1]
                        THEN 1 ELSE 0
  BY <1>1, SamePolicy DEF StaticAccount
<1>7. executed[k][u] =
        IF /\ Active(policy, u)
           /\ Block(u)[1] <= k /\ k < Block(u)[2]
           /\ \/ at[u].label = "joined"
              \/ Executing(u) /\ k < range[u][1]
          THEN 1 ELSE 0
  BY DEF StaticAccount
<1>8. k \in Iterations
  BY <1>1, LengthIterations
<1>9. CASE u # t
  <2>1. executed'[k][u] = executed[k][u]
    BY <1>5, <1>8, <1>9
  <2>2. Kept(u)
    BY <1>6, <1>9
  <2> QED
    BY <1>7, <2>1, <2>2 DEF Kept
<1>10. CASE u = t
  <2>1. Given(t) = Block(t)
    BY DEF Given
  <2> DEFINE f == Block(t)[1]
             b == Block(t)[2]
  <2>2. f \in Int /\ f <= r /\ b = e
    BY <1>1, <2>1
  <2>3. executed[k][t] = IF f <= k /\ k < b /\ k < r THEN 1 ELSE 0
    BY <1>1, <1>7, <1>10
  <2> HIDE DEF r, e, f, b
  <2>4. executed'[k][t] = IF f <= k /\ k < b /\ k <= r THEN 1 ELSE 0
    <3>1. CASE k = r
      BY <1>1, <1>5, <2>2, <2>3, <3>1
    <3>2. CASE k # r
      BY <1>1, <1>5, <1>8, <2>2, <2>3, <3>2
    <3> QED
      BY <3>1, <3>2
  <2>5. CASE r + 1 < e
    BY <1>1, <1>2, <1>10, <2>2, <2>4, <2>5 DEF f, b
  <2>6. CASE ~ r + 1 < e
    BY <1>1, <1>2, <1>10, <2>2, <2>4, <2>6 DEF f, b
  <2> QED
    BY <2>5, <2>6
<1> QED
  BY <1>9, <1>10

\* A master that is sharing holds up the others of its team.
LEMMA SharingHolds ==
  ASSUME TurnInv, policy.team > 1, NEW m \in Threads, Sharing(m)
  PROVE  /\ Master(m) = m /\ Active(policy, m)
         /\ \A u \in Threads : Same(u, m) /\ u # m =>
              /\ at[u].scope = "team" /\ at[u].label = "wait"
              /\ at[u].back \in {"item", "take"}
              /\ Entered(u)
<1>1. PoolInv /\ TeamsInStep /\ at[m] \in Locations
  BY DEF TurnInv, TeamsInStep, PoolInv, PoolTyping
<1>2. TeamPart(at[m]) \in {"held", "release"} /\ InTeam(at[m])
  <2>1. CASE at[m].label = "share"
    BY <2>1 DEF TeamPart, InTeam
  <2>2. CASE at[m].back = "chunk"
    <3>1. at[m] \in TeamLocations
      BY <1>1, <2>2, TeamScope, LocationKinds
    <3> QED
      BY <2>2, <3>1 DEF TeamLocations, TeamPart, InTeam
  <2> QED
    BY <2>1, <2>2 DEF Sharing
<1> QED
  BY <1>1, <1>2, HeldUp

LEMMA MasterOf ==
  ASSUME policy \in Policies, NEW t \in Threads, Active(policy, t)
  PROVE  Master(t) \in Threads /\ IsMaster(Master(t)) /\ Same(t, Master(t))
<1>1. Master(t) \in Threads /\ Master(Master(t)) = Master(t) /\ Active(policy, Master(t))
  BY ThreadNumbers, BaseIsBase DEF Master
<1> QED
  BY <1>1 DEF IsMaster, Same

LEMMA RunItemDynamic ==
  ASSUME TurnInv, DynamicAccount, policy.dynamic, NEW t \in Threads, RunItem(t)
  PROVE  DynamicAccount'
<1>0. PICK r, e, i : r = range[t][1] /\ e = range[t][2] /\ i = TeamChunk(t)
  OBVIOUS
<1>1. /\ policy' = policy /\ Moves(t) /\ policy \in Policies /\ Active(policy, t)
      /\ r \in Int /\ e \in Int /\ r < e /\ Executing(t) /\ at[t].label = "item"
      /\ i \in Nat /\ Given(t)[2] = e /\ Partitioned(t)
      /\ UNCHANGED <<w, step, barrier, work, steal>>
      /\ ~ Sharing(t)
  BY <1>0, RunItemStep
<1>2. /\ ~ ToRead(t)' /\ ~ Sharing(t)' /\ Partitioned(t)'
      /\ at'[t].label \notin {"own", "steal"}
      /\ r + 1 < e => Executing(t)' /\ range'[t][1] = r + 1
      /\ ~ r + 1 < e => ~ Executing(t)'
  BY <1>0, RunItemMoves
<1>3. r \in 0 .. policy.length - 1 /\ r \in Iterations /\ r \in Iters(i)
  BY <1>0, RunItemIteration
<1>4. executed \in [Iterations -> [Threads -> Nat]]
  BY DEF TurnInv, DataTypes
<1>5. /\ executed'[r][t] = executed[r][t] + 1
      /\ \A k \in Iterations, u \in Threads :
           k # r \/ u # t => executed'[k][u] = executed[k][u]
  BY <1>0, <1>3, <1>4, RunItemCount
<1>6. \A u \in Threads : u # t => Kept(u)
  <2>1. \A u \in Threads : u # t => range'[u] = range[u]
    BY DEF RunItem, TurnInv, DataTypes
  <2> QED
    BY <1>1, <1>2, <2>1, KeptByOthers
<1>7. TeamChunk(t)' = i
  BY <1>0, <1>1 DEF TeamChunk, Master
<1>8. ~ GivenUp(t)'
  BY <1>1, <1>7 DEF GivenUp
<1>9. /\ Blocks' /\ Thieves' /\ NothingLeft'
      /\ \A m \in Threads : Left(m)' = Left(m)
  <2>1. \A u \in Threads : Active(policy, u) /\ GivenUp(u)' => GivenUp(u)
    BY <1>6, <1>8, KeptGivenUp
  <2> QED
    BY <1>1, <1>2, <2>1, QuietBlocks
<1>10. HasTurn(t) /\ Given(t) = ChunkRange(i)
  BY <1>0, <1>1 DEF HasTurn, Given
<1>11. \A j \in Nat : \A k \in Iters(j) : k \in Iterations /\ j = k \div Chunk(policy)
  BY <1>1, ItersOf, LengthIterations
<1>12. i \in Chunks
  BY <1>1, <1>3, <1>11, ChunkOf
<1>13. EveryChunk
  BY DEF DynamicAccount
<1> SUFFICES EveryChunk'
  BY <1>9 DEF DynamicAccount
<1> SUFFICES ASSUME NEW j \in Chunks
             PROVE  IF \E m \in Threads : IsMaster(m) /\ j \in Left(m)
                      THEN Untaken(j)'
                      ELSE \E m \in Threads : IsMaster(m) /\ TakenBy(m, j)'
  BY <1>1, <1>9, SamePolicy DEF EveryChunk
<1>14. IF \E m \in Threads : IsMaster(m) /\ j \in Left(m)
         THEN Untaken(j)
         ELSE \E m \in Threads : IsMaster(m) /\ TakenBy(m, j)
  BY <1>13 DEF EveryChunk
<1>15. j \in Nat /\ Iters(j)' = Iters(j)
  BY <1>1, ChunksNat, SamePolicy
<1>16. CASE j # i
  <2>1. ASSUME NEW u \in Threads, u # t
        PROVE  CarriedAt(u, j)
    <3>1. Kept(u)
      BY <1>6, <2>1
    <3>2. \A k \in Iters(j) : executed'[k][u] = executed[k][u]
      BY <1>5, <1>11, <1>15, <2>1
    <3> QED
      BY <3>1, <3>2 DEF Kept, CarriedAt, Holds, Behind
  <2>2. CarriedAt(t, j)
    <3>1. ~ Holds(t, j) /\ ~ Holds(t, j)'
      BY <1>0, <1>7, <1>16 DEF Holds
    <3>2. \A k \in Iters(j) : executed'[k][t] = executed[k][t]
      BY <1>1, <1>3, <1>5, <1>11, <1>15, <1>16
    <3> QED
      BY <3>1, <3>2 DEF CarriedAt, Behind
  <2>3. \A u \in Threads : CarriedAt(u, j)
    BY <2>1, <2>2
  <2>4. /\ Untaken(j) => Untaken(j)'
        /\ \A m : TakenBy(m, j) => TakenBy(m, j)'
    BY <1>1, <2>3, ChunkCarried
  <2> QED
    BY <1>14, <2>4
<1>17. CASE j = i
  <2>1. Holds(t, i)
    BY <1>0, <1>10 DEF Holds
  <2>2. ~ Untaken(i)
    BY <2>1 DEF Untaken
  <2>3. PICK m \in Threads : IsMaster(m) /\ TakenBy(m, i)
    BY <1>14, <1>17, <2>2
  <2>4. Master(t) = m
    BY <2>1, <2>3 DEF TakenBy
  <2>5. ASSUME NEW u \in Threads, u # t
        PROVE  /\ Holds(u, i)' => Active(policy, u) /\ Master(u) = m
               /\ \A k \in Iters(i) :
                    executed'[k][u] =
                      IF Active(policy, u) /\ Master(u) = m /\ Behind(u, i, k)'
                        THEN 1 ELSE 0
    <3>1. /\ Holds(u, i)' <=> Holds(u, i)
          /\ \A k : Behind(u, i, k)' <=> Behind(u, i, k)
      BY <1>6, <2>5 DEF Kept, Holds, Behind
    <3>2. \A k \in Iters(i) : executed'[k][u] = executed[k][u]
      BY <1>1, <1>5, <1>11, <2>5
    <3> QED
      BY <2>3, <3>1, <3>2 DEF TakenBy
  <2>6. \A k \in Iters(i) : executed[k][t] = IF k < r THEN 1 ELSE 0
    BY <1>0, <1>1, <2>1, <2>3, <2>4 DEF TakenBy, Behind
  <2>7. ASSUME NEW k \in Iters(i)
        PROVE  executed'[k][t] = IF k <= r THEN 1 ELSE 0
    <3>1. k \in Int /\ k \in Iterations
      BY <1>1, <1>11 DEF Iterations
    <3>2. CASE k = r
      BY <1>1, <1>3, <1>5, <2>6, <3>2
    <3>3. CASE k # r
      BY <1>1, <1>5, <2>6, <2>7, <3>1, <3>3
    <3> QED
      BY <3>2, <3>3
  <2>8. ASSUME NEW k \in Iters(i)
        PROVE  Behind(t, i, k)' <=> k <= r
    <3>1. k \in Int /\ k < e
      <4>1. k < ChunkRange(i)[2] /\ k \in 0 .. policy.length - 1
        BY <1>1, <2>8, ItersOf
      <4>2. ChunkRange(i)[2] = e
        BY <1>1, <1>10
      <4> QED
        BY <4>1, <4>2
    <3>2. CASE r + 1 < e
      <4>1. Executing(t)' /\ range'[t][1] = r + 1
        BY <1>2, <3>2
      <4>2. Holds(t, i)'
        BY <1>7, <4>1 DEF Holds, HasTurn
      <4> QED
        BY <1>1, <3>1, <4>1, <4>2 DEF Behind
    <3>3. CASE ~ r + 1 < e
      <4>1. ~ HasTurn(t)'
        <5> SUFFICES ASSUME policy.team > 1, Sharing(Master(t))'
                     PROVE  FALSE
          BY <1>1, <1>2, <3>3 DEF HasTurn
        <5>1. Master(t)' = m
          BY <1>1, <2>4, SamePolicy
        <5>2. Sharing(m)'
          BY <5>1 DEF Sharing
        <5>3. m # t /\ Sharing(m)
          BY <1>1, <1>2, <5>2 DEF Moves, Sharing, TurnInv, TeamsInStep, PoolInv, PoolTyping
        <5>4. Same(t, m)
          BY <1>1, <2>4, MasterOf
        <5> QED
          BY <1>1, <5>3, <5>4, SharingHolds
      <4>2. ~ Holds(t, i)'
        BY <4>1 DEF Holds
      <4>3. k <= r
        BY <1>1, <3>1, <3>3
      <4> QED
        BY <4>2, <4>3 DEF Behind
    <3> QED
      BY <3>2, <3>3
  <2>9. TakenBy(m, i)'
    <3>1. \A u \in Threads :
            /\ Holds(u, i)' => Active(policy, u) /\ Master(u) = m
            /\ \A k \in Iters(i) :
                 executed'[k][u] =
                   IF Active(policy, u) /\ Master(u) = m /\ Behind(u, i, k)'
                     THEN 1 ELSE 0
      BY <1>1, <2>4, <2>5, <2>7, <2>8
    <3>2. \A u : Master(u)' = Master(u)
      BY <1>1, SamePolicy
    <3> QED
      BY <1>1, <1>15, <1>17, <3>1, <3>2 DEF TakenBy
  <2>10. ~ \E k \in Threads : IsMaster(k) /\ j \in Left(k)
    BY <1>14, <1>17, <2>2
  <2> QED
    BY <1>17, <2>3, <2>9, <2>10
<1> QED
  BY <1>16, <1>17

-----------------------------------------------------------------------------
(* The account of a master that looks for a chunk.                         *)

Searches(t) ==
  /\ Moves(t)
  /\ at[t].label \in {"try_own", "own", "steal"}
  /\ UNCHANGED <<step, barrier, teamIndex, executed>>
  /\ \A u \in Threads : u # t => w'[u] = w[u] /\ steal'[u] = steal[u]

GoesOn(t) ==
  /\ range' = range
  /\ at'[t].back = "none"
  /\ at'[t].label \in {"own", "steal"}

Finds(t, i) == Got(t, i) /\ w'[t][1] = i

LEMMA SearchingMaster ==
  ASSUME TurnInv, NEW t \in Threads, Searches(t)
  PROVE  /\ at[t].scope = "none" /\ at[t].back = "none" /\ policy.dynamic
         /\ TeamPart(at[t]) = "held" /\ InTeam(at[t])
         /\ Master(t) = t /\ Active(policy, t) /\ IsMaster(t)
         /\ AtTheEnd(t)
         /\ policy \in Policies /\ policy' = policy
         /\ \A u \in Threads : u # t => at'[u] = at[u]
         /\ at \in [Threads -> Locations] /\ range \in [Threads -> Pairs]
         /\ \A u \in Threads : Partitioned(u)
<1>1. /\ PoolInv /\ at \in [Threads -> Locations] /\ policy \in Policies
      /\ policy' = policy /\ Whereabouts /\ range \in [Threads -> Pairs]
      /\ \A u \in Threads : u # t => at'[u] = at[u]
      /\ at[t].label \in {"try_own", "own", "steal"}
  BY DEF TurnInv, TeamsInStep, PoolInv, PoolTyping, Moves, DataTypes, Searches
<1>2. at[t].scope = "none" /\ at[t].back = "none"
  BY <1>1, TeamScope DEF PlainLabels
<1>3. TeamPart(at[t]) = "held" /\ InTeam(at[t])
  BY <1>1, <1>2 DEF TeamPart, InTeam
<1>4. policy.dynamic /\ Master(t) = t /\ Active(policy, t)
  BY <1>1, <1>2, <1>3
  DEF PoolInv, Scheduled, ForStealing, Whereabouts, Placed, Master
<1>5. AtTheEnd(t) /\ IsMaster(t)
  BY <1>1, <1>2, <1>4 DEF AtTheEnd, Executing, ToRead, IsMaster
<1> QED
  BY <1>1, <1>2, <1>3, <1>4, <1>5, AllPartitioned

\* The team of the master waits meanwhile.
LEMMA SearchTeam ==
  ASSUME TurnInv, NEW t \in Threads, Searches(t),
         NEW u \in Threads, Active(policy, u), Master(u) = t
  PROVE  /\ ~ HasTurn(u) /\ at[u].label # "joined"
         /\ u # t => ~ Executing(u)' /\ ~ ToRead(u)' /\ at'[u].label # "joined"
<1>1. /\ at[t].scope = "none" /\ at[t].back = "none" /\ policy.dynamic
      /\ TeamPart(at[t]) = "held" /\ InTeam(at[t])
      /\ Master(t) = t /\ Active(policy, t) /\ AtTheEnd(t)
      /\ policy \in Policies /\ policy' = policy
      /\ \A v \in Threads : v # t => at'[v] = at[v]
      /\ at[t].label \in {"try_own", "own", "steal"} /\ TeamsInStep
  BY SearchingMaster DEF Searches, TurnInv
<1>2. ~ Sharing(t) /\ ~ HasTurn(t) /\ at[t].label # "joined"
  BY <1>1 DEF Sharing, HasTurn, Executing, ToRead
<1>3. CASE u = t
  BY <1>2, <1>3
<1>4. CASE u # t
  <2>1. Same(u, t)
    BY <1>1 DEF Same
  <2>2. policy.team > 1
    BY <1>1, <1>4, <2>1, Teams, TeamNumbers
  <2>3. /\ at[u].scope = "team" /\ at[u].label = "wait"
        /\ at[u].back \in {"item", "take"} /\ Entered(u)
    BY <1>1, <1>4, <2>1, <2>2, HeldUp
  <2>4. at[u].back = "take"
    BY <1>1, <2>1, <2>3, SameKind DEF Turned
  <2>5. at'[u] = at[u] /\ (Entered(u)' <=> Entered(u))
    BY <1>1, <1>4 DEF Searches, Entered, Master
  <2> QED
    BY <1>2, <1>4, <2>3, <2>4, <2>5 DEF HasTurn, Executing, ToRead
<1> QED
  BY <1>3, <1>4

\* The others have the chunks they had.
LEMMA SearchOthers ==
  ASSUME TurnInv, NEW t \in Threads, Searches(t),
         GoesOn(t) \/ \E i \in Int : Finds(t, i),
         NEW u \in Threads, ~ (Active(policy, u) /\ Master(u) = t)
  PROVE  /\ \A j : CarriedAt(u, j)
         /\ Active(policy, u) /\ GivenUp(u)' => GivenUp(u)
<1>1. /\ Master(t) = t /\ Active(policy, t)
      /\ policy \in Policies /\ policy' = policy
      /\ \A v \in Threads : v # t => at'[v] = at[v]
      /\ PoolInv /\ Whereabouts /\ executed' = executed
  BY SearchingMaster DEF Searches, TurnInv, TeamsInStep
<1>2. u # t /\ at'[u] = at[u] /\ range'[u] = range[u]
  <2>1. u # t
    BY <1>1
  <2> QED
    BY <1>1, <2>1 DEF GoesOn, Finds, Got, TurnInv, DataTypes
<1>3. CASE ~ Active(policy, u)
  <2>1. ~ InTeam(at[u])
    BY <1>1, <1>3 DEF Whereabouts, Placed
  <2>2. ~ HasTurn(u) /\ ~ HasTurn(u)'
    BY <1>1, <1>2, <1>3, <2>1, TeamScope DEF InTeam, HasTurn, Executing, ToRead
  <2> QED
    BY <1>1, <1>3, <2>2 DEF CarriedAt, Holds, Behind
<1>4. CASE Active(policy, u)
  <2>1. Master(u) # t /\ Master(u)' = Master(u) /\ Master(u) \in Threads
    BY <1>1, <1>4, ThreadNumbers DEF Master
  <2>2. /\ TeamChunk(u)' = TeamChunk(u) /\ (Entered(u)' <=> Entered(u))
        /\ Sharing(Master(u))' <=> Sharing(Master(u))
    BY <1>1, <2>1 DEF Searches, TeamChunk, Entered, Sharing
  <2>3. Still(u)
    BY <1>1, <1>2, <2>2 DEF Still
  <2>4. /\ Executing(u)' <=> Executing(u)
        /\ ToRead(u)' <=> ToRead(u)
    BY <1>1, <2>3, StillViews
  <2>5. Kept(u)
    BY <1>1, <1>2, <2>2, <2>4 DEF Kept, HasTurn
  <2> QED
    BY <1>1, <1>4, <2>5, KeptCarried, KeptGivenUp
<1> QED
  BY <1>3, <1>4

LEMMA SearchGoesOn ==
  ASSUME TurnInv, NEW t \in Threads, Searches(t), GoesOn(t),
         NEW u \in Threads, Active(policy, u), Master(u) = t
  PROVE  ~ HasTurn(u)' /\ at'[u].label # "joined"
<1>1. /\ policy' = policy /\ policy \in Policies /\ Master(u)' = t
  BY SearchingMaster DEF Master
<1>2. ~ Executing(t)' /\ ~ ToRead(t)' /\ ~ Sharing(t)' /\ at'[t].label # "joined"
  BY DEF GoesOn, Executing, ToRead, Sharing
<1>3. Sharing(Master(u))' <=> Sharing(t)'
  BY <1>1 DEF Sharing
<1>4. u # t => ~ Executing(u)' /\ ~ ToRead(u)' /\ at'[u].label # "joined"
  BY SearchTeam
<1> QED
  BY <1>2, <1>3, <1>4 DEF HasTurn

LEMMA SearchFinds ==
  ASSUME TurnInv, NEW t \in Threads, Searches(t), NEW i \in Int, Finds(t, i),
         NEW u \in Threads, Active(policy, u), Master(u) = t
  PROVE  /\ TeamChunk(u)' = i
         /\ \A r \in Iters(i) : i \in Nat => Holds(u, i)' /\ ~ Behind(u, i, r)'
<1>1. /\ policy' = policy /\ policy \in Policies /\ Master(u)' = t
      /\ at \in [Threads -> Locations] /\ range \in [Threads -> Pairs]
  BY SearchingMaster DEF Master
<1>2. TeamChunk(u)' = i
  BY <1>1 DEF TeamChunk, Finds
<1> SUFFICES ASSUME NEW r \in Iters(i), i \in Nat
             PROVE  Holds(u, i)' /\ ~ Behind(u, i, r)'
  BY <1>2
<1>3. /\ ChunkRange(i)[1] <= r /\ r < ChunkRange(i)[2] /\ r \in Int
      /\ ChunkRange(i)[1] \in Int /\ ChunkRange(i)[2] \in Int
  BY <1>1, ItersOf
<1>4. CASE policy.team = 1
  <2>1. u = t
    BY <1>1, <1>4, FlatTeam DEF Master
  <2>2. at'[t] = WithChunk(i) /\ range'[t] = ChunkRange(i)
    BY <1>1, <1>4 DEF Finds, Got, Goto
  <2>3. at'[t].label = "item"
    BY <1>3, <2>2 DEF WithChunk, At
  <2>4. Holds(u, i)'
    BY <1>2, <2>1, <2>3 DEF Holds, HasTurn, Executing
  <2>5. ~ r < range'[u][1]
    BY <1>3, <2>1, <2>2
  <2> QED
    BY <2>4, <2>5 DEF Behind
<1>5. CASE policy.team # 1
  <2>1. policy.team > 1
    BY <1>1, <1>5, TeamNumbers
  <2>2. at'[t] = At("share")
    BY <1>1, <1>5 DEF Finds, Got, Goto
  <2>3. Sharing(t)' /\ ~ Executing(t)'
    BY <2>2 DEF Sharing, Executing, At
  <2>4. Sharing(Master(u))'
    BY <1>1, <2>3 DEF Sharing
  <2>5. HasTurn(u)'
    BY <1>1, <2>1, <2>4 DEF HasTurn
  <2>6. Holds(u, i)'
    BY <1>2, <2>5 DEF Holds
  <2>7. ~ Executing(u)'
    BY <2>3, SearchTeam
  <2> QED
    BY <2>6, <2>7 DEF Behind
<1> QED
  BY <1>4, <1>5

\* Without a chunk the master leaves every chunk where it was, ...
LEMMA SearchEmpty ==
  ASSUME TurnInv, DynamicAccount, NEW t \in Threads, Searches(t),
         GoesOn(t) \/ \E i \in Int : i < 0 /\ Finds(t, i),
         \A m \in Threads : IsMaster(m) => Left(m)' = Left(m)
  PROVE  EveryChunk'
<1>1. /\ policy' = policy /\ policy \in Policies /\ executed' = executed
      /\ EveryChunk
  BY SearchingMaster DEF Searches, DynamicAccount
<1> SUFFICES ASSUME NEW u \in Threads, NEW j \in Chunks
             PROVE  CarriedAt(u, j)
  BY <1>1, ChunksCarried
<1>2. j \in Nat
  BY <1>1, ChunksNat
<1>3. CASE Active(policy, u) /\ Master(u) = t
  <2>1. ~ Holds(u, j)
    BY <1>3, SearchTeam DEF Holds
  <2>2. ~ Holds(u, j)'
    <3>1. CASE GoesOn(t)
      BY <1>3, <3>1, SearchGoesOn DEF Holds
    <3>2. CASE \E i \in Int : i < 0 /\ Finds(t, i)
      <4>1. PICK i \in Int : i < 0 /\ Finds(t, i)
        BY <3>2
      <4>2. TeamChunk(u)' = i
        BY <1>3, <4>1, SearchFinds
      <4> QED
        BY <1>2, <4>1, <4>2 DEF Holds
    <3> QED
      BY <3>1, <3>2
  <2> QED
    BY <1>1, <2>1, <2>2 DEF CarriedAt, Behind
<1>4. CASE ~ (Active(policy, u) /\ Master(u) = t)
  BY <1>4, SearchOthers
<1> QED
  BY <1>3, <1>4

\* ... and with one it takes it from a block.
LEMMA SearchChunk ==
  ASSUME TurnInv, DynamicAccount, NEW t \in Threads, Searches(t),
         NEW i \in Nat, Finds(t, i),
         NEW v \in Threads, IsMaster(v), i \in Left(v),
         \A m \in Threads : IsMaster(m) => Left(m)' = Left(m) \ {i}
  PROVE  EveryChunk'
<1>1. /\ policy' = policy /\ policy \in Policies /\ executed' = executed
      /\ EveryChunk /\ policy.dynamic /\ IsMaster(t)
  BY SearchingMaster DEF Searches, DynamicAccount
<1>2. GoesOn(t) \/ \E k \in Int : Finds(t, k)
  OBVIOUS
<1> SUFFICES ASSUME NEW j \in Chunks
             PROVE  IF \E m \in Threads : IsMaster(m) /\ j \in Left(m)'
                      THEN Untaken(j)'
                      ELSE \E m \in Threads : IsMaster(m) /\ TakenBy(m, j)'
  BY <1>1, SamePolicy DEF EveryChunk
<1>3. IF \E m \in Threads : IsMaster(m) /\ j \in Left(m)
        THEN Untaken(j)
        ELSE \E m \in Threads : IsMaster(m) /\ TakenBy(m, j)
  BY <1>1 DEF EveryChunk
<1>4. CASE j # i
  <2>1. ASSUME NEW u \in Threads
        PROVE  CarriedAt(u, j)
    <3>1. CASE Active(policy, u) /\ Master(u) = t
      <4>1. ~ Holds(u, j)
        BY <3>1, SearchTeam DEF Holds
      <4>2. ~ Holds(u, j)'
        <5>1. TeamChunk(u)' = i
          BY <3>1, SearchFinds
        <5> QED
          BY <1>4, <5>1 DEF Holds
      <4> QED
        BY <1>1, <4>1, <4>2 DEF CarriedAt, Behind
    <3>2. CASE ~ (Active(policy, u) /\ Master(u) = t)
      BY <1>2, <3>2, SearchOthers
    <3> QED
      BY <3>1, <3>2
  <2>2. /\ Untaken(j) => Untaken(j)'
        /\ \A m : TakenBy(m, j) => TakenBy(m, j)'
    BY <1>1, <2>1, ChunkCarried
  <2> QED
    BY <1>3, <1>4, <2>2
<1>5. CASE j = i
  <2>1. Untaken(i)
    BY <1>3, <1>5
  <2>2. \A m \in Threads : IsMaster(m) => j \notin Left(m)'
    BY <1>5
  <2>3. \A u : Master(u)' = Master(u)
    BY <1>1, SamePolicy
  <2>4. ASSUME NEW u \in Threads
        PROVE  /\ Holds(u, i)' => Active(policy, u) /\ Master(u) = t
               /\ \A r \in Iters(i) :
                    executed[r][u] =
                      IF Active(policy, u) /\ Master(u) = t /\ Behind(u, i, r)'
                        THEN 1 ELSE 0
    <3>1. \A r \in Iters(i) : executed[r][u] = 0
      BY <2>1 DEF Untaken
    <3>2. CASE Active(policy, u) /\ Master(u) = t
      BY <3>1, <3>2, SearchFinds
    <3>3. CASE ~ (Active(policy, u) /\ Master(u) = t)
      <4>1. CarriedAt(u, i)
        BY <1>2, <3>3, SearchOthers
      <4>2. ~ Holds(u, i)'
        BY <2>1, <4>1 DEF CarriedAt, Untaken
      <4> QED
        BY <3>1, <3>3, <4>2
    <3> QED
      BY <3>2, <3>3
  <2>5. Iters(i)' = Iters(i)
    BY <1>1, SamePolicy
  <2>6. TakenBy(t, i)'
    BY <1>1, <2>3, <2>4, <2>5 DEF TakenBy
  <2> QED
    BY <1>1, <1>5, <2>2, <2>6
<1> QED
  BY <1>4, <1>5

LEMMA SearchLocation ==
  ASSUME TurnInv, NEW t \in Threads, Searches(t)
  PROVE  /\ GoesOn(t) => /\ Partitioned(t)' /\ at'[t].label \in {"own", "steal"}
                         /\ at'[t].label # "joined"
         /\ \A i : Finds(t, i) => /\ Partitioned(t)'
                                  /\ at'[t].label \notin {"own", "steal"}
<1>1. at \in [Threads -> Locations]
  BY SearchingMaster
<1>2. GoesOn(t) => /\ Partitioned(t)' /\ at'[t].label \in {"own", "steal"}
                   /\ at'[t].label # "joined"
  BY DEF GoesOn, Partitioned
<1>3. ASSUME NEW i, Finds(t, i)
      PROVE  Partitioned(t)' /\ at'[t].label \notin {"own", "steal"}
  <2>1. at'[t] = WithChunk(i) \/ at'[t] = At("share")
    BY <1>1, <1>3 DEF Finds, Got, Goto
  <2>2. /\ at'[t].label \in {"joined", "item", "try_own", "arrive", "share"}
        /\ at'[t].back \in {"none", "take"}
    BY <2>1, ChunkLocation DEF At
  <2> QED
    BY <2>2 DEF Partitioned
<1> QED
  BY <1>2, <1>3

\* Afterwards every block is part of what it was.
LEMMA SearchRest ==
  ASSUME TurnInv, DynamicAccount, NEW t \in Threads, Searches(t),
         GoesOn(t) \/ \E i \in Int : Finds(t, i),
         work' \in [Threads -> Pairs],
         \A m \in Threads :
           IsMaster(m) => /\ work[m][1] <= work'[m][1]
                          /\ work'[m][1] <= work'[m][2]
                          /\ work'[m][2] <= work[m][2],
         IsMaster(steal'[t]),
         \A m \in Threads : IsMaster(m) /\ Passed(t, m)' => Left(m) = {},
         at'[t].label \in {"own", "steal"} => w'[t] = Nothing \/ w'[t][1] < w'[t][2],
         at'[t].label = "steal" => steal'[t] # t /\ Left(t) = {},
         \A i \in Int, m \in Threads :
           i < 0 /\ Finds(t, i) /\ IsMaster(m) => Left(m) = {}
  PROVE  Blocks' /\ Thieves' /\ NothingLeft'
<1>1. /\ policy' = policy /\ policy \in Policies
      /\ Blocks /\ Thieves /\ NothingLeft /\ policy.dynamic /\ IsMaster(t)
      /\ \A u \in Threads : u # t => at'[u] = at[u]
      /\ \A u \in Threads : Partitioned(u)
      /\ \A u \in Threads : u # t => w'[u] = w[u] /\ steal'[u] = steal[u]
  BY SearchingMaster DEF Searches, DynamicAccount
<1>2. /\ \A m \in Threads : work[m][1] \in Int /\ work[m][2] \in Int
      /\ \A m \in Threads : work'[m][1] \in Int /\ work'[m][2] \in Int
  BY PairFields DEF TurnInv, DataTypes
<1>3. \A u \in Threads : Partitioned(u)'
  BY <1>1, SearchLocation DEF Partitioned
<1>4. \A m \in Threads : IsMaster(m) => Left(m)' \subseteq Left(m)
  BY <1>1, <1>2, <1>3 DEF Left
<1>5. \A m \in Threads : IsMaster(m) /\ Left(m) = {} => Left(m)' = {}
  BY <1>4
<1>6. Blocks'
  <2> SUFFICES ASSUME NEW m \in Threads, IsMaster(m)
               PROVE  /\ FirstChunk(policy, League(policy, m)) <= work'[m][1]
                      /\ work'[m][1] <= work'[m][2]
                      /\ work'[m][2] <= FirstChunk(policy, League(policy, m) + 1)
    BY <1>1, SamePolicy DEF Blocks, FirstChunk, League
  <2>1. League(policy, m) \in Nat
    BY <1>1, ThreadNumbers
  <2>2. /\ FirstChunk(policy, League(policy, m)) \in Nat
        /\ FirstChunk(policy, League(policy, m) + 1) \in Nat
    BY <1>1, <2>1, NextFirstChunk
  <2>3. /\ FirstChunk(policy, League(policy, m)) <= work[m][1]
        /\ work[m][2] <= FirstChunk(policy, League(policy, m) + 1)
    BY <1>1 DEF Blocks
  <2> QED
    BY <1>2, <2>2, <2>3
<1>7. Thieves'
  <2> SUFFICES ASSUME NEW u \in Threads, IsMaster(u)
               PROVE  /\ IsMaster(steal'[u])
                      /\ \A m \in Threads :
                           IsMaster(m) /\ Passed(u, m)' => Left(m) = {}
                      /\ at'[u].label \in {"own", "steal"} =>
                           w'[u] = Nothing \/ w'[u][1] < w'[u][2]
                      /\ at'[u].label = "steal" => steal'[u] # u /\ Left(u) = {}
    BY <1>1, <1>5 DEF Thieves, IsMaster, Master
  <2>1. CASE u = t
    BY <2>1
  <2>2. CASE u # t
    <3>1. steal'[u] = steal[u] /\ at'[u] = at[u] /\ w'[u] = w[u] /\ Partitioned(u)
      BY <1>1, <2>2
    <3>2. \A m \in Threads : Passed(u, m)' <=> Passed(u, m)
      BY <3>1 DEF Passed
    <3> QED
      BY <1>1, <3>1, <3>2 DEF Thieves
  <2> QED
    BY <2>1, <2>2
<1>8. NothingLeft'
  <2> SUFFICES ASSUME NEW u \in Threads, Active(policy, u), GivenUp(u)',
                      NEW m \in Threads, IsMaster(m)
               PROVE  Left(m) = {}
    BY <1>1, <1>5, SamePolicy DEF NothingLeft
  <2>1. CASE Master(u) # t
    BY <1>1, <2>1, SearchOthers DEF NothingLeft
  <2>2. CASE Master(u) = t
    <3>1. CASE GoesOn(t)
      BY <2>2, <3>1, SearchGoesOn DEF GivenUp
    <3>2. CASE \E i \in Int : Finds(t, i)
      <4>1. PICK i \in Int : Finds(t, i)
        BY <3>2
      <4>2. i < 0
        BY <2>2, <4>1, SearchFinds DEF GivenUp
      <4> QED
        BY <4>1, <4>2
    <3> QED
      BY <3>1, <3>2
  <2> QED
    BY <2>1, <2>2
<1> QED
  BY <1>6, <1>7, <1>8

LEMMA PartsApart ==
  ASSUME NEW P \in Nat, NEW l \in Nat, NEW k \in Nat, NEW i \in Int,
         P * l <= i, i < P * (l + 1), P * k <= i, i < P * (k + 1)
  PROVE  l = k
<1>1. ASSUME NEW a \in Nat, NEW b \in Nat, a < b, i < P * (a + 1), P * b <= i
      PROVE  FALSE
  <2>1. (a + 1) * P <= b * P
    BY <1>1, MultMono
  <2>2. (a + 1) * P = P * (a + 1) /\ b * P = P * b /\ P * (a + 1) \in Int /\ P * b \in Int
    BY <1>1
  <2> QED
    BY <1>1, <2>1, <2>2
<1> QED
  BY <1>1

\* What is left in the blocks.
LEMMA LeftBlock ==
  ASSUME TurnInv, Blocks, NEW m \in Threads, IsMaster(m), Partitioned(m)
  PROVE  /\ work[m][1] \in Nat /\ work[m][2] \in Nat /\ work[m][1] <= work[m][2]
         /\ Left(m) = work[m][1] .. work[m][2] - 1
         /\ Viable(m) <=> Left(m) # {}
         /\ \A i \in Left(m) :
              /\ FirstChunk(policy, League(policy, m)) <= i
              /\ i < FirstChunk(policy, League(policy, m) + 1)
<1> DEFINE a == work[m][1]
           b == work[m][2]
           f == FirstChunk(policy, League(policy, m))
           g == FirstChunk(policy, League(policy, m) + 1)
<1>1. policy \in Policies /\ a \in Int /\ b \in Int
  BY PairFields DEF TurnInv, DataTypes, TeamsInStep, PoolInv, PoolTyping
<1>2. f \in Nat /\ g \in Nat
  BY <1>1, ThreadNumbers, NextFirstChunk
<1>3. f <= a /\ a <= b /\ b <= g
  BY DEF Blocks
<1>4. Left(m) = a .. b - 1
  BY DEF Left
<1> HIDE DEF a, b, f, g
<1>5. a \in Nat /\ b \in Nat
  BY <1>1, <1>2, <1>3
<1>6. a < b <=> a .. b - 1 # {}
  <2>1. a < b => a \in a .. b - 1
    BY <1>5
  <2>2. ~ a < b => \A i \in Int : ~ (a <= i /\ i <= b - 1)
    BY <1>5
  <2>3. ~ a < b => a .. b - 1 = {}
    BY <1>5, <2>2
  <2> QED
    BY <2>1, <2>3
<1>7. \A i \in a .. b - 1 : f <= i /\ i < g
  BY <1>2, <1>3, <1>5
<1> QED
  BY <1>3, <1>4, <1>5, <1>6, <1>7 DEF a, b, f, g, Viable

LEMMA LeftApart ==
  ASSUME TurnInv, Blocks, NEW m \in Threads, IsMaster(m), Partitioned(m),
         NEW v \in Threads, IsMaster(v), Partitioned(v),
         NEW i, i \in Left(m), i \in Left(v)
  PROVE  m = v
<1> DEFINE P == PartSize(policy.length, Chunk(policy), LeagueSize(policy))
           l == League(policy, m)
           k == League(policy, v)
<1>1. policy \in Policies /\ P \in Nat /\ l \in Nat /\ k \in Nat
  BY PolicyNumbers, ThreadNumbers DEF TurnInv, TeamsInStep, PoolInv, PoolTyping
<1>2. i \in Int
  BY LeftBlock
<1>3. /\ P * l <= i /\ i < P * (l + 1)
      /\ P * k <= i /\ i < P * (k + 1)
  BY LeftBlock DEF FirstChunk
<1> HIDE DEF P, l, k
<1>4. l = k
  BY <1>1, <1>2, <1>3, PartsApart
<1>5. Base(policy, m) = Base(policy, v)
  BY <1>1, <1>4, LeagueIsTeam DEF l, k
<1> QED
  BY <1>5 DEF IsMaster, Master

LEMMA SearchNothing ==
  ASSUME TurnInv, DynamicAccount, NEW t \in Threads, Searches(t), work' = work,
         GoesOn(t) \/ Finds(t, -1),
         IsMaster(steal'[t]),
         \A m \in Threads : IsMaster(m) /\ Passed(t, m)' => Left(m) = {},
         at'[t].label \in {"own", "steal"} => w'[t] = Nothing \/ w'[t][1] < w'[t][2],
         at'[t].label = "steal" => steal'[t] # t /\ Left(t) = {},
         Finds(t, -1) => steal'[t] = t /\ Left(t) = {}
  PROVE  DynamicAccount'
<1>1. /\ policy' = policy /\ policy \in Policies
      /\ Blocks /\ Thieves /\ NothingLeft /\ policy.dynamic /\ IsMaster(t)
      /\ \A u \in Threads : u # t => at'[u] = at[u]
      /\ \A u \in Threads : Partitioned(u)
  BY SearchingMaster DEF Searches, DynamicAccount
<1>2. \A u \in Threads : Partitioned(u)'
  BY <1>1, SearchLocation DEF Partitioned
<1>3. \A m \in Threads : Left(m)' = Left(m)
  BY <1>1, <1>2, LeftSame
<1>4. GoesOn(t) \/ \E i \in Int : i < 0 /\ Finds(t, i)
  OBVIOUS
<1>5. EveryChunk'
  BY <1>3, <1>4, SearchEmpty
<1>6. ASSUME NEW i \in Int, NEW m \in Threads, i < 0, Finds(t, i), IsMaster(m)
      PROVE  Left(m) = {}
  <2>1. Finds(t, -1)
    <3>1. ~ GoesOn(t)
      BY <1>6, SearchLocation
    <3> QED
      BY <3>1
  <2>2. steal'[t] = t /\ Left(t) = {}
    BY <2>1
  <2>3. m # t => Passed(t, m)'
    <3>1. t \in Nat /\ m \in Nat
      BY PoolOfThreads
    <3> QED
      BY <2>2, <3>1 DEF Passed
  <2> QED
    BY <1>6, <2>2, <2>3
<1>7. /\ work' \in [Threads -> Pairs]
      /\ \A m \in Threads :
           IsMaster(m) => /\ work[m][1] <= work'[m][1]
                          /\ work'[m][1] <= work'[m][2]
                          /\ work'[m][2] <= work[m][2]
  BY <1>1, LeftBlock DEF TurnInv, DataTypes
<1>8. GoesOn(t) \/ \E i \in Int : Finds(t, i)
  OBVIOUS
<1>9. Blocks' /\ Thieves' /\ NothingLeft'
  BY <1>6, <1>7, <1>8, SearchRest
<1> QED
  BY <1>5, <1>9 DEF DynamicAccount

LEMMA SearchSome ==
  ASSUME TurnInv, DynamicAccount, NEW t \in Threads, Searches(t), steal' = steal,
         NEW v \in Threads, IsMaster(v), Viable(v),
         NEW i \in Int, Finds(t, i), NEW pair \in Pairs,
         work' = [work EXCEPT ![v] = pair],
         \/ i = work[v][1] /\ pair = <<i + 1, work[v][2]>>
         \/ i = work[v][2] - 1 /\ pair = <<work[v][1], i>>
  PROVE  DynamicAccount'
<1>1. /\ policy' = policy /\ policy \in Policies
      /\ Blocks /\ Thieves /\ NothingLeft /\ policy.dynamic /\ IsMaster(t)
      /\ \A u \in Threads : u # t => at'[u] = at[u]
      /\ \A u \in Threads : Partitioned(u)
      /\ work \in [Threads -> Pairs]
  BY SearchingMaster DEF Searches, DynamicAccount, TurnInv, DataTypes
<1>2. \A u \in Threads : Partitioned(u)'
  BY <1>1, SearchLocation DEF Partitioned
<1> DEFINE a == work[v][1]
           b == work[v][2]
<1>3. /\ a \in Nat /\ b \in Nat /\ a < b /\ Left(v) = a .. b - 1
  BY <1>1, LeftBlock DEF Viable
<1>4. work'[v] = pair /\ \A m \in Threads : m # v => work'[m] = work[m]
  BY <1>1
<1>5. \/ i = a /\ work'[v][1] = a + 1 /\ work'[v][2] = b
      \/ i = b - 1 /\ work'[v][1] = a /\ work'[v][2] = b - 1
  BY <1>4
<1>6. Left(v)' = work'[v][1] .. work'[v][2] - 1
  BY <1>2 DEF Left
<1> HIDE DEF a, b
<1>7. /\ i \in Nat /\ i \in Left(v) /\ Left(v)' = Left(v) \ {i}
      /\ a <= work'[v][1] /\ work'[v][1] <= work'[v][2] /\ work'[v][2] <= b
  BY <1>3, <1>5, <1>6
<1>8. ASSUME NEW m \in Threads, IsMaster(m)
      PROVE  Left(m)' = Left(m) \ {i}
  <2>1. CASE m = v
    BY <1>7, <2>1
  <2>2. CASE m # v
    <3>1. i \notin Left(m)
      BY <1>1, <1>7, <1>8, <2>2, LeftApart
    <3>2. Left(m)' = Left(m)
      BY <1>1, <1>2, <1>4, <2>2, LeftSame
    <3> QED
      BY <3>1, <3>2
  <2> QED
    BY <2>1, <2>2
<1>9. EveryChunk'
  BY <1>7, <1>8, SearchChunk
<1>10. /\ work' \in [Threads -> Pairs]
       /\ \A m \in Threads :
            IsMaster(m) => /\ work[m][1] <= work'[m][1]
                           /\ work'[m][1] <= work'[m][2]
                           /\ work'[m][2] <= work[m][2]
  <2>1. work' \in [Threads -> Pairs]
    BY <1>1
  <2>2. ASSUME NEW m \in Threads, IsMaster(m), m # v
        PROVE  /\ work[m][1] <= work'[m][1]
               /\ work'[m][1] <= work'[m][2]
               /\ work'[m][2] <= work[m][2]
    BY <1>1, <1>4, <2>2, LeftBlock
  <2> QED
    BY <1>7, <2>1, <2>2 DEF a, b
<1>11. at'[t].label \notin {"own", "steal"} /\ ~ GoesOn(t)
  BY SearchLocation
<1>12. /\ IsMaster(steal'[t])
       /\ \A m \in Threads : IsMaster(m) /\ Passed(t, m)' => Left(m) = {}
  BY <1>1 DEF Thieves, Passed
<1>13. \A k \in Int, m \in Threads : k < 0 /\ Finds(t, k) /\ IsMaster(m) => Left(m) = {}
  BY <1>7 DEF Finds
<1>14. Blocks' /\ Thieves' /\ NothingLeft'
  BY <1>10, <1>11, <1>12, <1>13, SearchRest
<1> QED
  BY <1>9, <1>14 DEF DynamicAccount

LEMMA SearchSteps ==
  ASSUME TurnInv, DynamicAccount, NEW t \in Threads,
         TryOwn(t) \/ TakeOwn(t) \/ StealFromOther(t),
         \A u \in Threads : u # t => steal'[u] = steal[u]
  PROVE  /\ Searches(t) /\ Thieves /\ Blocks /\ IsMaster(t)
         /\ at \in [Threads -> Locations] /\ work \in [Threads -> Pairs]
         /\ w \in [Threads -> Pairs] /\ steal \in [Threads -> Threads]
         /\ \A m \in Threads : IsMaster(m) => work[m][1] \in Nat /\ work[m] \in Pairs
         /\ \A m \in Threads : IsMaster(m) => (Viable(m) <=> Left(m) # {})
         /\ at[t].back = "none" /\ at[t].label \in {"try_own", "own", "steal"}
         /\ IsMaster(steal[t])
         /\ \A m \in Threads : IsMaster(m) /\ Passed(t, m) => Left(m) = {}
         /\ at[t].label \in {"own", "steal"} => w[t] = Nothing \/ w[t][1] < w[t][2]
         /\ at[t].label = "steal" => steal[t] # t /\ Left(t) = {}
<1>1. /\ PoolInv /\ Whereabouts /\ at \in [Threads -> Locations]
      /\ w \in [Threads -> Pairs] /\ work \in [Threads -> Pairs]
      /\ steal \in [Threads -> Threads]
  BY DEF TurnInv, TeamsInStep, PoolInv, PoolTyping, DataTypes
<1>2. Moves(t) /\ at[t].label \in {"try_own", "own", "steal"}
  BY <1>1, StealingPlaced DEF TryOwn, TakeOwn, StealFromOther
<1>3. Searches(t)
  <2>1. UNCHANGED <<step, barrier, teamIndex, executed>>
    BY DEF TryOwn, TakeOwn, StealFromOther
  <2>2. \A u \in Threads : u # t => w'[u] = w[u]
    BY <1>1 DEF TryOwn, TakeOwn, StealFromOther
  <2> QED
    BY <1>2, <2>1, <2>2 DEF Searches
<1>4. /\ Thieves /\ Blocks /\ IsMaster(t) /\ Partitioned(t)
      /\ at[t].back = "none" /\ \A u \in Threads : Partitioned(u)
  BY <1>3, SearchingMaster DEF DynamicAccount
<1>5. /\ \A m \in Threads : IsMaster(m) => work[m][1] \in Nat /\ work[m] \in Pairs
      /\ \A m \in Threads : IsMaster(m) => (Viable(m) <=> Left(m) # {})
  BY <1>1, <1>4, LeftBlock
<1>6. /\ IsMaster(steal[t])
      /\ \A m \in Threads : IsMaster(m) /\ Passed(t, m) => Left(m) = {}
      /\ at[t].label \in {"own", "steal"} => w[t] = Nothing \/ w[t][1] < w[t][2]
      /\ at[t].label = "steal" => steal[t] # t /\ Left(t) = {}
  BY <1>4 DEF Thieves
<1> QED
  BY <1>1, <1>2, <1>3, <1>4, <1>5, <1>6

\* A comparison that fails leaves the block.
LEMMA ExchangeFails ==
  ASSUME work \in [Threads -> Pairs], NEW v \in Threads, NEW old, NEW new,
         work[v] # old
  PROVE  CompareExchange(v, old, new) = work
  BY DEF CompareExchange

LEMMA TryOwnAccount ==
  ASSUME TurnInv, DynamicAccount, NEW t \in Threads, TryOwn(t)
  PROVE  DynamicAccount'
<1>1. steal' = steal /\ work' = work
  BY DEF TryOwn
<1>2. /\ Searches(t) /\ IsMaster(t) /\ at \in [Threads -> Locations]
      /\ w \in [Threads -> Pairs]
      /\ Viable(t) <=> Left(t) # {}
      /\ IsMaster(steal[t])
      /\ \A m \in Threads : IsMaster(m) /\ Passed(t, m) => Left(m) = {}
  BY <1>1, SearchSteps
<1>3. w'[t] = Nothing
  BY <1>2 DEF TryOwn
<1>4. /\ IsMaster(steal'[t])
      /\ \A m \in Threads : IsMaster(m) /\ Passed(t, m)' => Left(m) = {}
  BY <1>1, <1>2 DEF Passed
<1>5. CASE Viable(t) /\ Goto(t, At("own")) /\ UNCHANGED range
  <2>1. at'[t] = At("own")
    BY <1>2, <1>5 DEF Goto
  <2>2. GoesOn(t) /\ at'[t].label = "own"
    BY <1>5, <2>1 DEF GoesOn, At
  <2> QED
    BY <1>1, <1>2, <1>3, <1>4, <2>2, SearchNothing, SearchLocation
<1>6. CASE ~ Viable(t) /\ steal[t] # t /\ Goto(t, At("steal")) /\ UNCHANGED range
  <2>1. at'[t] = At("steal")
    BY <1>2, <1>6 DEF Goto
  <2>2. GoesOn(t) /\ at'[t].label = "steal"
    BY <1>6, <2>1 DEF GoesOn, At
  <2> QED
    BY <1>1, <1>2, <1>3, <1>4, <1>6, <2>2, SearchNothing, SearchLocation
<1>7. CASE ~ Viable(t) /\ steal[t] = t /\ Got(t, -1)
  <2>1. Finds(t, -1)
    BY <1>3, <1>7, NothingPair DEF Finds
  <2> QED
    BY <1>1, <1>2, <1>3, <1>4, <1>7, <2>1, SearchNothing, SearchLocation
<1> QED
  BY <1>5, <1>6, <1>7 DEF TryOwn

LEMMA TakeOwnAccount ==
  ASSUME TurnInv, DynamicAccount, NEW t \in Threads, TakeOwn(t)
  PROVE  DynamicAccount'
<1>1. /\ steal' = steal /\ at[t].label = "own"
      /\ work' = CompareExchange(t, w[t], <<w[t][1] + 1, w[t][2]>>)
  BY DEF TakeOwn
<1>2. /\ Searches(t) /\ IsMaster(t) /\ at \in [Threads -> Locations]
      /\ w \in [Threads -> Pairs] /\ work \in [Threads -> Pairs]
      /\ work[t][1] \in Nat /\ at[t].back = "none"
      /\ Viable(t) <=> Left(t) # {}
      /\ IsMaster(steal[t])
      /\ \A m \in Threads : IsMaster(m) /\ Passed(t, m) => Left(m) = {}
      /\ w[t] = Nothing \/ w[t][1] < w[t][2]
  <2>1. /\ at[t].label \in {"own", "steal"} => w[t] = Nothing \/ w[t][1] < w[t][2]
    BY <1>1, SearchSteps
  <2> QED
    BY <1>1, <2>1, SearchSteps
<1>3. /\ IsMaster(steal'[t])
      /\ \A m \in Threads : IsMaster(m) /\ Passed(t, m)' => Left(m) = {}
  BY <1>1, <1>2 DEF Passed
<1>4. CASE Viable(t) /\ w[t] = work[t] /\ w' = [w EXCEPT ![t] = work[t]] /\ Got(t, work[t][1])
  <2> DEFINE i == work[t][1]
             pair == <<i + 1, work[t][2]>>
  <2>1. i \in Int /\ pair \in Pairs
    <3>1. i \in Int /\ i + 1 \in Int /\ work[t] \in Pairs
      BY <1>2
    <3>2. work[t][2] \in Int
      BY <3>1, PairFields
    <3> HIDE DEF i
    <3> QED
      BY <3>1, <3>2, PairIn
  <2>2. work' = [work EXCEPT ![t] = pair]
    BY <1>1, <1>2, <1>4 DEF CompareExchange
  <2>3. Finds(t, i)
    BY <1>2, <1>4 DEF Finds
  <2> HIDE DEF i, pair
  <2> QED
    BY <1>1, <1>2, <1>4, <2>1, <2>2, <2>3, SearchSome DEF i, pair
<1>5. CASE Viable(t) /\ w[t] # work[t] /\ w' = [w EXCEPT ![t] = work[t]] /\ UNCHANGED <<at, range>>
  <2>1. work' = work
    BY <1>1, <1>2, <1>5, ExchangeFails
  <2>2. GoesOn(t) /\ at'[t].label = "own"
    BY <1>1, <1>2, <1>5 DEF GoesOn
  <2>3. w'[t][1] < w'[t][2]
    BY <1>2, <1>5 DEF Viable
  <2> QED
    BY <1>2, <1>3, <2>1, <2>2, <2>3, SearchNothing, SearchLocation
<1>6. CASE /\ ~ Viable(t) /\ w' = [w EXCEPT ![t] = Nothing]
           /\ IF steal[t] # t THEN Goto(t, At("steal")) /\ UNCHANGED range
                              ELSE Got(t, -1)
  <2>1. work[t] # w[t]
    BY <1>2, <1>6, NothingPair DEF Viable
  <2>2. work' = work /\ w'[t] = Nothing
    BY <1>1, <1>2, <1>6, <2>1, ExchangeFails
  <2>3. CASE steal[t] # t /\ Goto(t, At("steal")) /\ UNCHANGED range
    <3>1. at'[t] = At("steal")
      BY <1>2, <2>3 DEF Goto
    <3>2. GoesOn(t) /\ at'[t].label = "steal"
      BY <2>3, <3>1 DEF GoesOn, At
    <3> QED
      BY <1>1, <1>2, <1>3, <1>6, <2>2, <2>3, <3>2, SearchNothing, SearchLocation
  <2>4. CASE steal[t] = t /\ Got(t, -1)
    <3>1. Finds(t, -1)
      BY <2>2, <2>4, NothingPair DEF Finds
    <3> QED
      BY <1>1, <1>2, <1>3, <1>6, <2>2, <2>4, <3>1, SearchNothing, SearchLocation
  <2> QED
    BY <1>6, <2>3, <2>4
<1> QED
  BY <1>4, <1>5, <1>6 DEF TakeOwn

LEMMA StealAccount ==
  ASSUME TurnInv, DynamicAccount, NEW t \in Threads, StealFromOther(t)
  PROVE  DynamicAccount'
<1>0. PICK v : v = steal[t]
  OBVIOUS
<1>1. /\ at[t].label = "steal" /\ \A u \in Threads : u # t => steal'[u] = steal[u]
      /\ work' = CompareExchange(v, w[t], <<w[t][1], w[t][2] - 1>>)
  BY <1>0 DEF StealFromOther, TurnInv, DataTypes
<1>2. /\ Searches(t) /\ IsMaster(t) /\ at \in [Threads -> Locations]
      /\ w \in [Threads -> Pairs] /\ work \in [Threads -> Pairs]
      /\ steal \in [Threads -> Threads]
      /\ v \in Threads /\ IsMaster(v) /\ at[t].back = "none"
      /\ \A m \in Threads : IsMaster(m) /\ Passed(t, m) => Left(m) = {}
      /\ w[t] = Nothing \/ w[t][1] < w[t][2]
      /\ v # t /\ Left(t) = {}
  <2>1. /\ at[t].label \in {"own", "steal"} => w[t] = Nothing \/ w[t][1] < w[t][2]
        /\ at[t].label = "steal" => steal[t] # t /\ Left(t) = {}
    BY <1>1, SearchSteps
  <2> QED
    BY <1>0, <1>1, <2>1, SearchSteps
<1>3. work[v][1] \in Nat /\ work[v] \in Pairs /\ (Viable(v) <=> Left(v) # {})
  BY <1>1, <1>2, SearchSteps
<1>4. CASE /\ Viable(v) /\ w[t] = work[v] /\ w' = [w EXCEPT ![t][1] = work[v][2] - 1]
           /\ Got(t, work[v][2] - 1) /\ steal' = steal
  <2> DEFINE i == work[v][2] - 1
             pair == <<work[v][1], i>>
  <2>1. i \in Int /\ pair \in Pairs
    BY <1>3, PairFields, PairIn
  <2>2. work' = [work EXCEPT ![v] = pair]
    BY <1>1, <1>2, <1>4 DEF CompareExchange
  <2>3. Finds(t, i)
    <3>1. w'[t] = [w[t] EXCEPT ![1] = i] /\ w[t] \in Pairs
      BY <1>2, <1>4
    <3>2. [w[t] EXCEPT ![1] = i] = <<i, w[t][2]>>
      BY <2>1, <3>1, PairFields
    <3> QED
      BY <1>4, <3>1, <3>2 DEF Finds
  <2> HIDE DEF i, pair
  <2> QED
    BY <1>2, <1>4, <2>1, <2>2, <2>3, SearchSome DEF i, pair
<1>5. CASE Viable(v) /\ w[t] # work[v] /\ w' = [w EXCEPT ![t] = work[v]] /\ UNCHANGED <<at, range, steal>>
  <2>1. work' = work
    BY <1>1, <1>2, <1>5, ExchangeFails
  <2>2. GoesOn(t) /\ at'[t].label = "steal"
    BY <1>1, <1>2, <1>5 DEF GoesOn
  <2>3. w'[t][1] < w'[t][2]
    BY <1>2, <1>5 DEF Viable
  <2>4. /\ IsMaster(steal'[t]) /\ steal'[t] # t
        /\ \A m \in Threads : IsMaster(m) /\ Passed(t, m)' => Left(m) = {}
    BY <1>0, <1>2, <1>5 DEF Passed
  <2> QED
    BY <1>2, <2>1, <2>2, <2>3, <2>4, SearchNothing, SearchLocation
<1>6. CASE /\ ~ Viable(v) /\ w' = [w EXCEPT ![t] = Nothing]
           /\ steal' = [steal EXCEPT ![t] = StealAfter(policy, v)]
           /\ IF StealAfter(policy, v) # t THEN UNCHANGED <<at, range>> ELSE Got(t, -1)
  <2>1. work[v] # w[t]
    BY <1>2, <1>3, <1>6, NothingPair DEF Viable
  <2>2. work' = work /\ w'[t] = Nothing /\ steal'[t] = StealAfter(policy, v)
    BY <1>1, <1>2, <1>6, <2>1, ExchangeFails
  <2>3. policy \in Policies
    BY <1>2, SearchingMaster
  <2>4. IsMaster(steal'[t])
    BY <1>2, <2>2, <2>3, NextMaster
  <2>5. ASSUME NEW m \in Threads, IsMaster(m), Passed(t, m)'
        PROVE  Left(m) = {}
    <3>1. IF t < StealAfter(policy, v)
            THEN t < m /\ m < StealAfter(policy, v)
            ELSE t < m \/ m < StealAfter(policy, v)
      BY <2>2, <2>5 DEF Passed
    <3>2. m = v \/ IF t < v THEN t < m /\ m < v ELSE t < m \/ m < v
      BY <1>2, <2>3, <2>5, <3>1, GoneOn
    <3>3. m = v \/ Passed(t, m)
      BY <1>0, <3>2 DEF Passed
    <3> QED
      BY <1>2, <1>3, <1>6, <2>5, <3>3
  <2>6. CASE StealAfter(policy, v) # t
    <3>1. GoesOn(t) /\ at'[t].label = "steal"
      BY <1>1, <1>2, <1>6, <2>6 DEF GoesOn
    <3> QED
      BY <1>2, <2>2, <2>4, <2>5, <2>6, <3>1, SearchNothing, SearchLocation
  <2>7. CASE StealAfter(policy, v) = t
    <3>1. Finds(t, -1)
      BY <1>6, <2>2, <2>7, NothingPair DEF Finds
    <3> QED
      BY <1>2, <2>2, <2>4, <2>5, <2>7, <3>1, SearchNothing, SearchLocation
  <2> QED
    BY <2>6, <2>7
<1> QED
  BY <1>0, <1>4, <1>5, <1>6 DEF StealFromOther

-----------------------------------------------------------------------------
(* The account from launch to launch.                                      *)

\* Every chunk is in the first block of a team.
LEMMA ChunkOwner ==
  ASSUME NEW p \in Policies, NEW i \in 0 .. FirstChunk(p, LeagueSize(p)) - 1
  PROVE  \E m \in Threads :
           /\ Active(p, m) /\ Base(p, m) = m
           /\ i \in FirstChunk(p, League(p, m)) .. FirstChunk(p, League(p, m) + 1) - 1
<1> DEFINE P == PartSize(p.length, Chunk(p), LeagueSize(p))
           n == LeagueSize(p)
           l == i \div P
           m == l * Alloc(p)
<1>1. P \in Nat /\ n \in Nat \ {0}
  BY PolicyNumbers, TeamNumbers
<1>2. \A k : FirstChunk(p, k) = P * k
  BY DEF FirstChunk
<1>3. i \in 0 .. P * n - 1
  BY <1>2 DEF n
<1> HIDE DEF P, n
<1>4. P * n \in Nat /\ P * n = n * P
  BY <1>1
<1>5. P # 0
  <2>1. P = 0 => P * n = 0
    BY <1>1
  <2> QED
    BY <1>3, <1>4, <2>1
<1>6. i \in Nat /\ i < n * P
  BY <1>3, <1>4
<1>7. l \in Nat /\ l < n /\ l * P <= i /\ i < (l + 1) * P
  BY <1>1, <1>5, <1>6, DivModDef, DivLess
<1> HIDE DEF l
<1>8. l \in 0 .. LeagueSize(p) - 1
  BY <1>1, <1>7 DEF n
<1>9. m \in Threads /\ Active(p, m) /\ Base(p, m) = m /\ League(p, m) = l
  BY <1>8, LeagueBase
<1>10. /\ l * P = P * l /\ (l + 1) * P = P * (l + 1)
       /\ P * l \in Nat /\ P * (l + 1) \in Nat
  BY <1>1, <1>7
<1>11. i \in P * l .. P * (l + 1) - 1
  BY <1>6, <1>7, <1>10
<1> QED
  BY <1>2, <1>9, <1>11

LEMMA LaunchAccount ==
  ASSUME Launch, policy' \in Policies
  PROVE  DynamicAccount' /\ StaticAccount' /\ BehindTheEnd'
<1>1. /\ at' = [t \in Threads |-> Begin(policy')]
      /\ range' = [t \in Threads |-> <<0, 0>>]
      /\ w' = [t \in Threads |-> Nothing]
      /\ executed' = [r \in Iterations |-> [t \in Threads |-> 0]]
  BY DEF Launch
<1>2. \A t \in Threads :
        /\ at'[t].back = "none" /\ at'[t].label \in {"organize", "partition"}
        /\ range'[t] = <<0, 0>> /\ w'[t] = Nothing
  BY <1>1 DEF Begin, At
<1>3. \A t \in Threads : ~ Executing(t)' /\ ~ ToRead(t)'
  BY <1>2, NobodyBegan
<1>4. \A r \in Iterations, t \in Threads : executed'[r][t] = 0
  BY <1>1
<1>5. 0 .. policy'.length - 1 \subseteq Iterations
  BY DEF Iterations
<1>6. \A t \in Threads : ~ Partitioned(t)' /\ at'[t].label # "joined"
  BY <1>2 DEF Partitioned
<1>7. \A t \in Threads : ~ HasTurn(t)'
  <2> SUFFICES ASSUME NEW t \in Threads, Sharing(Master(t))'
               PROVE  FALSE
    BY <1>3 DEF HasTurn
  <2>1. Base(policy', t) \in Threads
    BY ThreadNumbers
  <2>2. \A u \in Threads : ~ Sharing(u)'
    BY <1>2 DEF Sharing
  <2>3. Sharing(Master(t))' <=>
          at'[Base(policy', t)].label = "share" \/ at'[Base(policy', t)].back = "chunk"
    BY DEF Sharing, Master
  <2> QED
    BY <1>2, <2>1, <2>3
<1>8. StaticAccount'
  BY <1>3, <1>4, <1>5, <1>6 DEF StaticAccount
<1>9. BehindTheEnd'
  BY <1>4 DEF BehindTheEnd
<1>10. Blocks' /\ Thieves'
  BY <1>6 DEF Blocks, Thieves
<1>11. NothingLeft'
  BY <1>6, <1>7 DEF NothingLeft, GivenUp
<1>12. EveryChunk'
  <2> SUFFICES ASSUME NEW i \in Chunks'
               PROVE  /\ \E m \in Threads : IsMaster(m)' /\ i \in Left(m)'
                      /\ Untaken(i)'
    BY DEF EveryChunk
  <2>1. i \in 0 .. FirstChunk(policy', LeagueSize(policy')) - 1
    BY DEF Chunks, FirstChunk
  <2>2. PICK m \in Threads :
          /\ Active(policy', m) /\ Base(policy', m) = m
          /\ i \in FirstChunk(policy', League(policy', m))
                     .. FirstChunk(policy', League(policy', m) + 1) - 1
    BY <2>1, ChunkOwner
  <2>3. IsMaster(m)' /\ i \in Left(m)'
    BY <1>6, <2>2 DEF IsMaster, Master, Left, FirstChunk
  <2>4. \A r \in Iters(i)' : r \in Iterations
    <3>1. i \in Nat
      BY <2>1
    <3> SUFFICES ASSUME NEW r \in Iters(i)'
                 PROVE  r \in 0 .. policy'.length - 1
      BY <1>5
    <3> DEFINE c == Chunk(policy')
               n == policy'.length
               first == c * i
               end == IF first + c < n THEN first + c ELSE n
    <3>2. c \in Nat \ {0} /\ n \in Nat
      BY PolicyNumbers
    <3>3. ChunkRange(i)' = <<first, end>>
      BY DEF ChunkRange, Chunk, MinChunk
    <3>4. r \in first .. end - 1
      BY <3>3 DEF Iters
    <3> HIDE DEF c, n
    <3>5. first \in Nat
      BY <3>1, <3>2
    <3> HIDE DEF first
    <3>6. end \in Int /\ end <= n
      BY <3>2, <3>5
    <3> HIDE DEF end
    <3> QED
      BY <3>2, <3>4, <3>5, <3>6 DEF n
  <2>5. Untaken(i)'
    BY <1>4, <1>7, <2>4 DEF Untaken, Holds
  <2> QED
    BY <2>2, <2>3, <2>5
<1> QED
  BY <1>8, <1>9, <1>10, <1>11, <1>12 DEF DynamicAccount

AccountInv == TurnInv /\ Account /\ BehindTheEnd

LEMMA ThreadAccount ==
  ASSUME TurnInv, DynamicAccount, StaticAccount, NEW t \in Threads, Thread(t),
         PoolInv'
  PROVE  DynamicAccount' /\ StaticAccount'
<1>1. CASE TryOwn(t) \/ TakeOwn(t) \/ StealFromOther(t)
  <2>1. DynamicAccount'
    BY <1>1, TryOwnAccount, TakeOwnAccount, StealAccount
  <2>2. \A u \in Threads : u # t => steal'[u] = steal[u]
    BY <1>1 DEF TryOwn, TakeOwn, StealFromOther, TurnInv, DataTypes
  <2>3. policy.dynamic /\ policy' = policy
    BY <1>1, <2>2, SearchSteps, SearchingMaster
  <2> QED
    BY <2>1, <2>3 DEF StaticAccount
<1>2. CASE RunItem(t)
  <2>1. policy' = policy
    BY <1>2 DEF RunItem
  <2> QED
    BY <1>2, <2>1, RunItemStatic, RunItemDynamic DEF DynamicAccount
<1> QED
  BY <1>1, <1>2, BarrierAccount, QuietWorkAccount, PartitionAccount,
     OwnBlockAccount, ReadIndexAccount
  DEF Thread

LEMMA ThreadBehind ==
  ASSUME TurnInv, BehindTheEnd, NEW t \in Threads, Thread(t)
  PROVE  BehindTheEnd'
<1>1. CASE RunItem(t)
  <2>1. PICK r : r = range[t][1]
    OBVIOUS
  <2>2. r \in 0 .. policy.length - 1 /\ r \in Iterations /\ policy' = policy
    BY <1>1, <2>1, RunItemIteration DEF RunItem
  <2>3. executed \in [Iterations -> [Threads -> Nat]] /\ policy \in Policies
    BY DEF TurnInv, DataTypes, TeamsInStep, PoolInv, PoolTyping
  <2>4. \A k \in Iterations, u \in Threads :
          k # r => executed'[k][u] = executed[k][u]
    BY <1>1, <2>1, <2>2, <2>3, RunItemCount
  <2>5. policy.length \in Nat
    BY <2>3, PolicyNumbers
  <2>6. \A k \in Iterations : k >= policy.length => k # r
    BY <2>2, <2>5
  <2> QED
    BY <2>2, <2>4, <2>6 DEF BehindTheEnd
<1>2. CASE ~ RunItem(t)
  <2>1. policy' = policy /\ executed' = executed
    BY <1>2
    DEF Thread, Barrier, Arrive, Signal, MasterWait, Wait, Clear, Release,
        Organize, SetWorkPartition, StartStealing, OwnBlock, TryOwn, TakeOwn,
        StealFromOther, ShareIndex, ReadIndex
  <2> QED
    BY <2>1 DEF BehindTheEnd
<1> QED
  BY <1>1, <1>2

\* Before the first launch no thread can move.
LEMMA FreshRests ==
  ASSUME TurnInv, Fresh, NEW t \in Threads
  PROVE  ~ Thread(t)
<1>1. at[t].label = "joined"
  BY DEF Fresh, AllJoined
<1> QED
  BY <1>1
  DEF Thread, Barrier, Arrive, Signal, MasterWait, Wait, Clear, Release,
      Organize, SetWorkPartition, StartStealing, OwnBlock, TryOwn, TakeOwn,
      StealFromOther, ShareIndex, ReadIndex, RunItem

LEMMA AccountRests ==
  ASSUME TurnInv, Account, BehindTheEnd, UNCHANGED teamVars
  PROVE  Account' /\ BehindTheEnd'
<1>1. /\ at' = at /\ policy' = policy /\ step' = step /\ barrier' = barrier
      /\ w' = w /\ range' = range /\ executed' = executed /\ todo' = todo
      /\ UNCHANGED <<work, steal>> /\ 0 \in Threads
      /\ at \in [Threads -> Locations]
  BY PoolOfThreads DEF teamVars, TurnInv, TeamsInStep, PoolInv, PoolTyping
<1>2. BehindTheEnd'
  BY <1>1 DEF BehindTheEnd
<1>3. CASE Fresh
  <2>1. Fresh'
    BY <1>1, <1>3 DEF Fresh, AllJoined
  <2> QED
    BY <1>2, <2>1 DEF Account
<1>4. CASE DynamicAccount /\ StaticAccount
  <2>1. Moves(0)
    BY <1>1 DEF Moves
  <2>2. \A u \in Threads : Kept(u)
    BY <1>1
    DEF Kept, HasTurn, Executing, ToRead, Sharing, Entered, TeamChunk, Master
  <2>3. Partitioned(0)' <=> Partitioned(0)
    BY <1>1 DEF Partitioned
  <2>4. DynamicAccount' /\ StaticAccount'
    BY <1>1, <1>4, <2>1, <2>2, <2>3, KeptAccount
  <2> QED
    BY <1>2, <2>4 DEF Account
<1> QED
  BY <1>3, <1>4 DEF Account

LEMMA AccountInit == Init => AccountInv
<1> SUFFICES ASSUME Init
             PROVE  AccountInv
  OBVIOUS
<1>1. TurnInv
  BY TurnInvInit
<1>2. AllJoined
  BY DEF Init, AllJoined, At
<1>3. Fresh
  BY <1>2 DEF Fresh, Init
<1>4. BehindTheEnd
  BY DEF BehindTheEnd, Init
<1> QED
  BY <1>1, <1>3, <1>4 DEF AccountInv, Account

LEMMA AccountNext == AccountInv /\ [Next]_teamVars => AccountInv'
<1> SUFFICES ASSUME AccountInv, [Next]_teamVars
             PROVE  AccountInv'
  OBVIOUS
<1>1. TurnInv /\ TurnInv' /\ Account /\ BehindTheEnd
  BY TurnInvNext DEF AccountInv
<1>2. PoolInv' /\ policy' \in Policies
  BY <1>1 DEF TurnInv, TeamsInStep, PoolInv, PoolTyping
<1>3. CASE Launch
  BY <1>1, <1>2, <1>3, LaunchAccount DEF AccountInv, Account
<1>4. ASSUME NEW t \in Threads, Thread(t)
      PROVE  AccountInv'
  <2>1. DynamicAccount /\ StaticAccount
    BY <1>1, <1>4, FreshRests DEF Account
  <2> QED
    BY <1>1, <1>2, <1>4, <2>1, ThreadAccount, ThreadBehind DEF AccountInv, Account
<1>5. CASE UNCHANGED teamVars
  BY <1>1, <1>5, AccountRests DEF AccountInv
<1> QED
  BY <1>3, <1>4, <1>5 DEF Next

\* Every chunk is left in the block of a master, or a team has it, or a team has
\* executed it, through all the exchanges of get_work_stealing and steal.
THEOREM AccountInvariant == Spec => []AccountInv
<1> QED
  BY AccountInit, AccountNext, PTL DEF Spec

LEMMA ByOneTeam ==
  ASSUME AccountInv, NEW r \in Iterations,
         NEW t \in Threads, executed[r][t] > 0,
         NEW u \in Threads, executed[r][u] > 0
  PROVE  executed[r][t] = 1 /\ League(policy, t) = League(policy, u)
<1>1. policy \in Policies /\ policy.length \in Nat
  <2>1. policy \in Policies
    BY DEF AccountInv, TurnInv, TeamsInStep, PoolInv, PoolTyping
  <2> QED
    BY <2>1, PolicyNumbers
<1>2. DynamicAccount /\ StaticAccount
  BY DEF AccountInv, Account, Fresh
<1>3. r \in 0 .. policy.length - 1
  <2>1. ~ r >= policy.length
    BY DEF AccountInv, BehindTheEnd
  <2>2. r \in Nat
    BY DEF Iterations
  <2> QED
    BY <1>1, <2>1, <2>2
<1>4. CASE policy.dynamic
  <2> DEFINE i == r \div Chunk(policy)
  <2>1. i \in Chunks /\ r \in Iters(i)
    BY <1>1, <1>3, ChunkOf
  <2> HIDE DEF i
  <2>2. ~ Untaken(i)
    BY <2>1 DEF Untaken
  <2>3. PICK m \in Threads : TakenBy(m, i)
    BY <1>2, <1>4, <2>1, <2>2 DEF DynamicAccount, EveryChunk
  <2>4. executed[r][t] = 1 /\ Master(t) = m /\ Master(u) = m
    BY <2>1, <2>3 DEF TakenBy
  <2> QED
    BY <1>1, <2>4, LeagueIsTeam DEF Master
<1>5. CASE ~ policy.dynamic
  <2>1. /\ executed[r][t] = 1 /\ Active(policy, t) /\ Active(policy, u)
        /\ Block(t)[1] <= r /\ r < Block(t)[2]
        /\ Block(u)[1] <= r /\ r < Block(u)[2]
    BY <1>2, <1>3, <1>5 DEF StaticAccount
  <2>2. /\ League(policy, t) \in 0 .. LeagueSize(policy) - 1
        /\ League(policy, u) \in 0 .. LeagueSize(policy) - 1
        /\ Chunk(policy) \in Nat \ {0} /\ LeagueSize(policy) \in Nat \ {0}
    BY <1>1, <2>1, ActiveLeague, PolicyNumbers, TeamNumbers
  <2> QED
    BY <1>1, <1>3, <2>1, <2>2, PartitionDisjoint DEF Block
<1> QED
  BY <1>4, <1>5

LEMMA ByAllOfATeam ==
  ASSUME AccountInv, AllJoined, todo \notin Programs,
         NEW r \in 0 .. policy.length - 1
  PROVE  \E t \in Threads :
           /\ Active(policy, t)
           /\ \A u \in Teammates(policy, t) : executed[r][u] = 1
<1>1. policy \in Policies /\ PoolInv
  BY DEF AccountInv, TurnInv, TeamsInStep, PoolInv, PoolTyping
<1>2. DynamicAccount /\ StaticAccount
  BY DEF AccountInv, Account, Fresh
<1>3. \A t \in Threads : at[t].label = "joined" /\ at[t].back = "none"
  BY <1>1, TeamScope DEF AllJoined, PlainLabels
<1>4. CASE policy.dynamic
  <2> DEFINE i == r \div Chunk(policy)
  <2>1. i \in Chunks /\ r \in Iters(i)
    BY <1>1, ChunkOf
  <2> HIDE DEF i
  <2>2. \A t \in Threads : ~ HasTurn(t)
    BY <1>1, <1>3, ThreadNumbers DEF HasTurn, Executing, ToRead, Sharing, Master
  <2>3. 0 \in Threads /\ IsMaster(0)
    <3>1. 0 \in 0 .. LeagueSize(policy) - 1 /\ 0 * Alloc(policy) = 0
      BY <1>1, TeamNumbers
    <3> QED
      BY <1>1, <3>1, LeagueMaster
  <2>4. GivenUp(0) /\ Active(policy, 0)
    BY <1>3, <1>4, <2>3
    DEF AccountInv, TurnInv, Turns, Returned, GivenUp, IsMaster
  <2>5. \A m \in Threads : IsMaster(m) => Left(m) = {}
    BY <1>2, <1>4, <2>3, <2>4 DEF DynamicAccount, NothingLeft
  <2>6. PICK m \in Threads : IsMaster(m) /\ TakenBy(m, i)
    BY <1>2, <1>4, <2>1, <2>5 DEF DynamicAccount, EveryChunk
  <2>7. \A u \in Teammates(policy, m) :
          u \in Threads /\ Active(policy, u) /\ Master(u) = m
    BY <2>6 DEF Teammates, IsMaster, Master
  <2>8. \A u \in Threads : Behind(u, i, r)
    BY <2>2 DEF Behind, Holds
  <2> QED
    BY <2>1, <2>6, <2>7, <2>8 DEF TakenBy, IsMaster
<1>5. CASE ~ policy.dynamic
  <2>1. /\ Chunk(policy) \in Nat \ {0} /\ LeagueSize(policy) \in Nat \ {0}
        /\ policy.length \in Nat
    BY <1>1, PolicyNumbers, TeamNumbers
  <2>2. PICK l \in 0 .. LeagueSize(policy) - 1 :
          /\ PartFirst(policy.length, Chunk(policy), LeagueSize(policy), l) <= r
          /\ r < PartEnd(policy.length, Chunk(policy), LeagueSize(policy), l)
    BY <2>1, PartitionCovers
  <2>3. PICK m \in Threads : IsMaster(m) /\ League(policy, m) = l
    BY <1>1, LeagueMaster
  <2>4. ASSUME NEW u \in Teammates(policy, m)
        PROVE  executed[r][u] = 1
    <3>1. u \in Threads /\ Active(policy, u) /\ Base(policy, u) = Base(policy, m)
      BY DEF Teammates
    <3>2. League(policy, u) = l
      BY <1>1, <2>3, <3>1, LeagueIsTeam
    <3>3. Block(u)[1] <= r /\ r < Block(u)[2]
      BY <2>2, <3>2 DEF Block
    <3> QED
      BY <1>2, <1>3, <1>5, <3>1, <3>3 DEF StaticAccount
  <2> QED
    BY <2>3, <2>4 DEF IsMaster
<1> QED
  BY <1>4, <1>5

\* No iteration is executed by two teams, nor twice by one, however the owner of
\* a block and the thieves interleave, for every pool and every launch.
THEOREM ExecutedAtMostOnce == Spec => []AtMostOnce
<1>1. AccountInv => AtMostOnce
  BY ByOneTeam DEF AtMostOnce
<1> QED
  BY <1>1, AccountInvariant, PTL

\* When a launch has returned, every iteration has been executed by all the
\* members of one team, for every pool and every launch.
THEOREM EverythingIsExecuted == Spec => []AllExecuted
<1>1. AccountInv => AllExecuted
  BY ByAllOfATeam DEF AllExecuted
<1> QED
  BY <1>1, AccountInvariant, PTL

\* The invariant of the pool, which a run checks on a small one.
THEOREM TeamInvariant == Spec => []TeamInv
<1>1. TypeOK /\ AccountInv => TeamInv
  BY DEF AccountInv, TeamInv
<1> QED
  BY <1>1, AccountInvariant, TypesAreKept, PTL
=============================================================================
