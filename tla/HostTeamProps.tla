----------------------------- MODULE HostTeamProps -----------------------------
(***************************************************************************)
(* What a launch on the thread pool must guarantee, and the invariant that *)
(* says why it does.                                                       *)
(***************************************************************************)
EXTENDS HostTeam, FiniteSets

(* Where a thread can be.                                                  *)

PlainLabels ==
  {"joined", "organize", "partition", "partitioned", "own_block", "try_own",
   "own", "steal", "share", "read_index", "item"}

PlainLocations == {At(label) : label \in PlainLabels}

PoolLocations ==
  [label : {"arrive", "signal", "wait", "clear", "release"},
   scope : {"pool"}, back : {"partition", "partitioned"}]

\* A master who meets his team to steal for it does not release it from there.
TeamLocations ==
  [label : {"arrive", "signal", "wait"}, scope : {"team"},
   back : {"take", "item"}]
  \cup [label : {"clear", "release"}, scope : {"team"},
        back : {"item", "chunk"}]

Locations == PlainLocations \cup PoolLocations \cup TeamLocations

Counters == [arrive : Nat, master : Nat, wait : Nat]

Pairs == Int \X Int

DataTypes ==
  /\ steal \in [Threads -> Threads]
  /\ work \in [Threads -> Pairs]
  /\ w \in [Threads -> Pairs]
  /\ range \in [Threads -> Pairs]
  /\ teamIndex \in [Threads -> Int]
  /\ executed \in [Iterations -> [Threads -> Nat]]

\* Every variable has its type; in particular no counter of a barrier is ever
\* negative and no rank leaves the pool.
TypeOK ==
  /\ todo \in Seq(Policies)
  /\ policy \in Policies
  /\ at \in [Threads -> Locations]
  /\ step \in [Threads -> [pool : Nat, team : Nat]]
  /\ barrier \in [Places -> Counters]
  /\ DataTypes

\* No iteration is executed by two teams, nor twice by one, however the owner of
\* a block and the thieves interleave.
AtMostOnce ==
  \A r \in Iterations :
    LET by == {t \in Threads : executed[r][t] > 0}
    IN  /\ \A t \in by : executed[r][t] = 1
        /\ \A t, u \in by : League(policy, t) = League(policy, u)

\* When the launch returns, each iteration has been executed by all the members
\* of one team: no chunk is lost between its owner and the thieves.
AllExecuted ==
  AllJoined /\ todo \notin Programs =>
    \A r \in 0 .. policy.length - 1 :
      \E t \in Threads :
        /\ Active(policy, t)
        /\ \A u \in Teammates(policy, t) : executed[r][u] = 1

\* exec_team: "Don't allow team members to lap one another so that they don't
\* overwrite shared memory".
NoLapping ==
  \A t, u \in Threads :
    /\ at[t].label = "item" /\ at[u].label = "item"
    /\ League(policy, t) = League(policy, u)
    /\ Active(policy, t) /\ Active(policy, u)
    => range[t] = range[u]

\* execute: "Make sure work partition is set before stealing".
NobodyStealsEarly ==
  (\E t \in Threads : at[t].label \in {"try_own", "own", "steal"}) =>
    \A u \in Threads : at[u].label \notin {"organize", "partition"}

\* Between two launches the barriers can be used again: all threads have made
\* the same steps, and no arrival is left over.
BarrierReusable ==
  AllJoined =>
    /\ barrier[PoolPlace].arrive = 0
    /\ \A t \in Threads :
         /\ step[t].pool = barrier[PoolPlace].wait
         /\ step[t].pool = barrier[PoolPlace].master

\* Every launch returns: no thread waits at a barrier that has gone on without
\* it, and no thief turns for ever.
LaunchesReturn == <>(todo = << >> /\ AllJoined)

-----------------------------------------------------------------------------
(***************************************************************************)
(* Why it holds: the inductive invariant, in four parts.                   *)
(*                                                                         *)
(* The rendezvous of the pool.  What a thread is behind in rendezvous of a *)
(* launch, it still has ahead.                                             *)
(***************************************************************************)
InPool(loc) == loc.scope = "pool"

\* A launch with the dynamic schedule has one more rendezvous of the pool.
Dynamic(p) == IF p.dynamic /\ PoolSize > 1 THEN 1 ELSE 0

\* The rendezvous of the pool a thread at loc still has to arrive at.
Ahead(p, loc) ==
  IF loc.label = "organize" THEN Dynamic(p) + (IF PoolSize > 1 THEN 1 ELSE 0)
  ELSE IF loc.label = "arrive" /\ loc.back = "partition" THEN Dynamic(p) + 1
  ELSE IF "partition" \in {loc.label, loc.back} THEN Dynamic(p)
  ELSE IF loc.label = "arrive" /\ loc.back = "partitioned" THEN 1
  ELSE 0

\* The locations only the dynamic schedule leads to.
ForStealing(loc) ==
  \/ loc.label \in {"partitioned", "try_own", "own", "steal", "share",
                    "read_index"}
  \/ loc.back \in {"partitioned", "take", "chunk"}

PoolTyping ==
  /\ todo \in Seq(Policies)
  /\ policy \in Policies
  /\ at \in [Threads -> Locations]
  /\ step \in [Threads -> [pool : Nat, team : Nat]]
  /\ barrier \in [Places -> [arrive : Int, master : Int, wait : Int]]

Pool == barrier[PoolPlace]

\* The threads that have arrived at the rendezvous that is going on.
Arrived == {t \in Threads : step[t].pool = Pool.wait + 1}

Releasing == InPool(at[0]) /\ at[0].label = "release"

Signalling(t) == InPool(at[t]) /\ at[t].label = "signal"

\* Who is in the rendezvous is one step ahead until it is released.
Rounds ==
  \A t \in Threads :
    /\ step[t].pool \in {Pool.wait, Pool.wait + 1}
    /\ ~ InPool(at[t]) \/ at[t].label = "arrive" => step[t].pool = Pool.wait
    /\ InPool(at[t]) /\ at[t].label \in {"signal", "clear", "release"} =>
         step[t].pool = Pool.wait + 1
    /\ InPool(at[t]) /\ at[t].label \in {"clear", "release"} => t = 0
    /\ t = 0 /\ InPool(at[t]) /\ at[t].label = "wait" =>
         step[t].pool = Pool.wait + 1

\* arrive counts them, until the master takes them back.
Counted ==
  /\ Pool.arrive = IF Releasing THEN 0 ELSE Cardinality(Arrived)
  /\ InPool(at[0]) /\ at[0].label \in {"clear", "release"} =>
       Arrived = Threads /\ Pool.master = Pool.wait + 1

\* The last one to arrive, and no one else, tells the master.
Signalled ==
  /\ \A t, u \in Threads : Signalling(t) /\ Signalling(u) => t = u
  /\ (\E t \in Threads : Signalling(t)) => Arrived = Threads
  /\ Pool.master =
       IF Arrived = Threads /\ ~ \E t \in Threads : Signalling(t)
         THEN Pool.wait + 1 ELSE Pool.wait

\* What a thread is behind in rendezvous, it still has ahead.
InStep ==
  \A t, u \in Threads :
    step[t].pool + Ahead(policy, at[t]) = step[u].pool + Ahead(policy, at[u])

Scheduled == \A t \in Threads : ForStealing(at[t]) => policy.dynamic

PoolInv ==
  PoolTyping /\ Rounds /\ Counted /\ Signalled /\ InStep /\ Scheduled

-----------------------------------------------------------------------------
(***************************************************************************)
(* The rendezvous of the teams.  The first thread of a team is its master. *)
(***************************************************************************)
Master(t) == Base(policy, t)

IsMaster(t) == Active(policy, t) /\ Master(t) = t

Same(t, u) ==
  Active(policy, t) /\ Active(policy, u) /\ Master(t) = Master(u)

\* What a thread does about the rendezvous of its team: a master holds it up
\* until it has a chunk to share.
TeamPart(loc) ==
  IF loc.scope = "team" /\ loc.label \in {"signal", "wait", "release"}
    THEN loc.label
  ELSE IF \/ loc.scope = "team" /\ loc.label = "clear"
          \/ loc.label \in {"try_own", "own", "steal", "share"}
    THEN "held"
  ELSE "out"

\* A round of the barrier b, at which the set S of threads meets: who has
\* arrived is one step ahead until the master m releases it.
ArrivedAt(S, steps, b) == {u \in S : steps[u] = b.wait + 1}

SignallingAt(S, part) == {u \in S : part[u] = "signal"}

Round(S, m, part, steps, b) ==
  /\ \A u \in S :
       /\ steps[u] \in {b.wait, b.wait + 1}
       /\ part[u] = "out" => steps[u] = b.wait
       /\ part[u] \in {"signal", "held", "release"} => steps[u] = b.wait + 1
       /\ part[u] \in {"held", "release"} => u = m
       /\ u = m /\ part[u] = "wait" => steps[u] = b.wait + 1
  /\ b.arrive = IF part[m] = "release"
                  THEN 0 ELSE Cardinality(ArrivedAt(S, steps, b))
  /\ part[m] \in {"held", "release"} => b.master = b.wait + 1
  /\ \A u, v \in SignallingAt(S, part) : u = v
  /\ SignallingAt(S, part) # {} => ArrivedAt(S, steps, b) = S
  /\ b.master = IF ArrivedAt(S, steps, b) = S /\ SignallingAt(S, part) = {}
                  THEN b.wait + 1 ELSE b.wait

Parts == [t \in Threads |-> TeamPart(at[t])]

TeamSteps == [t \in Threads |-> step[t].team]

TeamRound(m) == Round(Teammates(policy, m), m, Parts, TeamSteps, barrier[m])

Organized == \A t \in Threads : at[t].label # "organize"

TeamRounds ==
  policy.team > 1 =>
    IF Organized
      THEN \A m \in Threads : IsMaster(m) => TeamRound(m)
      ELSE \A t \in Threads : at[t].label # "organize" =>
             /\ step[t].team = 0
             /\ Master(t) = t => barrier[t] = NewBarrier

\* Where the kinds of threads can be.
InTeam(loc) ==
  \/ loc.scope = "team"
  \/ loc.label \in {"own_block", "try_own", "own", "steal", "share",
                    "read_index", "item"}

OfTeams(loc) ==
  \/ loc.scope = "team"
  \/ loc.label \in {"read_index", "share", "organize"}
  \/ loc.back = "partition"

Placed(p, t, loc) ==
  /\ OfTeams(loc) => p.team > 1
  /\ InTeam(loc) => Active(p, t)
  /\ TeamPart(loc) \in {"held", "release"} => Base(p, t) = t
  /\ loc.label = "read_index" => Base(p, t) # t
  /\ loc.label = "own_block" => ~ p.dynamic

Whereabouts == \A t \in Threads : Placed(policy, t, at[t])

TeamsInStep == PoolInv /\ Whereabouts /\ TeamRounds

-----------------------------------------------------------------------------
(***************************************************************************)
(* The turns of a team: between two of their rendezvous its members are at *)
(* the same iterations.                                                    *)
(***************************************************************************)

Entered(t) ==
  policy.team > 1 /\ step[t].team = barrier[Master(t)].wait + 1

\* t is released to read the index its master has shared.
ToRead(t) ==
  \/ at[t].label = "read_index"
  \/ at[t].label = "wait" /\ at[t].back = "take" /\ ~ Entered(t)

Executing(t) == at[t].label = "item" \/ at[t].back = "item"

\* t has executed the iteration of the round.
Turned(t) == at[t].label = "arrive" \/ Entered(t)

\* The chunk of a team, and whether t has it before it.
TeamChunk(t) == w[Master(t)][1]

Sharing(m) == at[m].label = "share" \/ at[m].back = "chunk"

HasTurn(t) ==
  \/ Executing(t)
  \/ ToRead(t)
  \/ policy.team > 1 /\ Active(policy, t) /\ Sharing(Master(t))

Block(t) ==
  << PartFirst(policy.length, Chunk(policy), LeagueSize(policy), League(policy, t)),
     PartEnd(policy.length, Chunk(policy), LeagueSize(policy), League(policy, t)) >>

\* The iterations left when the round began.
RoundRange(t) ==
  IF at[t].back = "item" /\ Turned(t)
    THEN <<range[t][1] - 1, range[t][2]>>
  ELSE IF ToRead(t)
    THEN ChunkRange(TeamChunk(t))
  ELSE IF ~ policy.dynamic /\ at[t].label # "joined" /\ ~ Executing(t)
    THEN Block(t)
  ELSE range[t]

\* t has found nothing more to do.
Over(t) == at[t].label = "joined" \/ ToRead(t)

Stopped(t) == policy.dynamic /\ Over(t) /\ TeamChunk(t) < 0

SameRound ==
  \A t, u \in Threads :
    Same(t, u) /\ ~ Stopped(t) /\ ~ Stopped(u) => RoundRange(t) = RoundRange(u)

\* The iterations of a thread are some of its block, or of the chunk of its team.
Given(t) == IF policy.dynamic THEN ChunkRange(TeamChunk(t)) ELSE Block(t)

InRange(t) ==
  Executing(t) =>
    /\ policy.dynamic => TeamChunk(t) >= 0
    /\ Given(t)[1] <= range[t][1]
    /\ range[t][1] < range[t][2]
    /\ range[t][2] = Given(t)[2]

\* With the dynamic schedule a thread that has no iteration before it is at the
\* end of its range.
AtTheEnd(t) ==
  policy.dynamic /\ at[t].label # "joined" /\ ~ Executing(t) /\ ~ ToRead(t)

Ended(t) == AtTheEnd(t) => range[t][1] + 1 >= range[t][2]

Shared(t) ==
  ToRead(t) \/ at[t].back = "chunk" => teamIndex[Master(t)] = TeamChunk(t)

Returned(t) ==
  policy.dynamic /\ Active(policy, t) /\ at[t].label = "joined" => TeamChunk(t) < 0

Turns ==
  \A t \in Threads : InRange(t) /\ Ended(t) /\ Shared(t) /\ Returned(t)

\* A team stops as a whole.
StopTogether ==
  \A t, u \in Threads : Same(t, u) /\ Stopped(t) => Over(u)

TurnInv == TeamsInStep /\ DataTypes /\ Turns /\ SameRound /\ StopTogether

-----------------------------------------------------------------------------
(***************************************************************************)
(* The account of the iterations.  Every chunk is left in a block, or a    *)
(* team has it, or a team has executed it.                                 *)
(***************************************************************************)

Chunks == 0 .. FirstChunk(policy, LeagueSize(policy)) - 1

Partitioned(t) ==
  at[t].label \notin {"organize", "partition"} /\ at[t].back # "partition"

\* The chunks left in the block of a master.
Left(m) ==
  IF Partitioned(m) THEN work[m][1] .. work[m][2] - 1
  ELSE FirstChunk(policy, League(policy, m))
         .. FirstChunk(policy, League(policy, m) + 1) - 1

Holds(t, i) == HasTurn(t) /\ TeamChunk(t) = i

Iters(i) == ChunkRange(i)[1] .. ChunkRange(i)[2] - 1

\* t has executed the iteration r of the chunk i if its team has the chunk.
Behind(t, i, r) ==
  \/ ~ Holds(t, i)
  \/ Executing(t) /\ r < range[t][1]

\* The chunk i has been taken by the team of m.
TakenBy(m, i) ==
  \A t \in Threads :
    /\ Holds(t, i) => Active(policy, t) /\ Master(t) = m
    /\ \A r \in Iters(i) :
         executed[r][t] =
           IF Active(policy, t) /\ Master(t) = m /\ Behind(t, i, r) THEN 1 ELSE 0

Untaken(i) ==
  \A t \in Threads : ~ Holds(t, i) /\ \A r \in Iters(i) : executed[r][t] = 0

EveryChunk ==
  \A i \in Chunks :
    IF \E m \in Threads : IsMaster(m) /\ i \in Left(m)
      THEN Untaken(i)
      ELSE \E m \in Threads : IsMaster(m) /\ TakenBy(m, i)

Blocks ==
  \A m \in Threads : IsMaster(m) /\ Partitioned(m) =>
    /\ FirstChunk(policy, League(policy, m)) <= work[m][1]
    /\ work[m][1] <= work[m][2]
    /\ work[m][2] <= FirstChunk(policy, League(policy, m) + 1)

\* The masters a thief has gone past since its launch began.
Passed(t, m) ==
  IF t < steal[t] THEN t < m /\ m < steal[t] ELSE t < m \/ m < steal[t]

Thieves ==
  \A t \in Threads : IsMaster(t) /\ Partitioned(t) =>
    /\ IsMaster(steal[t])
    /\ \A m \in Threads : IsMaster(m) /\ Passed(t, m) => Left(m) = {}
    /\ at[t].label \in {"own", "steal"} => w[t] = Nothing \/ w[t][1] < w[t][2]
    /\ at[t].label = "steal" => steal[t] # t /\ Left(t) = {}

\* A team that has no chunk before it, or has joined.
GivenUp(t) == TeamChunk(t) < 0 /\ (HasTurn(t) \/ at[t].label = "joined")

NothingLeft ==
  \A t, m \in Threads :
    Active(policy, t) /\ GivenUp(t) /\ IsMaster(m) => Left(m) = {}

DynamicAccount ==
  policy.dynamic => EveryChunk /\ Blocks /\ Thieves /\ NothingLeft

\* Of its own block, and nothing else.
StaticAccount ==
  ~ policy.dynamic =>
    \A t \in Threads, r \in 0 .. policy.length - 1 :
      executed[r][t] =
        IF /\ Active(policy, t)
           /\ Block(t)[1] <= r /\ r < Block(t)[2]
           /\ \/ at[t].label = "joined"
              \/ Executing(t) /\ r < range[t][1]
          THEN 1 ELSE 0

\* Nothing has been launched.
Fresh ==
  /\ todo \in Programs /\ AllJoined
  /\ \A t \in Threads : w[t] = Nothing /\ range[t] = <<0, 0>>
  /\ \A r \in Iterations, t \in Threads : executed[r][t] = 0

\* What has been executed, before the first launch and since.
Account ==
  \/ Fresh
  \/ DynamicAccount /\ StaticAccount

BehindTheEnd ==
  \A r \in Iterations, t \in Threads :
    r >= policy.length => executed[r][t] = 0

\* In every reachable state the threads are in step with the barriers of the
\* pool and of their teams, the members of a team are in the same round, and each
\* chunk has been executed, or is being executed, by the team that took it.
TeamInv == TypeOK /\ TurnInv /\ Account /\ BehindTheEnd
=============================================================================
