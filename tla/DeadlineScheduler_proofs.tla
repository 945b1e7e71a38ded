----------------------- MODULE DeadlineScheduler_proofs ----------------------
(***************************************************************************)
(* Proofs about the scheduler, for every number of nodes, sessions,        *)
(* deadlines and overlapping ticks, and every value of the bounds.         *)
(***************************************************************************)
EXTENDS DeadlineScheduler, FiniteSetTheorems, TLAPS

Copies == UNION {Deadline(d) : d \in Deadlines}

\* The local state of a tick, phase by phase.
Started == [phase : {"acquiring", "releasing"}, node : Nodes]

BetweenDeadlines == [phase : {"walking"}, node : Nodes, now : Nat, visited : SUBSET Deadlines]

AtAStage == [phase : {"staging", "marking", "acting"}, node : Nodes, now : Nat,
             visited : SUBSET Deadlines, deadline : Deadlines, copy : Copies, stage : Nat]

LocalType(tick) ==
    \/ tick = Idle
    \/ tick \in Started
    \/ tick \in BetweenDeadlines
    \/ /\ tick \in AtAStage
       /\ tick.copy \in Deadline(tick.deadline)
       /\ tick.phase # "staging" => tick.stage \in Stages(tick.deadline)

DeadlinesType ==
    /\ deadlines = [n \in Nodes |-> deadlines[n]]
    /\ \A n \in Nodes : /\ DOMAIN deadlines[n] \subseteq Deadlines
                        /\ \A d \in DOMAIN deadlines[n] : deadlines[n][d] \in Deadline(d)

TicksType ==
    /\ ticks = [t \in Ticks |-> ticks[t]]
    /\ \A t \in Ticks : LocalType(ticks[t])

LockType ==
    /\ lock \in [holder : Sessions \cup {<<>>}, count : Nat]
    /\ lock.holder \in Sessions <=> lock.count > 0

TypeInv ==
    /\ now \in Nat /\ severed \in BOOLEAN
    /\ DeadlinesType /\ TicksType /\ LockType
    /\ processed \subseteq Keys /\ emitted \in [Keys -> Nat]

-----------------------------------------------------------------------------
(***************************************************************************)
(* The parts of the state.                                                 *)
(***************************************************************************)
LEMMA NobodyIsNoSession == <<>> \notin Sessions
BY DEF Sessions

LEMMA KeyInKeys ==
    ASSUME NEW d \in Deadlines, NEW i \in Stages(d)
    PROVE  Key(d, i) \in Keys
BY DEF Keys

LEMMA GoType ==
    ASSUME TicksType, NEW t \in Ticks, NEW local, LocalType(local), Go(t, local)
    PROVE  TicksType'
<1>1. ticks' = [u \in Ticks |-> IF u = t THEN local ELSE ticks[u]]
  BY DEF Go, TicksType
<1>2. \A u \in Ticks : LocalType(ticks'[u])
  BY <1>1 DEF TicksType
<1>3. ticks' = [u \in Ticks |-> ticks'[u]]
  BY <1>1
<1>4. QED BY <1>2, <1>3 DEF TicksType, LocalType

LEMMA PutType ==
    ASSUME DeadlinesType, NEW n \in Nodes, NEW d \in Deadlines,
           NEW x \in Deadline(d), Put(n, d, x)
    PROVE  DeadlinesType'
<1> DEFINE after == [e \in DOMAIN deadlines[n] \cup {d} |->
                        IF e = d THEN x ELSE deadlines[n][e]]
<1>1. deadlines' = [m \in Nodes |-> IF m = n THEN after ELSE deadlines[m]]
  BY DEF Put, DeadlinesType
<1>2. /\ DOMAIN after \subseteq Deadlines
      /\ \A e \in DOMAIN after : after[e] \in Deadline(e)
  BY DEF DeadlinesType
<1>3. ASSUME NEW m \in Nodes
      PROVE  /\ DOMAIN deadlines'[m] \subseteq Deadlines
             /\ \A e \in DOMAIN deadlines'[m] : deadlines'[m][e] \in Deadline(e)
  <2>1. CASE m = n
    BY <1>1, <1>2, <2>1
  <2>2. CASE m # n
    BY <1>1, <2>2 DEF DeadlinesType
  <2>3. QED BY <2>1, <2>2
<1>4. deadlines' = [m \in Nodes |-> deadlines'[m]]
  BY <1>1
<1>5. QED BY <1>3, <1>4 DEF DeadlinesType, Deadline, Stages

LEMMA LockAfterAcquire ==
    ASSUME LockType, NEW s \in Sessions
    PROVE  /\ TryAcquire(s) \in [holder : Sessions \cup {<<>>}, count : Nat]
           /\ TryAcquire(s).holder \in Sessions <=> TryAcquire(s).count > 0
BY DEF LockType, TryAcquire

LEMMA LockAfterRelease ==
    ASSUME LockType, NEW s \in Sessions
    PROVE  /\ Released(s) \in [holder : Sessions \cup {<<>>}, count : Nat]
           /\ Released(s).holder \in Sessions <=> Released(s).count > 0
<1>1. CASE lock.holder # s
  BY <1>1 DEF LockType, Released
<1>2. CASE lock.holder = s /\ lock.count = 1
  BY <1>2, NobodyIsNoSession DEF LockType, Released, Free
<1>3. CASE lock.holder = s /\ lock.count # 1
  BY <1>3 DEF LockType, Released
<1>4. QED BY <1>1, <1>2, <1>3

-----------------------------------------------------------------------------
(***************************************************************************)
(* Types, one lemma per step.                                              *)
(***************************************************************************)
LEMMA AcquireType ==
    ASSUME TypeInv, NEW t \in Ticks, Acquire(t)
    PROVE  TypeInv'
<1>1. ticks[t].node \in Nodes
  BY DEF Acquire, TypeInv, TicksType, LocalType, Idle, Started, BetweenDeadlines, AtAStage
<1>2. PICK k \in 1 .. PoolSize :
          /\ lock' = TryAcquire(<<ticks[t].node, k>>)
          /\ IF lock' # lock
             THEN Go(t, [phase |-> "walking", node |-> ticks[t].node, now |-> now,
                         visited |-> {}])
             ELSE Go(t, Idle)
  BY DEF Acquire
<1>3. LockType'
  <2>1. <<ticks[t].node, k>> \in Sessions
    BY <1>1 DEF Sessions
  <2>2. QED BY <1>2, <2>1, LockAfterAcquire DEF TypeInv, LockType
<1>4. TicksType'
  <2>1. LocalType([phase |-> "walking", node |-> ticks[t].node, now |-> now, visited |-> {}])
    BY <1>1 DEF TypeInv, LocalType, BetweenDeadlines
  <2>2. LocalType(Idle)
    BY DEF LocalType
  <2>3. QED BY <1>2, <2>1, <2>2, GoType DEF TypeInv
<1>5. QED BY <1>3, <1>4 DEF TypeInv, Acquire, DeadlinesType

LEMMA VisitType ==
    ASSUME TypeInv, NEW t \in Ticks, Visit(t)
    PROVE  TypeInv'
<1>1. ticks[t] \in BetweenDeadlines
  BY DEF Visit, TypeInv, TicksType, LocalType, Idle, Started, BetweenDeadlines, AtAStage
<1> DEFINE tick == ticks[t]
           mine == deadlines[tick.node]
<1>2. /\ DOMAIN mine \subseteq Deadlines
      /\ \A d \in DOMAIN mine : mine[d] \in Deadline(d)
  BY <1>1 DEF TypeInv, DeadlinesType, BetweenDeadlines
<1>3. TicksType'
  <2>1. CASE DOMAIN mine \subseteq tick.visited
    <3>1. LocalType(Releasing(tick))
      BY <1>1 DEF Releasing, LocalType, Started, BetweenDeadlines
    <3>2. QED BY <2>1, <3>1, GoType DEF Visit, TypeInv
  <2>2. CASE ~(DOMAIN mine \subseteq tick.visited)
    <3>1. PICK d \in DOMAIN mine \ tick.visited :
             Go(t, IF mine[d].state = "Completed"
                   THEN [tick EXCEPT !.visited = @ \cup {d}]
                   ELSE [phase |-> "staging", node |-> tick.node, now |-> tick.now,
                         visited |-> [tick EXCEPT !.visited = @ \cup {d}].visited,
                         deadline |-> d, copy |-> mine[d], stage |-> 1])
      BY <2>2 DEF Visit
    <3>2. d \in Deadlines /\ mine[d] \in Deadline(d) /\ mine[d] \in Copies
      BY <1>2 DEF Copies
    <3>3. LocalType([tick EXCEPT !.visited = @ \cup {d}])
      BY <1>1, <3>2 DEF LocalType, BetweenDeadlines
    <3>4. LocalType([phase |-> "staging", node |-> tick.node, now |-> tick.now,
                     visited |-> [tick EXCEPT !.visited = @ \cup {d}].visited,
                     deadline |-> d, copy |-> mine[d], stage |-> 1])
      BY <1>1, <3>2 DEF LocalType, BetweenDeadlines, AtAStage
    <3>5. QED BY <3>1, <3>3, <3>4, GoType DEF TypeInv
  <2>3. QED BY <2>1, <2>2
<1>4. QED BY <1>3 DEF TypeInv, Visit, DeadlinesType, LockType

LEMMA AtStage ==
    ASSUME TypeInv, NEW t \in Ticks, ticks[t].phase \in {"staging", "marking", "acting"}
    PROVE  /\ ticks[t] \in AtAStage
           /\ ticks[t].copy \in Deadline(ticks[t].deadline)
           /\ ticks[t].phase # "staging" => ticks[t].stage \in Stages(ticks[t].deadline)
BY DEF TypeInv, TicksType, LocalType, Idle, Started, BetweenDeadlines

LEMMA NextStageType ==
    ASSUME NEW tick \in AtAStage, tick.copy \in Deadline(tick.deadline)
    PROVE  /\ NextStage(tick) \in AtAStage /\ NextStage(tick).phase = "staging"
           /\ LocalType(NextStage(tick))
<1>1. PICK n \in Nat : n = tick.stage + 1
  BY DEF AtAStage
<1>2. NextStage(tick) = [tick EXCEPT !.phase = "staging", !.stage = n]
  BY <1>1 DEF NextStage
<1>3. /\ [tick EXCEPT !.phase = "staging", !.stage = n] \in AtAStage
      /\ [tick EXCEPT !.phase = "staging", !.stage = n].phase = "staging"
      /\ LocalType([tick EXCEPT !.phase = "staging", !.stage = n])
  BY DEF AtAStage, LocalType
<1>4. QED BY <1>2, <1>3

LEMMA ReleasingType ==
    ASSUME NEW tick \in AtAStage
    PROVE  LocalType(Releasing(tick))
BY DEF Releasing, LocalType, AtAStage, Started

LEMMA ProcessDeadlineStageType ==
    ASSUME TypeInv, NEW t \in Ticks, ProcessDeadlineStage(t)
    PROVE  TypeInv'
<1> DEFINE tick == ticks[t]
<1>1. tick \in AtAStage /\ tick.copy \in Deadline(tick.deadline)
  BY AtStage DEF ProcessDeadlineStage
<1>2. PICK i \in ToTrigger(tick) : Go(t, [tick EXCEPT !.phase = "marking", !.stage = i])
  BY DEF ProcessDeadlineStage
<1>3. i \in Stages(tick.deadline) /\ i \in Nat
  BY <1>1, SchedulerAssumption DEF ToTrigger, AtAStage
<1>4. LocalType([tick EXCEPT !.phase = "marking", !.stage = i])
  BY <1>1, <1>3 DEF LocalType, AtAStage
<1>5. TicksType'
  BY <1>2, <1>4, GoType DEF TypeInv
<1>6. QED BY <1>5 DEF TypeInv, ProcessDeadlineStage, DeadlinesType, LockType

LEMMA MarkAsProcessedType ==
    ASSUME TypeInv, NEW t \in Ticks, MarkAsProcessed(t)
    PROVE  TypeInv'
<1> DEFINE tick == ticks[t]
<1>1. /\ tick \in AtAStage /\ tick.copy \in Deadline(tick.deadline)
      /\ tick.stage \in Stages(tick.deadline)
  BY AtStage DEF MarkAsProcessed
<1>2. LocalType(NextStage(tick)) /\ LocalType([tick EXCEPT !.phase = "acting"])
  BY <1>1, NextStageType DEF LocalType, AtAStage
<1>3. TicksType'
  BY <1>2, GoType DEF TypeInv, MarkAsProcessed
<1>4. processed' \subseteq Keys
  BY <1>1, KeyInKeys DEF TypeInv, MarkAsProcessed, AtAStage
<1>5. QED BY <1>3, <1>4 DEF TypeInv, MarkAsProcessed, DeadlinesType, LockType

LEMMA ExecuteTaskActionType ==
    ASSUME TypeInv, NEW t \in Ticks, ExecuteTaskAction(t)
    PROVE  TypeInv'
<1> DEFINE tick == ticks[t]
           key == Key(tick.deadline, tick.stage)
           done == [tick.copy EXCEPT !.executed[tick.stage] = TRUE]
<1>1. /\ tick \in AtAStage /\ tick.copy \in Deadline(tick.deadline)
      /\ tick.stage \in Stages(tick.deadline)
      /\ tick.node \in Nodes /\ tick.deadline \in Deadlines
  BY AtStage DEF ExecuteTaskAction, AtAStage
<1>2. TicksType'
  BY <1>1, NextStageType, ReleasingType, GoType DEF TypeInv, ExecuteTaskAction
<1>3. emitted' \in [Keys -> Nat]
  BY DEF TypeInv, ExecuteTaskAction
<1>4. DeadlinesType'
  <2>1. done \in Deadline(tick.deadline)
    BY <1>1 DEF Deadline
  <2>2. CASE AppendThrows(tick.deadline)
    BY <2>2 DEF ExecuteTaskAction, TypeInv, DeadlinesType
  <2>3. CASE ~AppendThrows(tick.deadline)
    <3>1. Put(tick.node, tick.deadline, done)
      BY <2>3 DEF ExecuteTaskAction
    <3>2. QED BY <1>1, <2>1, <3>1, PutType DEF TypeInv
  <2>4. QED BY <2>2, <2>3
<1>5. QED BY <1>2, <1>3, <1>4 DEF TypeInv, ExecuteTaskAction, LockType

LEMMA UpdateStateType ==
    ASSUME TypeInv, NEW t \in Ticks, UpdateState(t)
    PROVE  TypeInv'
<1> DEFINE tick == ticks[t]
           state == NewState(tick.deadline, tick.copy.state, tick.now)
           moved == [tick.copy EXCEPT !.state = state]
<1>1. /\ tick \in AtAStage /\ tick.copy \in Deadline(tick.deadline)
      /\ tick.node \in Nodes /\ tick.deadline \in Deadlines
  BY AtStage DEF UpdateState, AtAStage
<1>2. TicksType'
  <2>1. LocalType(Walking(tick))
    BY <1>1 DEF LocalType, Walking, BetweenDeadlines, AtAStage
  <2>2. QED BY <2>1, GoType DEF TypeInv, UpdateState
<1>3. DeadlinesType'
  <2>1. moved \in Deadline(tick.deadline)
    BY <1>1 DEF Deadline, NewState
  <2>2. CASE state = tick.copy.state
    BY <2>2 DEF UpdateState, TypeInv, DeadlinesType
  <2>3. CASE state # tick.copy.state
    <3>1. Put(tick.node, tick.deadline, moved)
      BY <2>3 DEF UpdateState
    <3>2. QED BY <1>1, <2>1, <3>1, PutType DEF TypeInv
  <2>4. QED BY <2>2, <2>3
<1>4. QED BY <1>2, <1>3 DEF TypeInv, UpdateState, LockType

LEMMA ReleaseType ==
    ASSUME TypeInv, NEW t \in Ticks, Release(t)
    PROVE  TypeInv'
<1>1. ticks[t].node \in Nodes
  BY DEF Release, TypeInv, TicksType, LocalType, Idle, Started, BetweenDeadlines, AtAStage
<1>2. LockType'
  <2>1. PICK k \in 1 .. PoolSize : lock' = Released(<<ticks[t].node, k>>)
    BY DEF Release
  <2>2. <<ticks[t].node, k>> \in Sessions
    BY <1>1 DEF Sessions
  <2>3. QED BY <2>1, <2>2, LockAfterRelease DEF TypeInv, LockType
<1>3. TicksType'
  BY GoType DEF TypeInv, Release, LocalType
<1>4. QED BY <1>2, <1>3 DEF TypeInv, Release, DeadlinesType

LEMMA CreateDeadlineType ==
    ASSUME TypeInv, NEW n \in Nodes, NEW d \in Deadlines, CreateDeadline(n, d)
    PROVE  TypeInv'
<1> DEFINE fresh == [state |-> "Pending", executed |-> [i \in Stages(d) |-> FALSE]]
<1>1. fresh \in Deadline(d)
  BY DEF Deadline
<1>2. DeadlinesType'
  BY <1>1, PutType DEF CreateDeadline, TypeInv
<1>3. QED BY <1>2 DEF CreateDeadline, TypeInv, TicksType, LocalType, LockType

LEMMA CompleteDeadlineType ==
    ASSUME TypeInv, NEW n \in Nodes, NEW d \in Deadlines, CompleteDeadline(n, d)
    PROVE  TypeInv'
<1> DEFINE over == [deadlines[n][d] EXCEPT !.state = "Completed"]
<1>1. over \in Deadline(d)
  BY DEF CompleteDeadline, TypeInv, DeadlinesType, Deadline
<1>2. DeadlinesType'
  BY <1>1, PutType DEF CompleteDeadline, TypeInv
<1>3. QED BY <1>2 DEF CompleteDeadline, TypeInv, TicksType, LocalType, LockType

LEMMA FreeType == Free \in [holder : Sessions \cup {<<>>}, count : Nat]
                  /\ (Free.holder \in Sessions <=> Free.count > 0)
BY NobodyIsNoSession DEF Free

LEMMA CloseSessionType ==
    ASSUME TypeInv, NEW s \in Sessions, CloseSession(s)
    PROVE  TypeInv'
BY FreeType DEF CloseSession, TypeInv, DeadlinesType, TicksType, LocalType, LockType

LEMMA CrashType ==
    ASSUME TypeInv, NEW n \in Nodes, Crash(n)
    PROVE  TypeInv'
<1>1. DeadlinesType'
  <2>1. deadlines' = [m \in Nodes |-> IF m = n THEN << >> ELSE deadlines[m]]
    BY DEF Crash, TypeInv, DeadlinesType
  <2>2. DOMAIN << >> = {}
    OBVIOUS
  <2>3. \A m \in Nodes : /\ DOMAIN deadlines'[m] \subseteq Deadlines
                         /\ \A d \in DOMAIN deadlines'[m] : deadlines'[m][d] \in Deadline(d)
    BY <2>1, <2>2 DEF TypeInv, DeadlinesType
  <2>4. QED BY <2>1, <2>3 DEF DeadlinesType, Deadline, Stages
<1>2. TicksType'
  <2>1. \A t \in Ticks : LocalType(ticks'[t])
    BY DEF Crash, TypeInv, TicksType, LocalType
  <2>2. ticks' = [t \in Ticks |-> ticks'[t]]
    BY DEF Crash
  <2>3. QED BY <2>1, <2>2 DEF TicksType, LocalType
<1>3. LockType'
  BY FreeType DEF Crash, TypeInv, LockType
<1>4. QED BY <1>1, <1>2, <1>3 DEF TypeInv, Crash

LEMMA RunSchedulingTickType ==
    ASSUME TypeInv, NEW t \in Ticks, NEW n \in Nodes, RunSchedulingTick(t, n)
    PROVE  TypeInv'
<1>1. LocalType([phase |-> "acquiring", node |-> n])
  BY DEF LocalType, Started
<1>2. TicksType'
  BY <1>1, GoType DEF RunSchedulingTick, TypeInv
<1>3. QED BY <1>2 DEF RunSchedulingTick, TypeInv, DeadlinesType, LockType

\* Every step of the cluster keeps the types.
LEMMA StepType == TypeInv /\ [Next]_vars => TypeInv'
<1> SUFFICES ASSUME TypeInv, [Next]_vars PROVE TypeInv'
  OBVIOUS
<1>1. ASSUME NEW t \in Ticks, TickStep(t) PROVE TypeInv'
  BY <1>1, AcquireType, VisitType, ProcessDeadlineStageType, MarkAsProcessedType,
     ExecuteTaskActionType, UpdateStateType, ReleaseType DEF TickStep
<1>2. ASSUME NEW n \in Nodes, NEW d \in Deadlines,
             CreateDeadline(n, d) \/ CompleteDeadline(n, d)
      PROVE  TypeInv'
  BY <1>2, CreateDeadlineType, CompleteDeadlineType
<1>3. CASE TimePasses
  BY <1>3 DEF TimePasses, TypeInv, DeadlinesType, TicksType, LocalType, LockType
<1>4. CASE UNCHANGED vars
  BY <1>4 DEF vars, TypeInv, DeadlinesType, TicksType, LocalType, LockType
<1>5. QED BY <1>1, <1>2, <1>3, <1>4, CloseSessionType, CrashType, RunSchedulingTickType
          DEF Next

LEMMA InitType == Init => TypeInv
<1> SUFFICES ASSUME Init PROVE TypeInv
  OBVIOUS
<1>1. DOMAIN << >> = {}
  OBVIOUS
<1>2. DeadlinesType
  BY <1>1 DEF Init, DeadlinesType
<1>3. TicksType
  BY DEF Init, TicksType, LocalType
<1>4. LockType
  BY FreeType DEF Init, LockType
<1>5. QED BY <1>2, <1>3, <1>4 DEF Init, TypeInv

LEMMA Typed == Spec => []TypeInv
BY InitType, StepType, PTL DEF Spec

\* Whatever the ticks, crashes and closed sessions do, every deadline of every
\* node is well formed, the lock has a holder exactly while it is counted, and
\* a tick in its critical section knows its node.
THEOREM TypeCorrect == Spec => []TypeOK
<1>1. TypeInv => TypeOK
  BY DEF TypeInv, TypeOK, DeadlinesType, TicksType, LockType, LocalType,
         InCriticalSection, Idle, Started, BetweenDeadlines, AtAStage
<1>2. QED BY <1>1, Typed, PTL

-----------------------------------------------------------------------------
(***************************************************************************)
(* At most one event per stage.  That is not inductive: what keeps it is   *)
(* that a key which is not in the table has no event, and that the one     *)
(* tick that put it there is the only one that acts on it.                 *)
(***************************************************************************)
KeyOf(tick) == Key(tick.deadline, tick.stage)

Acting(t) == ticks[t].phase = "acting"

Once ==
    /\ AtMostOnce
    /\ \A k \in Keys \ processed : emitted[k] = 0
    /\ \A t \in Ticks : Acting(t) => /\ KeyOf(ticks[t]) \in processed
                                    /\ emitted[KeyOf(ticks[t])] = 0
    /\ \A t, u \in Ticks :
          Acting(t) /\ Acting(u) /\ KeyOf(ticks[t]) = KeyOf(ticks[u]) => t = u

\* A step that neither marks nor emits nor lets a tick start to act.
Quiet ==
    /\ UNCHANGED <<processed, emitted>>
    /\ \A t \in Ticks : ticks'[t].phase = "acting" => ticks'[t] = ticks[t]

LEMMA QuietKeepsOnce == Once /\ Quiet => Once'
BY DEF Once, Quiet, AtMostOnce, Acting, KeyOf, Key, Keys, Stages

LEMMA GoIsQuiet ==
    ASSUME TypeInv, NEW t \in Ticks, NEW local, local.phase # "acting", Go(t, local),
           UNCHANGED <<processed, emitted>>
    PROVE  Quiet
BY DEF TypeInv, TicksType, Go, Quiet

LEMMA QuietSteps ==
    ASSUME TypeInv, NEW t \in Ticks,
           \/ Acquire(t) \/ Visit(t) \/ ProcessDeadlineStage(t) \/ UpdateState(t)
           \/ Release(t) \/ (\E n \in Nodes : RunSchedulingTick(t, n))
    PROVE  Quiet
<1>1. CASE Acquire(t)
  BY <1>1, GoIsQuiet DEF Acquire, Idle
<1>2. CASE Visit(t)
  <2>1. ticks[t] \in BetweenDeadlines
    BY <1>2 DEF Visit, TypeInv, TicksType, LocalType, Idle, Started, BetweenDeadlines, AtAStage
  <2>2. PICK local : Go(t, local) /\ local.phase # "acting"
    <3>1. CASE DOMAIN deadlines[ticks[t].node] \subseteq ticks[t].visited
      BY <1>2, <3>1 DEF Visit, Releasing
    <3>2. CASE ~(DOMAIN deadlines[ticks[t].node] \subseteq ticks[t].visited)
      <4>1. PICK d : LET seen == [ticks[t] EXCEPT !.visited = @ \cup {d}] IN
               Go(t, IF deadlines[ticks[t].node][d].state = "Completed" THEN seen
                     ELSE [phase |-> "staging", node |-> ticks[t].node,
                           now |-> ticks[t].now, visited |-> seen.visited,
                           deadline |-> d, copy |-> deadlines[ticks[t].node][d],
                           stage |-> 1])
        BY <1>2, <3>2 DEF Visit
      <4>2. [ticks[t] EXCEPT !.visited = @ \cup {d}].phase = "walking"
        BY <2>1 DEF BetweenDeadlines
      <4>3. CASE deadlines[ticks[t].node][d].state = "Completed"
        BY <4>1, <4>2, <4>3
      <4>4. CASE deadlines[ticks[t].node][d].state # "Completed"
        BY <4>1, <4>4
      <4>5. QED BY <4>3, <4>4
    <3>3. QED BY <3>1, <3>2
  <2>3. QED BY <1>2, <2>2, GoIsQuiet DEF Visit
<1>3. CASE ProcessDeadlineStage(t)
  <2>1. ticks[t] \in AtAStage
    BY <1>3, AtStage DEF ProcessDeadlineStage
  <2>2. PICK i : Go(t, [ticks[t] EXCEPT !.phase = "marking", !.stage = i])
    BY <1>3 DEF ProcessDeadlineStage
  <2>3. [ticks[t] EXCEPT !.phase = "marking", !.stage = i].phase = "marking"
    BY <2>1 DEF AtAStage
  <2>4. QED BY <1>3, <2>2, <2>3, GoIsQuiet DEF ProcessDeadlineStage
<1>4. CASE UpdateState(t)
  BY <1>4, GoIsQuiet DEF UpdateState, Walking
<1>5. CASE Release(t)
  BY <1>5, GoIsQuiet DEF Release, Idle
<1>6. CASE \E n \in Nodes : RunSchedulingTick(t, n)
  BY <1>6, GoIsQuiet DEF RunSchedulingTick
<1>7. QED BY <1>1, <1>2, <1>3, <1>4, <1>5, <1>6

LEMMA MarkAsProcessedOnce ==
    ASSUME TypeInv, Once, NEW t \in Ticks, MarkAsProcessed(t)
    PROVE  Once'
<1> DEFINE tick == ticks[t]
           key == Key(tick.deadline, tick.stage)
<1>1. tick \in AtAStage /\ tick.copy \in Deadline(tick.deadline)
  BY AtStage DEF MarkAsProcessed
<1>2. UNCHANGED emitted /\ processed' = processed \cup {key}
  BY DEF MarkAsProcessed
<1>3. CASE key \in processed
  <2>1. NextStage(tick).phase # "acting"
    BY <1>1, NextStageType
  <2>2. Go(t, NextStage(tick)) /\ processed' = processed
    BY <1>2, <1>3 DEF MarkAsProcessed
  <2>3. Quiet
    BY <1>2, <2>1, <2>2, GoIsQuiet
  <2>4. QED BY <2>3, QuietKeepsOnce
<1>4. CASE key \notin processed
  <2>1. ticks' = [ticks EXCEPT ![t] = [tick EXCEPT !.phase = "acting"]]
    BY <1>4 DEF MarkAsProcessed, Go
  <2>2. \A u \in Ticks : u # t => ticks'[u] = ticks[u]
    BY <2>1 DEF TypeInv, TicksType
  <2>3. ticks'[t] = [tick EXCEPT !.phase = "acting"]
    BY <2>1 DEF TypeInv, TicksType
  <2>4. KeyOf(ticks'[t]) = key
    BY <1>1, <2>3 DEF KeyOf, AtAStage
  <2>5. key \in Keys /\ emitted[key] = 0
    <3>1. tick.deadline \in Deadlines /\ tick.stage \in Stages(tick.deadline)
      BY AtStage DEF MarkAsProcessed, AtAStage
    <3>2. QED BY <3>1, KeyInKeys, <1>4 DEF Once
  <2>6. \A u \in Ticks : u # t /\ Acting(u)' =>
            /\ Acting(u) /\ KeyOf(ticks'[u]) = KeyOf(ticks[u])
            /\ KeyOf(ticks[u]) \in processed
    BY <2>2 DEF Acting, Once
  <2>7. AtMostOnce' /\ \A k \in Keys \ processed' : emitted'[k] = 0
    BY <1>2 DEF Once, AtMostOnce, Keys, Key, Stages
  <2>8. \A u \in Ticks : Acting(u)' => /\ KeyOf(ticks'[u]) \in processed'
                                       /\ emitted'[KeyOf(ticks'[u])] = 0
    BY <1>2, <2>4, <2>5, <2>6 DEF Once
  <2>9. \A u, v \in Ticks :
           Acting(u)' /\ Acting(v)' /\ KeyOf(ticks'[u]) = KeyOf(ticks'[v]) => u = v
    BY <1>4, <2>4, <2>6 DEF Once
  <2>10. QED BY <2>7, <2>8, <2>9 DEF Once, Acting, KeyOf, Key, Keys, Stages
<1>5. QED BY <1>3, <1>4

LEMMA ExecuteTaskActionOnce ==
    ASSUME TypeInv, Once, NEW t \in Ticks, ExecuteTaskAction(t)
    PROVE  Once'
<1> DEFINE tick == ticks[t]
           key == Key(tick.deadline, tick.stage)
<1>1. tick \in AtAStage /\ tick.copy \in Deadline(tick.deadline)
  BY AtStage DEF ExecuteTaskAction
<1>2. CASE AppendThrows(tick.deadline)
  <2>1. Go(t, Releasing(tick)) /\ UNCHANGED <<processed, emitted>>
    BY <1>2 DEF ExecuteTaskAction
  <2>2. QED BY <2>1, GoIsQuiet, QuietKeepsOnce DEF Releasing
<1>3. CASE ~AppendThrows(tick.deadline)
  <2>1. /\ ticks' = [ticks EXCEPT ![t] = NextStage(tick)]
        /\ emitted' = [emitted EXCEPT ![key] = @ + 1] /\ processed' = processed
    BY <1>3 DEF ExecuteTaskAction, Go
  <2>2. /\ \A u \in Ticks : u # t => ticks'[u] = ticks[u]
        /\ ~Acting(t)'
    BY <1>1, <2>1, NextStageType DEF TypeInv, TicksType, Acting
  <2>3. Acting(t) /\ KeyOf(tick) = key /\ key \in processed /\ emitted[key] = 0 /\ key \in Keys
    BY DEF ExecuteTaskAction, Acting, KeyOf, Once, TypeInv
  <2>4. emitted'[key] = 1 /\ \A k \in Keys \ {key} : emitted'[k] = emitted[k]
    BY <2>1, <2>3 DEF TypeInv
  <2>5. \A u \in Ticks : Acting(u)' =>
            /\ u # t /\ Acting(u) /\ ticks'[u] = ticks[u]
            /\ KeyOf(ticks[u]) # key /\ KeyOf(ticks[u]) \in Keys
    BY <2>2, <2>3 DEF Acting, Once, TypeInv
  <2>6. AtMostOnce' /\ \A k \in Keys \ processed' : emitted'[k] = 0
    BY <2>1, <2>3, <2>4 DEF Once, AtMostOnce, Keys, Key, Stages
  <2>7. \A u \in Ticks : Acting(u)' => /\ KeyOf(ticks'[u]) \in processed'
                                       /\ emitted'[KeyOf(ticks'[u])] = 0
    BY <2>1, <2>4, <2>5 DEF Once
  <2>8. \A u, v \in Ticks :
           Acting(u)' /\ Acting(v)' /\ KeyOf(ticks'[u]) = KeyOf(ticks'[v]) => u = v
    BY <2>5 DEF Once
  <2>9. QED BY <2>6, <2>7, <2>8 DEF Once, Acting, KeyOf, Key, Keys, Stages
<1>4. QED BY <1>2, <1>3

LEMMA StepOnce == TypeInv /\ Once /\ [Next]_vars => Once'
<1> SUFFICES ASSUME TypeInv, Once, [Next]_vars PROVE Once'
  OBVIOUS
<1>1. ASSUME NEW t \in Ticks, TickStep(t) PROVE Once'
  BY <1>1, QuietSteps, QuietKeepsOnce, MarkAsProcessedOnce, ExecuteTaskActionOnce DEF TickStep
<1>2. ASSUME NEW t \in Ticks, NEW n \in Nodes, RunSchedulingTick(t, n) PROVE Once'
  BY <1>2, QuietSteps, QuietKeepsOnce
<1>3. ASSUME NEW n \in Nodes, Crash(n) PROVE Once'
  <2>1. Quiet
    BY <1>3 DEF Crash, Quiet, Idle
  <2>2. QED BY <2>1, QuietKeepsOnce
<1>4. ASSUME NEW n \in Nodes, NEW d \in Deadlines,
             CreateDeadline(n, d) \/ CompleteDeadline(n, d)
      PROVE  Once'
  BY <1>4, QuietKeepsOnce DEF CreateDeadline, CompleteDeadline, Quiet
<1>5. ASSUME NEW s \in Sessions, CloseSession(s) PROVE Once'
  BY <1>5, QuietKeepsOnce DEF CloseSession, Quiet
<1>6. CASE TimePasses
  BY <1>6, QuietKeepsOnce DEF TimePasses, Quiet
<1>7. CASE UNCHANGED vars
  BY <1>7, QuietKeepsOnce DEF vars, Quiet
<1>8. QED BY <1>1, <1>2, <1>3, <1>4, <1>5, <1>6, <1>7 DEF Next

\* In a cluster of any size, with any number of overlapping ticks, whatever
\* the lock lets through and whichever nodes die, no stage's event is emitted
\* twice.
THEOREM AtMostOnceHolds == Spec => []AtMostOnce
<1>1. Init => Once
  BY DEF Init, Once, AtMostOnce, Acting, Idle
<1>2. Once => AtMostOnce
  BY DEF Once
<1>3. QED BY <1>1, <1>2, Typed, StepOnce, PTL DEF Spec

-----------------------------------------------------------------------------
(***************************************************************************)
(* What is down as executed was emitted.  The copy a tick works on, and    *)
(* puts back after other ticks have changed the map, must be as honest as  *)
(* the map.                                                                *)
(***************************************************************************)
Honest(d, x, done) == \A i \in Stages(d) : x.executed[i] => done[Key(d, i)] > 0

NodesHonest ==
    \A n \in Nodes : \A d \in DOMAIN deadlines[n] : Honest(d, deadlines[n][d], emitted)

TicksHonest ==
    \A t \in Ticks : ticks[t].phase \in {"staging", "marking", "acting"} =>
                        Honest(ticks[t].deadline, ticks[t].copy, emitted)

\* A step never takes an event back.
Growing == \A k \in Keys : emitted'[k] >= emitted[k]

LEMMA HonestStays ==
    ASSUME NEW before \in [Keys -> Nat], NEW after \in [Keys -> Nat],
           \A k \in Keys : after[k] >= before[k],
           NEW d \in Deadlines, NEW x, Honest(d, x, before)
    PROVE  Honest(d, x, after)
<1> SUFFICES ASSUME NEW i \in Stages(d), x.executed[i] PROVE after[Key(d, i)] > 0
  BY DEF Honest
<1>1. before[Key(d, i)] > 0 /\ Key(d, i) \in Keys
  BY KeyInKeys DEF Honest
<1>2. QED BY <1>1

LEMMA SameNodesHonest ==
    ASSUME TypeInv, TypeInv', Growing, NodesHonest, UNCHANGED deadlines
    PROVE  NodesHonest'
<1>1. \A n \in Nodes : \A d \in DOMAIN deadlines[n] : Honest(d, deadlines[n][d], emitted')
  BY HonestStays DEF NodesHonest, TypeInv, DeadlinesType, Growing
<1>2. QED BY <1>1 DEF NodesHonest

LEMMA PutHonest ==
    ASSUME TypeInv, TypeInv', Growing, NodesHonest, NEW n \in Nodes, NEW d \in Deadlines,
           NEW x, Honest(d, x, emitted'), Put(n, d, x)
    PROVE  NodesHonest'
<1> DEFINE after == [e \in DOMAIN deadlines[n] \cup {d} |->
                        IF e = d THEN x ELSE deadlines[n][e]]
<1>1. deadlines' = [m \in Nodes |-> IF m = n THEN after ELSE deadlines[m]]
  BY DEF Put, TypeInv, DeadlinesType
<1>2. \A m \in Nodes : \A e \in DOMAIN deadlines[m] : Honest(e, deadlines[m][e], emitted')
  BY HonestStays DEF NodesHonest, TypeInv, DeadlinesType, Growing
<1>3. \A e \in DOMAIN after : Honest(e, after[e], emitted')
  BY <1>2
<1>4. \A m \in Nodes : \A e \in DOMAIN deadlines'[m] : Honest(e, deadlines'[m][e], emitted')
  <2>1. SUFFICES ASSUME NEW m \in Nodes
                 PROVE  \A e \in DOMAIN deadlines'[m] : Honest(e, deadlines'[m][e], emitted')
    OBVIOUS
  <2>2. CASE m = n
    BY <1>1, <1>3, <2>2
  <2>3. CASE m # n
    BY <1>1, <1>2, <2>3
  <2>4. QED BY <2>2, <2>3
<1>5. QED BY <1>4 DEF NodesHonest

LEMMA SameTicksHonest ==
    ASSUME TypeInv, TypeInv', Growing, TicksHonest,
           \A u \in Ticks : ticks'[u] = ticks[u]
                           \/ ticks'[u].phase \notin {"staging", "marking", "acting"}
    PROVE  TicksHonest'
<1>1. \A u \in Ticks : ticks[u].phase \in {"staging", "marking", "acting"} =>
          /\ ticks[u].deadline \in Deadlines
          /\ Honest(ticks[u].deadline, ticks[u].copy, emitted')
  BY AtStage, HonestStays DEF TicksHonest, TypeInv, Growing, AtAStage
<1>2. QED BY <1>1 DEF TicksHonest

LEMMA GoHonest ==
    ASSUME TypeInv, TypeInv', Growing, TicksHonest, NEW t \in Ticks, NEW local, Go(t, local),
           local.phase \in {"staging", "marking", "acting"} =>
               Honest(local.deadline, local.copy, emitted')
    PROVE  TicksHonest'
<1>1. \A u \in Ticks : ticks[u].phase \in {"staging", "marking", "acting"} =>
          Honest(ticks[u].deadline, ticks[u].copy, emitted')
  BY AtStage, HonestStays DEF TicksHonest, TypeInv, Growing, AtAStage
<1>2. \A u \in Ticks : ticks'[u] = IF u = t THEN local ELSE ticks[u]
  BY DEF Go, TypeInv, TicksType
<1>3. QED BY <1>1, <1>2 DEF TicksHonest

AllHonest == NodesHonest /\ TicksHonest

LEMMA StepGrows ==
    ASSUME TypeInv, UNCHANGED emitted \/ \E t \in Ticks : ExecuteTaskAction(t)
    PROVE  Growing
<1> SUFFICES ASSUME NEW k \in Keys PROVE emitted'[k] >= emitted[k]
  BY DEF Growing
<1>1. emitted[k] \in Nat
  BY DEF TypeInv
<1>2. CASE UNCHANGED emitted
  BY <1>1, <1>2
<1>3. ASSUME NEW t \in Ticks, ExecuteTaskAction(t) PROVE emitted'[k] >= emitted[k]
  <2>1. PICK key : emitted' \in {emitted, [emitted EXCEPT ![key] = @ + 1]}
    BY <1>3 DEF ExecuteTaskAction
  <2>2. CASE emitted' = emitted
    BY <1>1, <2>2
  <2>3. CASE emitted' = [emitted EXCEPT ![key] = @ + 1]
    BY <1>1, <2>3 DEF TypeInv
  <2>4. QED BY <2>1, <2>2, <2>3
<1>4. QED BY <1>2, <1>3

LEMMA ThisCopyHonest ==
    ASSUME TypeInv, TypeInv', Growing, TicksHonest, NEW t \in Ticks,
           ticks[t].phase \in {"staging", "marking", "acting"}
    PROVE  Honest(ticks[t].deadline, ticks[t].copy, emitted')
BY AtStage, HonestStays DEF TicksHonest, TypeInv, Growing, AtAStage

LEMMA NextStageKeepsCopy ==
    ASSUME NEW tick \in AtAStage
    PROVE  NextStage(tick).deadline = tick.deadline /\ NextStage(tick).copy = tick.copy
BY DEF NextStage, AtAStage

LEMMA VisitHonest ==
    ASSUME TypeInv, TypeInv', AllHonest, NEW t \in Ticks, Visit(t)
    PROVE  AllHonest'
<1> DEFINE tick == ticks[t]
           mine == deadlines[tick.node]
<1>1. Growing /\ tick \in BetweenDeadlines
  BY StepGrows DEF Visit, TypeInv, TicksType, LocalType, Idle, Started, BetweenDeadlines,
                   AtAStage
<1>2. NodesHonest'
  BY <1>1, SameNodesHonest DEF Visit, AllHonest
<1>3. TicksHonest'
  <2>1. CASE DOMAIN mine \subseteq tick.visited
    BY <1>1, <2>1, GoHonest DEF Visit, Releasing, AllHonest
  <2>2. CASE ~(DOMAIN mine \subseteq tick.visited)
    <3>1. PICK d \in DOMAIN mine :
             LET seen == [tick EXCEPT !.visited = @ \cup {d}] IN
             Go(t, IF mine[d].state = "Completed" THEN seen
                   ELSE [phase |-> "staging", node |-> tick.node, now |-> tick.now,
                         visited |-> seen.visited, deadline |-> d, copy |-> mine[d],
                         stage |-> 1])
      BY <2>2 DEF Visit
    <3>2. [tick EXCEPT !.visited = @ \cup {d}].phase = "walking"
      BY <1>1 DEF BetweenDeadlines
    <3>3. d \in Deadlines /\ Honest(d, mine[d], emitted')
      BY <1>1, HonestStays DEF AllHonest, NodesHonest, TypeInv, DeadlinesType, Growing,
                               BetweenDeadlines
    <3>4. CASE mine[d].state = "Completed"
      BY <1>1, <3>1, <3>2, <3>4, GoHonest DEF AllHonest
    <3>5. CASE mine[d].state # "Completed"
      BY <1>1, <3>1, <3>3, <3>5, GoHonest DEF AllHonest
    <3>6. QED BY <3>4, <3>5
  <2>3. QED BY <2>1, <2>2
<1>4. QED BY <1>2, <1>3 DEF AllHonest

LEMMA ProcessDeadlineStageHonest ==
    ASSUME TypeInv, TypeInv', AllHonest, NEW t \in Ticks, ProcessDeadlineStage(t)
    PROVE  AllHonest'
<1> DEFINE tick == ticks[t]
<1>1. Growing /\ tick \in AtAStage /\ Honest(tick.deadline, tick.copy, emitted')
  BY StepGrows, AtStage, ThisCopyHonest DEF ProcessDeadlineStage, AllHonest
<1>2. NodesHonest'
  BY <1>1, SameNodesHonest DEF ProcessDeadlineStage, AllHonest
<1>3. PICK i : Go(t, [tick EXCEPT !.phase = "marking", !.stage = i])
  BY DEF ProcessDeadlineStage
<1>4. /\ [tick EXCEPT !.phase = "marking", !.stage = i].deadline = tick.deadline
      /\ [tick EXCEPT !.phase = "marking", !.stage = i].copy = tick.copy
  BY <1>1 DEF AtAStage
<1>5. QED BY <1>1, <1>2, <1>3, <1>4, GoHonest DEF AllHonest

LEMMA MarkAsProcessedHonest ==
    ASSUME TypeInv, TypeInv', AllHonest, NEW t \in Ticks, MarkAsProcessed(t)
    PROVE  AllHonest'
<1> DEFINE tick == ticks[t]
<1>1. Growing /\ tick \in AtAStage /\ Honest(tick.deadline, tick.copy, emitted')
  BY StepGrows, AtStage, ThisCopyHonest DEF MarkAsProcessed, AllHonest
<1>2. NodesHonest'
  BY <1>1, SameNodesHonest DEF MarkAsProcessed, AllHonest
<1>3. /\ [tick EXCEPT !.phase = "acting"].deadline = tick.deadline
      /\ [tick EXCEPT !.phase = "acting"].copy = tick.copy
  BY <1>1 DEF AtAStage
<1>4. Go(t, NextStage(tick)) \/ Go(t, [tick EXCEPT !.phase = "acting"])
  BY DEF MarkAsProcessed
<1>5. QED BY <1>1, <1>2, <1>3, <1>4, NextStageKeepsCopy, GoHonest DEF AllHonest

LEMMA ExecuteTaskActionHonest ==
    ASSUME TypeInv, TypeInv', AllHonest, NEW t \in Ticks, ExecuteTaskAction(t)
    PROVE  AllHonest'
<1> DEFINE tick == ticks[t]
           d == tick.deadline
           done == [tick.copy EXCEPT !.executed[tick.stage] = TRUE]
<1>1. /\ Growing /\ Honest(d, tick.copy, emitted')
      /\ tick \in AtAStage /\ d \in Deadlines /\ tick.node \in Nodes
      /\ tick.copy \in Deadline(d) /\ tick.stage \in Stages(d)
  BY StepGrows, AtStage, ThisCopyHonest DEF ExecuteTaskAction, AllHonest, AtAStage
<1>2. CASE AppendThrows(d)
  <2>1. UNCHANGED deadlines /\ Go(t, Releasing(tick))
    BY <1>2 DEF ExecuteTaskAction
  <2>2. QED BY <1>1, <2>1, SameNodesHonest, GoHonest DEF AllHonest, Releasing
<1>3. CASE ~AppendThrows(d)
  <2>1. /\ emitted' = [emitted EXCEPT ![Key(d, tick.stage)] = @ + 1]
        /\ Put(tick.node, d, done) /\ Go(t, NextStage(tick))
    BY <1>3 DEF ExecuteTaskAction
  <2>2. emitted'[Key(d, tick.stage)] > 0
    BY <1>1, <2>1, KeyInKeys DEF TypeInv
  <2>3. \A i \in Stages(d) : done.executed[i] => i = tick.stage \/ tick.copy.executed[i]
    BY <1>1 DEF Deadline
  <2>4. Honest(d, done, emitted')
    BY <1>1, <2>2, <2>3 DEF Honest
  <2>5. QED BY <1>1, <2>1, <2>4, PutHonest, GoHonest, NextStageKeepsCopy DEF AllHonest
<1>4. QED BY <1>2, <1>3

LEMMA UpdateStateHonest ==
    ASSUME TypeInv, TypeInv', AllHonest, NEW t \in Ticks, UpdateState(t)
    PROVE  AllHonest'
<1> DEFINE tick == ticks[t]
           d == tick.deadline
           state == NewState(d, tick.copy.state, tick.now)
           moved == [tick.copy EXCEPT !.state = state]
<1>1. /\ Growing /\ Honest(d, tick.copy, emitted')
      /\ d \in Deadlines /\ tick.node \in Nodes /\ tick.copy \in Deadline(d)
  BY StepGrows, AtStage, ThisCopyHonest DEF UpdateState, AllHonest, AtAStage
<1>2. TicksHonest'
  BY <1>1, GoHonest DEF UpdateState, AllHonest, Walking
<1>3. Honest(d, moved, emitted')
  <2>1. moved.executed = tick.copy.executed
    BY <1>1 DEF Deadline
  <2>2. QED BY <1>1, <2>1 DEF Honest
<1>4. UNCHANGED deadlines \/ Put(tick.node, d, moved)
  BY DEF UpdateState
<1>5. NodesHonest'
  BY <1>1, <1>3, <1>4, SameNodesHonest, PutHonest DEF AllHonest
<1>6. QED BY <1>2, <1>5 DEF AllHonest

LEMMA StepHonest == TypeInv /\ TypeInv' /\ AllHonest /\ [Next]_vars => AllHonest'
<1> SUFFICES ASSUME TypeInv, TypeInv', AllHonest, [Next]_vars PROVE AllHonest'
  OBVIOUS
<1>1. ASSUME NEW t \in Ticks, Acquire(t) \/ Release(t)
      PROVE  AllHonest'
  <2>1. Growing /\ UNCHANGED deadlines
    BY <1>1, StepGrows DEF Acquire, Release
  <2>2. \/ Go(t, Idle)
        \/ Go(t, [phase |-> "walking", node |-> ticks[t].node, now |-> now, visited |-> {}])
    BY <1>1 DEF Acquire, Release
  <2>3. QED BY <2>1, <2>2, SameNodesHonest, GoHonest DEF AllHonest, Idle
<1>2. ASSUME NEW t \in Ticks, TickStep(t) PROVE AllHonest'
  BY <1>1, <1>2, VisitHonest, ProcessDeadlineStageHonest, MarkAsProcessedHonest,
     ExecuteTaskActionHonest, UpdateStateHonest DEF TickStep
<1>3. ASSUME NEW t \in Ticks, NEW n \in Nodes, RunSchedulingTick(t, n) PROVE AllHonest'
  BY <1>3, StepGrows, SameNodesHonest, GoHonest DEF RunSchedulingTick, AllHonest
<1>4. ASSUME NEW n \in Nodes, Crash(n) PROVE AllHonest'
  <2>1. Growing
    BY <1>4, StepGrows DEF Crash
  <2>2. TicksHonest'
    <3>1. \A u \in Ticks : ticks'[u] = ticks[u] \/ ticks'[u] = Idle
      BY <1>4 DEF Crash
    <3>2. QED BY <2>1, <3>1, SameTicksHonest DEF AllHonest, Idle
  <2>3. NodesHonest'
    <3>1. deadlines' = [m \in Nodes |-> IF m = n THEN << >> ELSE deadlines[m]]
      BY <1>4 DEF Crash, TypeInv, DeadlinesType
    <3>2. DOMAIN << >> = {} /\ emitted' = emitted
      BY <1>4 DEF Crash
    <3>3. QED BY <3>1, <3>2 DEF AllHonest, NodesHonest
  <2>4. QED BY <2>2, <2>3 DEF AllHonest
<1>5. ASSUME NEW n \in Nodes, NEW d \in Deadlines, CreateDeadline(n, d) PROVE AllHonest'
  <2>1. Growing /\ UNCHANGED ticks
    BY <1>5, StepGrows DEF CreateDeadline
  <2>2. Honest(d, [state |-> "Pending", executed |-> [i \in Stages(d) |-> FALSE]], emitted')
    BY DEF Honest
  <2>3. QED BY <1>5, <2>1, <2>2, PutHonest, SameTicksHonest DEF CreateDeadline, AllHonest
<1>6. ASSUME NEW n \in Nodes, NEW d \in Deadlines, CompleteDeadline(n, d) PROVE AllHonest'
  <2>1. Growing /\ UNCHANGED ticks /\ d \in DOMAIN deadlines[n]
    BY <1>6, StepGrows DEF CompleteDeadline
  <2>2. Honest(d, deadlines[n][d], emitted') /\ deadlines[n][d] \in Deadline(d)
    BY <2>1, HonestStays DEF AllHonest, NodesHonest, TypeInv, DeadlinesType, Growing
  <2>3. [deadlines[n][d] EXCEPT !.state = "Completed"].executed = deadlines[n][d].executed
    BY <2>2 DEF Deadline
  <2>4. Honest(d, [deadlines[n][d] EXCEPT !.state = "Completed"], emitted')
    BY <2>2, <2>3 DEF Honest
  <2>5. QED BY <1>6, <2>1, <2>4, PutHonest, SameTicksHonest DEF CompleteDeadline, AllHonest
<1>7. CASE (\E s \in Sessions : CloseSession(s)) \/ TimePasses \/ UNCHANGED vars
  <2>1. Growing /\ UNCHANGED <<deadlines, ticks>>
    BY <1>7, StepGrows DEF CloseSession, TimePasses, vars
  <2>2. QED BY <2>1, SameNodesHonest, SameTicksHonest DEF AllHonest
<1>8. QED BY <1>2, <1>3, <1>4, <1>5, <1>6, <1>7 DEF Next

\* A stage that some node has down as executed has its event in the store,
\* although ticks put back copies that are older than the map.
THEOREM ExecutedIsEmittedHolds == Spec => []ExecutedIsEmitted
<1>1. Init => AllHonest
  <2>1. DOMAIN << >> = {}
    OBVIOUS
  <2>2. QED BY <2>1 DEF Init, AllHonest, NodesHonest, TicksHonest, Idle
<1>2. AllHonest => ExecutedIsEmitted
  BY DEF AllHonest, NodesHonest, Honest, ExecutedIsEmitted
<1>3. QED BY <1>1, <1>2, Typed, StepHonest, PTL DEF Spec

-----------------------------------------------------------------------------
(***************************************************************************)
(* One node at a time.  Ticks of one node share the lock, and a release    *)
(* through another session leaks it, so the count only bounds the ticks    *)
(* inside from above: it cannot reach zero under one of them.              *)
(***************************************************************************)
Inside == {t \in Ticks : InCriticalSection(t)}

LockCovers ==
    ~severed => /\ \A t \in Inside : lock.holder[1] = ticks[t].node
                /\ Cardinality(Inside) <= lock.count

LEMMA InsideFinite == /\ IsFiniteSet(Inside) /\ Cardinality(Inside) \in Nat
                      /\ Cardinality(Inside) = 0 <=> Inside = {}
<1>1. Inside \in SUBSET Ticks /\ IsFiniteSet(Ticks)
  BY SchedulerAssumption DEF Inside
<1>2. IsFiniteSet(Inside)
  BY <1>1, FS_Subset
<1>3. QED BY <1>2, FS_CardinalityType, FS_EmptySet

\* A step inside the critical section.
LEMMA SameLockCovers ==
    ASSUME LockCovers, UNCHANGED <<lock, severed>>, Inside' = Inside,
           \A t \in Inside : ticks'[t].node = ticks[t].node
    PROVE  LockCovers'
<1>1. Cardinality(Inside') = Cardinality(Inside)
  OBVIOUS
<1>2. QED BY <1>1 DEF LockCovers

LEMMA NobodyInside ==
    ASSUME Inside' = {}, lock'.count \in Nat
    PROVE  LockCovers'
<1>1. Cardinality(Inside') = 0
  BY FS_EmptySet
<1>2. QED BY <1>1 DEF LockCovers

LEMMA GoInside ==
    ASSUME TypeInv, NEW t \in Ticks, NEW local, Go(t, local)
    PROVE  /\ Inside' = IF local.phase \in {"idle", "acquiring"} THEN Inside \ {t}
                        ELSE Inside \cup {t}
           /\ ticks'[t] = local
           /\ \A u \in Ticks \ {t} : ticks'[u] = ticks[u]
<1>1. \A u \in Ticks : ticks'[u] = IF u = t THEN local ELSE ticks[u]
  BY DEF Go, TypeInv, TicksType
<1>2. QED BY <1>1 DEF Inside, InCriticalSection

LEMMA GoWithinCovers ==
    ASSUME TypeInv, LockCovers, NEW t \in Inside, NEW local, Go(t, local),
           local.phase \notin {"idle", "acquiring"}, local.node = ticks[t].node,
           UNCHANGED <<lock, severed>>
    PROVE  LockCovers'
<1>1. t \in Ticks
  BY DEF Inside
<1>2. Inside' = Inside /\ \A u \in Inside : ticks'[u].node = ticks[u].node
  BY <1>1, GoInside DEF Inside
<1>3. QED BY <1>2, SameLockCovers

LEMMA AcquireCovers ==
    ASSUME TypeInv, LockCovers, NEW t \in Ticks, Acquire(t)
    PROVE  LockCovers'
<1> DEFINE n == ticks[t].node
           inside == [phase |-> "walking", node |-> n, now |-> now, visited |-> {}]
<1>1. t \notin Inside
  BY DEF Acquire, Inside, InCriticalSection
<1>2. PICK k \in 1 .. PoolSize : /\ lock' = TryAcquire(<<n, k>>)
                                /\ IF lock' # lock THEN Go(t, inside) ELSE Go(t, Idle)
  BY DEF Acquire
<1>3. lock.count \in Nat /\ UNCHANGED severed
  BY DEF TypeInv, LockType, Acquire
<1>4. CASE lock' = lock
  <2>1. Inside' = Inside /\ \A u \in Inside : ticks'[u] = ticks[u]
    BY <1>1, <1>2, <1>4, GoInside DEF Idle, Inside
  <2>2. QED BY <1>3, <1>4, <2>1, SameLockCovers
<1>5. CASE lock' # lock
  <2>1. /\ lock' = [holder |-> <<n, k>>, count |-> lock.count + 1]
        /\ lock.count = 0 \/ lock.holder = <<n, k>>
    BY <1>2, <1>5 DEF TryAcquire
  <2>2. /\ Inside' = Inside \cup {t} /\ ticks'[t].node = n
        /\ \A u \in Inside : ticks'[u] = ticks[u]
    BY <1>1, <1>2, <1>5, GoInside DEF Inside
  <2>3. Cardinality(Inside') = Cardinality(Inside) + 1
    BY <1>1, <2>2, InsideFinite, FS_AddElement
  <2>4. ASSUME ~severed'
        PROVE  /\ \A u \in Inside' : lock'.holder[1] = ticks'[u].node
               /\ Cardinality(Inside') <= lock'.count
    <3>1. /\ \A u \in Inside : lock.holder[1] = ticks[u].node
          /\ Cardinality(Inside) <= lock.count
      BY <1>3, <2>4 DEF LockCovers
    <3>2. lock'.count = lock.count + 1 /\ lock'.holder[1] = n
      BY <2>1
    <3>3. \A u \in Inside : ticks[u].node = n
      BY <1>3, <2>1, <3>1, InsideFinite
    <3>4. QED BY <1>3, <2>2, <2>3, <3>1, <3>2, <3>3, InsideFinite
  <2>5. QED BY <2>4 DEF LockCovers
<1>6. QED BY <1>4, <1>5

LEMMA ReleaseCovers ==
    ASSUME TypeInv, LockCovers, NEW t \in Ticks, Release(t)
    PROVE  LockCovers'
<1>1. t \in Inside
  BY DEF Release, Inside, InCriticalSection
<1>2. PICK k : lock' = Released(<<ticks[t].node, k>>)
  BY DEF Release
<1>3. Inside' = Inside \ {t} /\ \A u \in Inside' : ticks'[u] = ticks[u]
  BY GoInside DEF Release, Idle, Inside
<1>4. Cardinality(Inside') = Cardinality(Inside) - 1
  BY <1>1, <1>3, InsideFinite, FS_RemoveElement
<1>5. lock.count \in Nat /\ UNCHANGED severed
  BY DEF TypeInv, LockType, Release
<1>6. ASSUME ~severed'
      PROVE  /\ \A u \in Inside' : lock'.holder[1] = ticks'[u].node
             /\ Cardinality(Inside') <= lock'.count
  <2>1. /\ \A u \in Inside : lock.holder[1] = ticks[u].node
        /\ Cardinality(Inside) <= lock.count
    BY <1>5, <1>6 DEF LockCovers
  <2>2. CASE lock' = lock
    BY <1>3, <1>4, <1>5, <2>1, <2>2, InsideFinite
  <2>3. CASE lock.count = 1 /\ lock' = Free
    <3>1. Cardinality(Inside') = 0 /\ Inside' = {}
      <4>1. Cardinality(Inside) = 1
        BY <1>1, <2>1, <2>3, InsideFinite
      <4>2. PICK x : Inside = {x}
        BY <4>1, InsideFinite, FS_Singleton
      <4>3. QED BY <1>1, <1>3, <1>4, <4>1, <4>2
    <3>2. lock'.count = 0
      BY <2>3 DEF Free
    <3>3. QED BY <3>1, <3>2
  <2>4. CASE lock' = [lock EXCEPT !.count = @ - 1]
    <3>1. lock'.count = lock.count - 1 /\ lock'.holder = lock.holder
      BY <2>4 DEF TypeInv, LockType
    <3>2. QED BY <1>3, <1>4, <1>5, <2>1, <3>1, InsideFinite
  <2>5. QED BY <1>2, <2>2, <2>3, <2>4 DEF Released
<1>7. QED BY <1>6 DEF LockCovers

LEMMA CloseSessionCovers ==
    ASSUME TypeInv, LockCovers, NEW s \in Sessions, CloseSession(s)
    PROVE  LockCovers'
<1>1. Inside' = Inside /\ lock'.count \in Nat
  BY DEF CloseSession, Inside, InCriticalSection, Free
<1>2. CASE severed'
  BY <1>2 DEF LockCovers
<1>3. CASE ~severed'
  <2>1. ~severed /\ \A t \in Inside : ticks[t].node # s[1]
    BY <1>3 DEF CloseSession, Inside
  <2>2. \A t \in Inside : ticks[t].node = s[1]
    BY <2>1 DEF CloseSession, LockCovers
  <2>3. QED BY <1>1, <2>1, <2>2, NobodyInside
<1>4. QED BY <1>2, <1>3

LEMMA CrashCovers ==
    ASSUME TypeInv, LockCovers, NEW n \in Nodes, Crash(n)
    PROVE  LockCovers'
<1>1. \A t \in Ticks :
         ticks'[t] = IF ticks[t].phase # "idle" /\ ticks[t].node = n THEN Idle ELSE ticks[t]
  BY DEF Crash
<1>2. Inside' = {t \in Inside : ticks[t].node # n} /\ \A t \in Inside' : ticks'[t] = ticks[t]
  BY <1>1 DEF Inside, InCriticalSection, Idle
<1>3. lock'.count \in Nat /\ UNCHANGED severed
  BY DEF Crash, TypeInv, LockType, Free
<1>4. CASE severed
  BY <1>3, <1>4 DEF LockCovers
<1>5. CASE ~severed
  <2>1. /\ \A t \in Inside : lock.holder[1] = ticks[t].node
        /\ Cardinality(Inside) <= lock.count
    BY <1>5 DEF LockCovers
  <2>2. CASE Inside = {} \/ lock.holder[1] = n
    BY <1>2, <1>3, <2>1, <2>2, NobodyInside
  <2>3. CASE lock.holder[1] # n
    <3>1. Inside' = Inside /\ lock' = lock
      BY <1>2, <2>1, <2>3 DEF Crash
    <3>2. QED BY <1>2, <1>3, <3>1, SameLockCovers
  <2>4. QED BY <2>2, <2>3
<1>6. QED BY <1>4, <1>5

LEMMA WithinCovers ==
    ASSUME TypeInv, LockCovers, NEW t \in Ticks,
           \/ Visit(t) \/ ProcessDeadlineStage(t) \/ MarkAsProcessed(t)
           \/ ExecuteTaskAction(t) \/ UpdateState(t)
    PROVE  LockCovers'
<1>1. t \in Inside /\ UNCHANGED <<lock, severed>>
  BY DEF Inside, InCriticalSection, Visit, ProcessDeadlineStage, MarkAsProcessed,
         ExecuteTaskAction, UpdateState
<1>2. CASE Visit(t)
  <2>1. ticks[t] \in BetweenDeadlines
    BY <1>2 DEF Visit, TypeInv, TicksType, LocalType, Idle, Started, BetweenDeadlines, AtAStage
  <2>2. CASE DOMAIN deadlines[ticks[t].node] \subseteq ticks[t].visited
    BY <1>1, <1>2, <2>2, GoWithinCovers DEF Visit, Releasing
  <2>3. CASE ~(DOMAIN deadlines[ticks[t].node] \subseteq ticks[t].visited)
    <3>1. PICK d : LET seen == [ticks[t] EXCEPT !.visited = @ \cup {d}] IN
             Go(t, IF deadlines[ticks[t].node][d].state = "Completed" THEN seen
                   ELSE [phase |-> "staging", node |-> ticks[t].node, now |-> ticks[t].now,
                         visited |-> seen.visited, deadline |-> d,
                         copy |-> deadlines[ticks[t].node][d], stage |-> 1])
      BY <1>2, <2>3 DEF Visit
    <3>2. /\ [ticks[t] EXCEPT !.visited = @ \cup {d}].phase = "walking"
          /\ [ticks[t] EXCEPT !.visited = @ \cup {d}].node = ticks[t].node
      BY <2>1 DEF BetweenDeadlines
    <3>3. CASE deadlines[ticks[t].node][d].state = "Completed"
      BY <1>1, <3>1, <3>2, <3>3, GoWithinCovers
    <3>4. CASE deadlines[ticks[t].node][d].state # "Completed"
      BY <1>1, <3>1, <3>4, GoWithinCovers
    <3>5. QED BY <3>3, <3>4
  <2>4. QED BY <2>2, <2>3
<1>3. CASE ~Visit(t)
  <2>1. ticks[t] \in AtAStage
    BY <1>3, AtStage DEF ProcessDeadlineStage, MarkAsProcessed, ExecuteTaskAction, UpdateState
  <2>2. NextStage(ticks[t]).phase = "staging" /\ NextStage(ticks[t]).node = ticks[t].node
    BY <2>1 DEF NextStage, AtAStage
  <2>3. /\ [ticks[t] EXCEPT !.phase = "acting"].phase = "acting"
        /\ [ticks[t] EXCEPT !.phase = "acting"].node = ticks[t].node
        /\ \A i : /\ [ticks[t] EXCEPT !.phase = "marking", !.stage = i].phase = "marking"
                  /\ [ticks[t] EXCEPT !.phase = "marking", !.stage = i].node = ticks[t].node
    BY <2>1 DEF AtAStage
  <2>4. CASE ProcessDeadlineStage(t)
    <3>1. PICK i : Go(t, [ticks[t] EXCEPT !.phase = "marking", !.stage = i])
      BY <2>4 DEF ProcessDeadlineStage
    <3>2. QED BY <1>1, <2>3, <3>1, GoWithinCovers
  <2>5. CASE MarkAsProcessed(t)
    BY <1>1, <2>2, <2>3, <2>5, GoWithinCovers DEF MarkAsProcessed
  <2>6. CASE ExecuteTaskAction(t)
    BY <1>1, <2>2, <2>6, GoWithinCovers DEF ExecuteTaskAction, Releasing
  <2>7. CASE UpdateState(t)
    BY <1>1, <2>7, GoWithinCovers DEF UpdateState, Walking
  <2>8. QED BY <1>3, <2>4, <2>5, <2>6, <2>7
<1>4. QED BY <1>2, <1>3

LEMMA StepCovers == TypeInv /\ LockCovers /\ [Next]_vars => LockCovers'
<1> SUFFICES ASSUME TypeInv, LockCovers, [Next]_vars PROVE LockCovers'
  OBVIOUS
<1>1. ASSUME NEW t \in Ticks, TickStep(t) PROVE LockCovers'
  BY <1>1, AcquireCovers, ReleaseCovers, WithinCovers DEF TickStep
<1>2. ASSUME NEW t \in Ticks, NEW n \in Nodes, RunSchedulingTick(t, n) PROVE LockCovers'
  <2>1. t \notin Inside /\ UNCHANGED <<lock, severed>>
    BY <1>2 DEF RunSchedulingTick, Inside, InCriticalSection
  <2>2. Inside' = Inside /\ \A u \in Inside : ticks'[u] = ticks[u]
    BY <1>2, <2>1, GoInside DEF RunSchedulingTick, Inside
  <2>3. QED BY <2>1, <2>2, SameLockCovers
<1>3. CASE \/ \E n \in Nodes, d \in Deadlines : CreateDeadline(n, d) \/ CompleteDeadline(n, d)
           \/ TimePasses \/ UNCHANGED vars
  <2>1. UNCHANGED <<lock, severed, ticks>>
    BY <1>3 DEF CreateDeadline, CompleteDeadline, TimePasses, vars
  <2>2. Inside' = Inside
    BY <2>1 DEF Inside, InCriticalSection
  <2>3. QED BY <2>1, <2>2, SameLockCovers
<1>4. QED BY <1>1, <1>2, <1>3, CloseSessionCovers, CrashCovers DEF Next

\* As long as no session is closed under a tick, two nodes are never inside
\* their ticks together, although a release may go to a session that does not
\* hold the lock and ticks of one node share it.
THEOREM OneNodeAtATimeHolds == Spec => []OneNodeAtATime
<1>1. Init => LockCovers
  <2>1. ASSUME Init PROVE Inside = {} /\ lock.count = 0
    BY <2>1 DEF Init, Inside, InCriticalSection, Idle, Free
  <2>2. QED BY <2>1, FS_EmptySet DEF LockCovers
<1>2. LockCovers => OneNodeAtATime
  BY DEF LockCovers, OneNodeAtATime, Inside
<1>3. QED BY <1>1, <1>2, Typed, StepCovers, PTL DEF Spec

=============================================================================
