---------------------- MODULE SagaCoordinator_proofs -----------------------
(***************************************************************************)
(* Proofs about the saga coordinator, for every set of executions, number  *)
(* of steps, results a step may return, number of calls in flight, depth   *)
(* of the recursion and platform, and any number of restarts.              *)
(***************************************************************************)
EXTENDS SagaCoordinator, SequenceTheorems, TLAPS

Effects == {"none", "to undo", "final", "undone"}

\* What a load, and what a store, may go on with.
Purposes == {"advance", "compensate", "resume", "get", "recover"}

Sequels == {"return", "advance", "compensate", "undo"}

\* The record of a call that is not idle.
CallRecord ==
    [phase : {"scanning", "loading", "selecting", "filling", "executing",
              "undoing", "writing", "logging"},
     next : Purposes \cup Sequels, id : Executions, execution : SagaExecution,
     undoFrom : Nat, frames : Seq(SagaExecution), recovering : BOOLEAN,
     todo : SUBSET Executions]

\* A copy of an execution, wherever it is, has one result for each step it
\* counts, those steps have run (E: the effects), and it is Completed only at
\* its end.
Kept(id, x, E) ==
    /\ x \in SagaExecution
    /\ Len(x.stepResults) = x.currentStep
    /\ x.state = "Completed" => x.currentStep = NumSteps
    /\ \A k \in 1 .. x.currentStep : E[id][k] # "none"

\* The steps of x after step m that left something to undo are undone.
UndoneAfter(m, id, x, E) ==
    \A k \in 1 .. x.currentStep :
        k > m /\ x.stepResults[k].data => E[id][k] = "undone"

\* x is as far as the cached copy (K), or not further -- unless that was
\* replaced by one that counts other steps (F: the executions it happened to).
AsCached(id, x, K, F) ==
    id \in DOMAIN K /\ (id \notin F => x.currentStep = K[id].currentStep)

WithinCached(id, x, K, F) ==
    id \in DOMAIN K /\ (id \notin F => x.currentStep <= K[id].currentStep)

\* What an advance, a resume or a compensation is about to store: unless it
\* is Running, it was made from the cached copy and counts no more steps.
Stored(id, x, K, F, E) ==
    /\ Kept(id, x, E)
    /\ x.state # "Running" => WithinCached(id, x, K, F)
    /\ x.state = "Compensated" /\ id \notin F => UndoneAfter(0, id, x, E)

\* The copies of the advances around a call.
FramesGood(id, frames, K, F, E) ==
    \A i \in 1 .. Len(frames) : Kept(id, frames[i], E) /\ AsCached(id, frames[i], K, F)

\* A row (of r) that is Compensated while no copy is cached counts no more
\* steps than the copy x that is on its way to the cache.
Fillable(id, x, r, K, F) ==
    id \notin DOMAIN K /\ id \notin F /\ r[id].state = "Compensated"
        => r[id].currentStep <= x.currentStep

\* The local state of a call, given the rows (r), the cache, the executions
\* whose copy was replaced, and the effects.
CallGood(call, r, K, F, E) ==
    \/ call = Idle
    \/ /\ call \in CallRecord
       /\ call.todo \subseteq DOMAIN r
       /\ FramesGood(call.id, call.frames, K, F, E)
       /\ call.phase \in {"loading", "selecting", "filling"} =>
             call.id \in DOMAIN r /\ call.next \in Purposes
       /\ call.phase = "scanning" => call.frames = << >>
       /\ call.phase = "filling" =>
             /\ Kept(call.id, call.execution, E)
             /\ Fillable(call.id, call.execution, r, K, F)
       /\ call.phase = "executing" =>
             /\ Kept(call.id, call.execution, E)
             /\ AsCached(call.id, call.execution, K, F)
             /\ call.execution.state = "Running"
             /\ call.execution.currentStep < NumSteps
       /\ call.phase = "logging" => call.id \in DOMAIN r
       /\ call.phase \in {"writing", "logging"} =>
             /\ Stored(call.id, call.execution, K, F, E)
             /\ call.next \in Sequels
             /\ call.next = "undo" => call.execution.state = "Compensating"
       /\ call.phase = "undoing" =>
             /\ Stored(call.id, call.execution, K, F, E)
             /\ call.execution.state = "Compensating"
             /\ call.undoFrom <= call.execution.currentStep
             /\ call.id \notin F =>
                   UndoneAfter(call.undoFrom, call.id, call.execution, E)

RowsGood(r, K, F, E) ==
    \A id \in DOMAIN r :
        /\ Kept(id, r[id], E)
        /\ r[id].state = "Compensated" /\ id \notin F =>
              /\ UndoneAfter(0, id, r[id], E)
              /\ id \in DOMAIN K => r[id].currentStep <= K[id].currentStep

InOrder(E) ==
    \A id \in Executions : \A k \in 2 .. NumSteps :
        E[id][k] # "none" => E[id][k - 1] # "none"

CacheGood(K, E) == \A id \in DOMAIN K : Kept(id, K[id], E)

\* The inductive invariant.
IInv ==
    /\ /\ DOMAIN rows \subseteq Executions
       /\ DOMAIN cache \subseteq DOMAIN rows
       /\ logged \subseteq DOMAIN rows
       /\ refilled \subseteq DOMAIN rows
    /\ effects \in [Executions -> [1 .. NumSteps -> Effects]]
    /\ InOrder(effects)
    /\ RowsGood(rows, cache, refilled, effects)
    /\ CacheGood(cache, effects)
    /\ calls = [c \in Calls |-> calls[c]]
    /\ \A c \in Calls : CallGood(calls[c], rows, cache, refilled, effects)

-----------------------------------------------------------------------------
(***************************************************************************)
(* What every action does to the shared state: the cache (K) may take a    *)
(* copy it did not have or replace one, and when that counts other steps   *)
(* it is noted; a step (E: the effects) that has run stays run; one that   *)
(* is undone stays undone as far as the cached copy counts, unless that    *)
(* was replaced; no step of an execution runs that is not in the cache,    *)
(* and its row (r) is not brought to Compensated either.                   *)
(***************************************************************************)
Filled(K, K2, F, F2) ==
    /\ DOMAIN K \subseteq DOMAIN K2 /\ F \subseteq F2
    /\ \A id \in DOMAIN K : id \notin F2 => K2[id].currentStep = K[id].currentStep

Grown(E, E2, K, F) ==
    /\ \A id \in Executions : \A k \in 1 .. NumSteps :
          E[id][k] # "none" => E2[id][k] # "none"
    /\ \A id \in Executions : \A k \in 1 .. NumSteps :
          E[id][k] = "undone" /\ id \notin F /\ id \in DOMAIN K /\ k <= K[id].currentStep
             => E2[id][k] = "undone"
    /\ \A id \in Executions : id \notin DOMAIN K => E2[id] = E[id]

Rewritten(r, r2, K2) ==
    /\ DOMAIN r \subseteq DOMAIN r2
    /\ \A id \in DOMAIN r :
          id \notin DOMAIN K2 => r2[id] = r[id] \/ r2[id].state # "Compensated"

\* What is kept of an execution stays true while the effects grow.
LEMMA KeptGrown ==
    ASSUME NEW id \in Executions, NEW x, NEW E, NEW E2, NEW K, NEW F,
           Kept(id, x, E), Grown(E, E2, K, F)
    PROVE  Kept(id, x, E2)
<1>1. x.currentStep \in 0 .. NumSteps BY DEF Kept, SagaExecution
<1>2. \A k \in 1 .. x.currentStep : k \in 1 .. NumSteps
  BY <1>1, SagaAssumption
<1>. QED BY <1>2 DEF Kept, Grown

\* So does what is undone, up to the steps the cached copy counts.
LEMMA UndoneGrown ==
    ASSUME NEW id \in Executions, NEW x, NEW E, NEW E2, NEW K, NEW F, NEW m,
           x \in SagaExecution, id \notin F,
           id \in DOMAIN K => x.currentStep <= K[id].currentStep,
           id \in DOMAIN K => K[id].currentStep \in Nat,
           UndoneAfter(m, id, x, E), Grown(E, E2, K, F)
    PROVE  UndoneAfter(m, id, x, E2)
<1>1. x.currentStep \in 0 .. NumSteps BY DEF SagaExecution
<1>2. CASE id \notin DOMAIN K
  BY <1>2 DEF Grown, UndoneAfter
<1>3. CASE id \in DOMAIN K
  <2>. SUFFICES ASSUME NEW k \in 1 .. x.currentStep, k > m, x.stepResults[k].data
                PROVE  E2[id][k] = "undone"
    BY DEF UndoneAfter
  <2>1. E[id][k] = "undone" BY DEF UndoneAfter
  <2>2. k \in 1 .. NumSteps /\ k <= K[id].currentStep
    BY <1>1, <1>3, SagaAssumption
  <2>. QED BY <1>3, <2>1, <2>2 DEF Grown
<1>. QED BY <1>2, <1>3

LEMMA StoredGrown ==
    ASSUME NEW id \in Executions, NEW x, NEW E, NEW E2, NEW K, NEW K2, NEW F, NEW F2,
           CacheGood(K, E),
           Stored(id, x, K, F, E), Grown(E, E2, K, F), Filled(K, K2, F, F2)
    PROVE  Stored(id, x, K2, F2, E2)
<1>1. Kept(id, x, E2) BY KeptGrown DEF Stored
<1>2. x.state # "Running" => WithinCached(id, x, K2, F2)
  BY DEF Stored, Filled, WithinCached
<1>3. ASSUME x.state = "Compensated", id \notin F2 PROVE UndoneAfter(0, id, x, E2)
  <2>1. id \notin F BY <1>3 DEF Filled
  <2>2. id \in DOMAIN K /\ x.currentStep <= K[id].currentStep
    BY <1>3, <2>1 DEF Stored, WithinCached
  <2>3. K[id].currentStep \in Nat
    BY <2>2, SagaAssumption DEF CacheGood, Kept, SagaExecution
  <2>4. x \in SagaExecution /\ UndoneAfter(0, id, x, E)
    BY <1>3, <2>1 DEF Stored, Kept
  <2>. QED BY <2>1, <2>2, <2>3, <2>4, UndoneGrown
<1>. QED BY <1>1, <1>2, <1>3 DEF Stored

LEMMA FramesGrown ==
    ASSUME NEW id \in Executions, NEW frames, NEW E, NEW E2, NEW K, NEW K2,
           NEW F, NEW F2,
           FramesGood(id, frames, K, F, E), Grown(E, E2, K, F), Filled(K, K2, F, F2)
    PROVE  FramesGood(id, frames, K2, F2, E2)
<1>. SUFFICES ASSUME NEW i \in 1 .. Len(frames)
              PROVE  Kept(id, frames[i], E2) /\ AsCached(id, frames[i], K2, F2)
  BY DEF FramesGood
<1>1. Kept(id, frames[i], E) /\ AsCached(id, frames[i], K, F) BY DEF FramesGood
<1>2. Kept(id, frames[i], E2) BY <1>1, KeptGrown
<1>. QED BY <1>1, <1>2 DEF AsCached, Filled

\* A call that is in order stays so while others move.
LEMMA CallGrown ==
    ASSUME NEW call, NEW r, NEW r2, NEW E, NEW E2, NEW K, NEW K2, NEW F, NEW F2,
           CacheGood(K, E), CallGood(call, r, K, F, E),
           Rewritten(r, r2, K2), Grown(E, E2, K, F), Filled(K, K2, F, F2)
    PROVE  CallGood(call, r2, K2, F2, E2)
<1>1. CASE call = Idle BY <1>1 DEF CallGood
<1>2. CASE call # Idle
  <2>1. call \in CallRecord /\ call.id \in Executions /\ call.execution \in SagaExecution
    BY <1>2 DEF CallGood, CallRecord
  <2>2. /\ call.todo \subseteq DOMAIN r2
        /\ call.phase \in {"loading", "selecting", "filling"} =>
              call.id \in DOMAIN r2 /\ call.next \in Purposes
        /\ call.phase = "logging" => call.id \in DOMAIN r2
        /\ call.phase = "scanning" => call.frames = << >>
    BY <1>2 DEF CallGood, Rewritten
  <2>3. FramesGood(call.id, call.frames, K2, F2, E2)
    <3>1. FramesGood(call.id, call.frames, K, F, E) BY <1>2 DEF CallGood
    <3>. QED BY <2>1, <3>1, FramesGrown
  <2>4. ASSUME call.phase = "filling"
        PROVE  /\ Kept(call.id, call.execution, E2)
               /\ Fillable(call.id, call.execution, r2, K2, F2)
    <3>1. /\ Kept(call.id, call.execution, E) /\ call.id \in DOMAIN r
          /\ Fillable(call.id, call.execution, r, K, F)
      BY <1>2, <2>4 DEF CallGood
    <3>2. Kept(call.id, call.execution, E2) BY <2>1, <3>1, KeptGrown
    <3>3. Fillable(call.id, call.execution, r2, K2, F2)
      BY <3>1 DEF Fillable, Rewritten, Filled
    <3>. QED BY <3>2, <3>3
  <2>5. ASSUME call.phase = "executing"
        PROVE  /\ Kept(call.id, call.execution, E2)
               /\ AsCached(call.id, call.execution, K2, F2)
               /\ call.execution.state = "Running"
               /\ call.execution.currentStep < NumSteps
    <3>1. /\ Kept(call.id, call.execution, E)
          /\ AsCached(call.id, call.execution, K, F)
          /\ call.execution.state = "Running"
          /\ call.execution.currentStep < NumSteps
      BY <1>2, <2>5 DEF CallGood
    <3>2. Kept(call.id, call.execution, E2) BY <2>1, <3>1, KeptGrown
    <3>3. AsCached(call.id, call.execution, K2, F2)
      BY <3>1 DEF AsCached, Filled
    <3>. QED BY <3>1, <3>2, <3>3
  <2>6. call.phase \in {"writing", "logging"} =>
           /\ Stored(call.id, call.execution, K2, F2, E2)
           /\ call.next \in Sequels
           /\ call.next = "undo" => call.execution.state = "Compensating"
    <3>1. call.phase \in {"writing", "logging"} =>
             Stored(call.id, call.execution, K, F, E)
      BY <1>2 DEF CallGood
    <3>2. call.phase \in {"writing", "logging"} =>
             Stored(call.id, call.execution, K2, F2, E2)
      BY <2>1, <3>1, StoredGrown
    <3>. QED BY <1>2, <3>2 DEF CallGood
  <2>7. ASSUME call.phase = "undoing"
        PROVE  /\ Stored(call.id, call.execution, K2, F2, E2)
               /\ call.execution.state = "Compensating"
               /\ call.undoFrom <= call.execution.currentStep
               /\ call.id \notin F2 =>
                     UndoneAfter(call.undoFrom, call.id, call.execution, E2)
    <3>1. /\ Stored(call.id, call.execution, K, F, E)
          /\ call.execution.state = "Compensating"
          /\ call.undoFrom <= call.execution.currentStep
          /\ call.id \notin F =>
                UndoneAfter(call.undoFrom, call.id, call.execution, E)
      BY <1>2, <2>7 DEF CallGood
    <3>2. Stored(call.id, call.execution, K2, F2, E2)
      BY <2>1, <3>1, StoredGrown
    <3>3. ASSUME call.id \notin F2
          PROVE  UndoneAfter(call.undoFrom, call.id, call.execution, E2)
      <4>1. call.id \notin F BY <3>3 DEF Filled
      <4>2. call.id \in DOMAIN K /\ call.execution.currentStep <= K[call.id].currentStep
        BY <3>1, <4>1 DEF Stored, WithinCached
      <4>3. K[call.id].currentStep \in Nat
        BY <4>2, SagaAssumption DEF CacheGood, Kept, SagaExecution
      <4>. QED BY <2>1, <3>1, <4>1, <4>2, <4>3, UndoneGrown
    <3>. QED BY <3>1, <3>2, <3>3
  <2>. QED BY <2>1, <2>2, <2>3, <2>4, <2>5, <2>6, <2>7 DEF CallGood
<1>. QED BY <1>1, <1>2

\* The rows stay in order while the cache fills and the effects grow.
LEMMA RowsGrown ==
    ASSUME NEW r, NEW E, NEW E2, NEW K, NEW K2, NEW F, NEW F2,
           DOMAIN r \subseteq Executions,
           CacheGood(K, E),
           RowsGood(r, K, F, E), Grown(E, E2, K, F), Filled(K, K2, F, F2),
           \A id \in DOMAIN K2 \ DOMAIN K :
              id \in DOMAIN r /\ id \notin F2 /\ r[id].state = "Compensated"
                 => r[id].currentStep <= K2[id].currentStep
    PROVE  RowsGood(r, K2, F2, E2)
<1>. SUFFICES ASSUME NEW id \in DOMAIN r
              PROVE  /\ Kept(id, r[id], E2)
                     /\ r[id].state = "Compensated" /\ id \notin F2 =>
                           /\ UndoneAfter(0, id, r[id], E2)
                           /\ id \in DOMAIN K2 => r[id].currentStep <= K2[id].currentStep
  BY DEF RowsGood
<1>1. Kept(id, r[id], E) /\ id \in Executions BY DEF RowsGood
<1>2. Kept(id, r[id], E2) BY <1>1, KeptGrown
<1>3. r[id] \in SagaExecution BY <1>1 DEF Kept
<1>4. ASSUME r[id].state = "Compensated", id \notin F2
      PROVE  /\ UndoneAfter(0, id, r[id], E2)
             /\ id \in DOMAIN K2 => r[id].currentStep <= K2[id].currentStep
  <2>0. id \notin F BY <1>4 DEF Filled
  <2>1. /\ UndoneAfter(0, id, r[id], E)
        /\ id \in DOMAIN K => r[id].currentStep <= K[id].currentStep
    BY <1>4, <2>0 DEF RowsGood
  <2>2. id \in DOMAIN K => K[id].currentStep \in Nat
    BY SagaAssumption DEF CacheGood, Kept, SagaExecution
  <2>3. UndoneAfter(0, id, r[id], E2)
    BY <1>1, <1>3, <2>0, <2>1, <2>2, UndoneGrown
  <2>4. id \in DOMAIN K2 => r[id].currentStep <= K2[id].currentStep
    BY <1>4, <2>1 DEF Filled
  <2>. QED BY <2>3, <2>4
<1>. QED BY <1>2, <1>4

-----------------------------------------------------------------------------
(***************************************************************************)
(* The places a call goes on to.                                           *)
(***************************************************************************)
LEMMA NewIsKept ==
    ASSUME NEW id, NEW E
    PROVE  Kept(id, NewExecution, E) /\ NewExecution.state = "Running"
<1>1. NewExecution \in SagaExecution
  BY SagaAssumption, EmptySeq DEF NewExecution, SagaExecution, SagaState
<1>. QED BY <1>1, EmptySeq DEF NewExecution, Kept

LEMMA NewCallRecord ==
    ASSUME NEW phase \in {"scanning", "loading", "writing"},
           NEW next \in Purposes \cup Sequels, NEW id \in Executions
    PROVE  NewCall(phase, next, id) \in CallRecord
<1>1. NewExecution \in SagaExecution BY NewIsKept DEF Kept
<1>2. << >> \in Seq(SagaExecution) BY EmptySeq
<1>. QED BY <1>1, <1>2 DEF NewCall, CallRecord

LEMMA NoFrames ==
    ASSUME NEW id, NEW K, NEW F, NEW E PROVE FramesGood(id, << >>, K, F, E)
BY EmptySeq DEF FramesGood

LEMMA SettledGood ==
    ASSUME NEW call \in CallRecord, NEW r, NEW K, NEW F, NEW E,
           call.todo \subseteq DOMAIN r
    PROVE  CallGood(Settled(call), r, K, F, E)
<1>1. CASE ~call.recovering BY <1>1 DEF Settled, CallGood
<1>2. CASE call.recovering
  <2>. DEFINE new == [NewCall("scanning", "recover", call.id) EXCEPT
                         !.recovering = TRUE, !.todo = call.todo]
  <2>1. call.id \in Executions /\ call.todo \in SUBSET Executions BY DEF CallRecord
  <2>2. NewCall("scanning", "recover", call.id) \in CallRecord
    BY <2>1, NewCallRecord DEF Purposes
  <2>3. new \in CallRecord BY <2>1, <2>2 DEF CallRecord
  <2>4. new.phase = "scanning" /\ new.frames = << >> /\ new.todo = call.todo
    BY DEF NewCall
  <2>5. Settled(call) = new BY <1>2 DEF Settled
  <2>. QED BY <2>3, <2>4, <2>5, NoFrames DEF CallGood
<1>. QED BY <1>1, <1>2 DEF CallRecord

LEMMA LoadGood ==
    ASSUME NEW call \in CallRecord, NEW next \in Purposes,
           NEW r, NEW K, NEW F, NEW E,
           call.todo \subseteq DOMAIN r, call.id \in DOMAIN r,
           FramesGood(call.id, call.frames, K, F, E)
    PROVE  CallGood(Load(call, next), r, K, F, E)
<1>1. NewExecution \in SagaExecution BY NewIsKept DEF Kept
<1>2. Load(call, next) \in CallRecord BY <1>1 DEF Load, CallRecord
<1>3. /\ Load(call, next).phase = "loading"
      /\ Load(call, next).frames = call.frames
      /\ Load(call, next).id = call.id
      /\ Load(call, next).todo = call.todo
      /\ Load(call, next).next = next
  BY DEF Load, CallRecord
<1>. QED BY <1>2, <1>3 DEF CallGood

LEMMA PersistGood ==
    ASSUME NEW call \in CallRecord, NEW x, NEW next \in Sequels,
           NEW r, NEW K, NEW F, NEW E,
           call.todo \subseteq DOMAIN r, FramesGood(call.id, call.frames, K, F, E),
           Stored(call.id, x, K, F, E),
           next = "undo" => x.state = "Compensating"
    PROVE  CallGood(Persist(call, x, next), r, K, F, E)
<1>1. x \in SagaExecution BY DEF Stored, Kept
<1>2. Persist(call, x, next) \in CallRecord BY <1>1 DEF Persist, CallRecord
<1>3. /\ Persist(call, x, next).phase = "writing"
      /\ Persist(call, x, next).frames = call.frames
      /\ Persist(call, x, next).id = call.id
      /\ Persist(call, x, next).todo = call.todo
      /\ Persist(call, x, next).execution = x
      /\ Persist(call, x, next).next = next
  BY DEF Persist, CallRecord
<1>. QED BY <1>2, <1>3 DEF CallGood

\* A copy of an execution with another state.
LEMMA Restated ==
    ASSUME NEW id, NEW x, NEW K, NEW F, NEW E, NEW s \in SagaState \ {"Compensated"},
           Kept(id, x, E), s = "Completed" => x.currentStep = NumSteps,
           WithinCached(id, x, K, F)
    PROVE  /\ Stored(id, [x EXCEPT !.state = s], K, F, E)
           /\ [x EXCEPT !.state = s].state = s
<1>. DEFINE y == [x EXCEPT !.state = s]
<1>1. /\ y \in SagaExecution /\ y.state = s
      /\ y.currentStep = x.currentStep /\ y.stepResults = x.stepResults
  BY DEF Kept, SagaExecution
<1>2. Kept(id, y, E) BY <1>1 DEF Kept
<1>3. WithinCached(id, y, K, F) BY <1>1 DEF WithinCached
<1>. QED BY <1>1, <1>2, <1>3 DEF Stored

LEMMA AsIsWithin ==
    ASSUME NEW id, NEW x, NEW K, NEW F, NEW E, Kept(id, x, E), AsCached(id, x, K, F)
    PROVE  WithinCached(id, x, K, F)
<1>1. x.currentStep \in Nat BY SagaAssumption DEF Kept, SagaExecution
<1>. QED BY <1>1 DEF AsCached, WithinCached

LEMMA CaughtGood ==
    ASSUME NEW call \in CallRecord, NEW x, NEW r, NEW K, NEW F, NEW E,
           call.todo \subseteq DOMAIN r, FramesGood(call.id, call.frames, K, F, E),
           Kept(call.id, x, E), AsCached(call.id, x, K, F)
    PROVE  CallGood(CaughtByAdvance(call, x), r, K, F, E)
<1>1. WithinCached(call.id, x, K, F) BY AsIsWithin
<1>2. /\ "Failed" \in SagaState \ {"Compensated"}
      /\ "Failed" = "Completed" => x.currentStep = NumSteps
  BY DEF SagaState
<1>3. Stored(call.id, [x EXCEPT !.state = "Failed"], K, F, E)
  BY <1>1, <1>2, Restated, Zenon
<1>. QED BY <1>3, PersistGood DEF CaughtByAdvance, Sequels

LEMMA ThrowGood ==
    ASSUME NEW call \in CallRecord, NEW r, NEW K, NEW F, NEW E,
           call.todo \subseteq DOMAIN r, FramesGood(call.id, call.frames, K, F, E)
    PROVE  CallGood(Throw(call), r, K, F, E)
<1>1. CASE call.frames = << >> BY <1>1, SettledGood DEF Throw
<1>2. CASE call.frames # << >>
  <2>. DEFINE frames == call.frames
              outer == [call EXCEPT !.frames = Tail(@)]
  <2>1. frames \in Seq(SagaExecution) BY DEF CallRecord
  <2>2. /\ Tail(frames) \in Seq(SagaExecution) /\ Head(frames) = frames[1]
        /\ Len(frames) \in Nat \ {0} /\ Len(Tail(frames)) = Len(frames) - 1
        /\ \A i \in 1 .. Len(Tail(frames)) : Tail(frames)[i] = frames[i + 1]
    BY <1>2, <2>1, HeadTailProperties, EmptySeq
  <2>3. /\ outer \in CallRecord /\ outer.todo = call.todo /\ outer.id = call.id
        /\ outer.frames = Tail(frames)
    BY <2>2 DEF CallRecord
  <2>4. FramesGood(call.id, Tail(frames), K, F, E)
    BY <2>2 DEF FramesGood
  <2>5. Kept(call.id, Head(frames), E) /\ AsCached(call.id, Head(frames), K, F)
    BY <2>2 DEF FramesGood
  <2>. HIDE DEF outer
  <2>6. CallGood(CaughtByAdvance(outer, Head(frames)), r, K, F, E)
    BY <2>3, <2>4, <2>5, CaughtGood
  <2>. QED BY <1>2, <2>6 DEF Throw, outer
<1>. QED BY <1>1, <1>2

\* What a call does with the execution it has loaded (x), which is in the
\* cache (K) by then.
LEMMA LoadedGood ==
    ASSUME NEW c, NEW x, NEW r, NEW K, NEW F, NEW E,
           calls[c] \in CallRecord, calls[c].next \in Purposes,
           calls[c].todo \subseteq DOMAIN r, calls[c].id \in DOMAIN r,
           FramesGood(calls[c].id, calls[c].frames, K, F, E),
           Kept(calls[c].id, x, E), AsCached(calls[c].id, x, K, F)
    PROVE  CallGood(Loaded(c, x), r, K, F, E)
<1>. DEFINE call == calls[c]
<1>1. /\ call \in CallRecord /\ call.todo \subseteq DOMAIN r /\ call.id \in DOMAIN r
      /\ call.next \in Purposes /\ FramesGood(call.id, call.frames, K, F, E)
      /\ Kept(call.id, x, E) /\ AsCached(call.id, x, K, F)
  OBVIOUS
<1>2. x \in SagaExecution /\ x.currentStep \in 0 .. NumSteps
  BY <1>1 DEF Kept, SagaExecution
<1>. HIDE DEF call
<1>a. Kept(call.id, x, E) /\ WithinCached(call.id, x, K, F)
  BY <1>1, AsIsWithin
<1>3. CallGood(Settled(call), r, K, F, E) BY <1>1, SettledGood
<1>4. \A next \in Purposes : CallGood(Load(call, next), r, K, F, E)
  BY <1>1, LoadGood
<1>5. CallGood(Throw(call), r, K, F, E) BY <1>1, ThrowGood
<1>6. CASE call.next = "get" BY <1>3, <1>6 DEF Loaded, call
<1>7. CASE call.next = "recover"
  BY <1>3, <1>4, <1>7 DEF Loaded, Purposes, call
<1>8. CASE call.next = "resume"
  <2>0. /\ "Running" \in SagaState \ {"Compensated"}
        /\ "Running" = "Completed" => x.currentStep = NumSteps
    BY DEF SagaState
  <2>1. Stored(call.id, [x EXCEPT !.state = "Running"], K, F, E)
    BY <1>a, <2>0, Restated, Zenon
  <2>2. CallGood(Persist(call, [x EXCEPT !.state = "Running"], "advance"), r, K, F, E)
    BY <1>1, <2>1, PersistGood DEF Sequels
  <2>. QED BY <1>5, <1>8, <2>2 DEF Loaded, call
<1>9. CASE call.next = "compensate"
  <2>. DEFINE y == [x EXCEPT !.state = "Compensating"]
  <2>0. /\ "Compensating" \in SagaState \ {"Compensated"}
        /\ "Compensating" = "Completed" => x.currentStep = NumSteps
    BY DEF SagaState
  <2>1. Stored(call.id, [x EXCEPT !.state = "Compensating"], K, F, E)
    BY <1>a, <2>0, Restated, Zenon
  <2>a. Stored(call.id, y, K, F, E) /\ y.state = "Compensating"
    BY <1>2, <2>1 DEF SagaExecution
  <2>. HIDE DEF y
  <2>2. CallGood(Persist(call, y, "undo"), r, K, F, E)
    BY <1>1, <2>a, PersistGood DEF Sequels
  <2>. QED BY <1>9, <2>2 DEF Loaded, call, y
<1>10. CASE call.next = "advance"
  <2>1. CASE x.state # "Running" BY <1>5, <1>10, <2>1 DEF Loaded, call
  <2>2. CASE x.state = "Running" /\ x.currentStep >= NumSteps
    <3>0. x.currentStep = NumSteps BY <1>2, <2>2, SagaAssumption
    <3>a. "Completed" \in SagaState \ {"Compensated"} BY DEF SagaState
    <3>1. Stored(call.id, [x EXCEPT !.state = "Completed"], K, F, E)
      BY <1>a, <3>0, <3>a, Restated, Zenon
    <3>2. CallGood(Persist(call, [x EXCEPT !.state = "Completed"], "return"), r, K, F, E)
      BY <1>1, <3>1, PersistGood DEF Sequels
    <3>. QED BY <1>10, <2>2, <3>2 DEF Loaded, call
  <2>3. CASE x.state = "Running" /\ ~(x.currentStep >= NumSteps)
    <3>. DEFINE new == [call EXCEPT !.phase = "executing", !.execution = x]
    <3>1. /\ new \in CallRecord /\ new.phase = "executing" /\ new.todo = call.todo
          /\ new.id = call.id /\ new.execution = x /\ new.frames = call.frames
      BY <1>1, <1>2 DEF CallRecord
    <3>2. x.currentStep < NumSteps BY <1>2, <2>3, SagaAssumption
    <3>. HIDE DEF new
    <3>3. CallGood(new, r, K, F, E) BY <1>1, <2>3, <3>1, <3>2 DEF CallGood
    <3>. QED BY <1>10, <2>3, <3>3 DEF Loaded, call, new
  <2>. QED BY <2>1, <2>2, <2>3
<1>. QED BY <1>1, <1>6, <1>7, <1>8, <1>9, <1>10 DEF Purposes

-----------------------------------------------------------------------------
(***************************************************************************)
(* The initial states, and the steps.                                      *)
(***************************************************************************)
LEMMA InitIInv == ASSUME Init PROVE IInv
<1>1. DOMAIN rows = {} /\ DOMAIN cache = {} /\ logged = {} /\ refilled = {}
  BY DEF Init
<1>2. effects \in [Executions -> [1 .. NumSteps -> Effects]]
  BY DEF Init, Effects
<1>3. InOrder(effects)
  <2>. SUFFICES ASSUME NEW id \in Executions, NEW k \in 2 .. NumSteps
                PROVE  effects[id][k] = "none"
    BY DEF InOrder
  <2>1. k \in 1 .. NumSteps BY SagaAssumption
  <2>. QED BY <2>1 DEF Init
<1>4. calls = [c \in Calls |-> calls[c]]
      /\ \A c \in Calls : CallGood(calls[c], rows, cache, refilled, effects)
  BY DEF Init, CallGood
<1>. QED BY <1>1, <1>2, <1>3, <1>4 DEF IInv, RowsGood, CacheGood

\* What a step of one call has to show.
LEMMA Frame ==
    ASSUME IInv, NEW c \in Calls, NEW new, Go(c, new),
           DOMAIN rows' \subseteq Executions,
           DOMAIN cache' \subseteq DOMAIN rows', logged' \subseteq DOMAIN rows',
           refilled' \subseteq DOMAIN rows',
           effects' \in [Executions -> [1 .. NumSteps -> Effects]],
           InOrder(effects'), Grown(effects, effects', cache, refilled),
           Rewritten(rows, rows', cache'),
           Filled(cache, cache', refilled, refilled'),
           CacheGood(cache', effects),
           RowsGood(rows', cache', refilled', effects'),
           CallGood(new, rows', cache', refilled', effects')
    PROVE  IInv'
<1>1. CacheGood(cache, effects) BY DEF IInv
<1>2. CacheGood(cache', effects')
  <2>. SUFFICES ASSUME NEW id \in DOMAIN cache'
                PROVE  Kept(id, cache'[id], effects')
    BY DEF CacheGood
  <2>1. id \in Executions OBVIOUS
  <2>2. Kept(id, cache'[id], effects) BY DEF CacheGood
  <2>. QED BY <2>1, <2>2, KeptGrown
<1>3. calls' = [calls EXCEPT ![c] = new] BY DEF Go
<1>4. calls' = [d \in Calls |-> calls'[d]] BY <1>3 DEF IInv
<1>5. ASSUME NEW d \in Calls
      PROVE  CallGood(calls'[d], rows', cache', refilled', effects')
  <2>1. CASE d = c BY <1>3, <2>1 DEF IInv
  <2>2. CASE d # c
    <3>1. calls'[d] = calls[d] BY <1>3, <2>2 DEF IInv
    <3>2. CallGood(calls[d], rows, cache, refilled, effects) BY DEF IInv
    <3>. QED BY <1>1, <3>1, <3>2, CallGrown
  <2>. QED BY <2>1, <2>2
<1>. QED BY <1>2, <1>4, <1>5 DEF IInv

LEMMA GrownSame ==
    ASSUME NEW E, NEW K, NEW F, NEW r
    PROVE  Grown(E, E, K, F) /\ Filled(K, K, F, F) /\ Rewritten(r, r, K)
BY DEF Grown, Filled, Rewritten

\* What a step has to show that changes nothing but its call and the events.
LEMMA QuietStep ==
    ASSUME IInv, NEW c \in Calls, NEW new, Go(c, new),
           UNCHANGED <<rows, cache, refilled, effects>>, logged' \subseteq DOMAIN rows,
           CallGood(new, rows, cache, refilled, effects)
    PROVE  IInv'
<1>1. /\ DOMAIN rows \subseteq Executions
      /\ DOMAIN cache \subseteq DOMAIN rows /\ refilled \subseteq DOMAIN rows
      /\ effects \in [Executions -> [1 .. NumSteps -> Effects]]
      /\ InOrder(effects) /\ RowsGood(rows, cache, refilled, effects)
      /\ CacheGood(cache, effects)
  BY DEF IInv
<1>2. InOrder(effects') /\ RowsGood(rows', cache', refilled', effects')
      /\ CacheGood(cache', effects)
  BY <1>1
<1>3. /\ Grown(effects, effects', cache, refilled)
      /\ Filled(cache, cache', refilled, refilled')
      /\ Rewritten(rows, rows', cache')
  BY GrownSame
<1>4. CallGood(new, rows', cache', refilled', effects') OBVIOUS
<1>. QED BY <1>1, <1>2, <1>3, <1>4, Frame

LEMMA StartStep ==
    ASSUME IInv, NEW c \in Calls, NEW id \in Executions, Start(c, id)
    PROVE  IInv'
<1>. DEFINE fresh == NewCall("writing", "advance", id)
            new == Persist(fresh, NewExecution, "advance")
<1>1. fresh \in CallRecord BY NewCallRecord DEF Purposes
<1>2. fresh.todo = {} /\ fresh.frames = << >> /\ fresh.id = id BY DEF NewCall
<1>3. Stored(id, NewExecution, cache, refilled, effects) BY NewIsKept DEF Stored
<1>. HIDE DEF fresh
<1>4. CallGood(new, rows, cache, refilled, effects)
  BY <1>1, <1>2, <1>3, NewIsKept, NoFrames, PersistGood DEF Sequels
<1>5. Go(c, new) BY DEF Start, fresh
<1>6. logged' \subseteq DOMAIN rows /\ UNCHANGED <<rows, cache, refilled, effects>>
  BY DEF Start, IInv
<1>. HIDE DEF new
<1>. QED BY <1>4, <1>5, <1>6, QuietStep

LEMMA RequestStep ==
    ASSUME IInv, NEW c \in Calls, NEW id \in Executions,
           NEW purpose \in {"advance", "compensate", "resume", "get"},
           Request(c, purpose, id)
    PROVE  IInv'
<1>. DEFINE new == NewCall("loading", purpose, id)
<1>1. new \in CallRecord BY NewCallRecord DEF Purposes
<1>2. /\ new.todo = {} /\ new.frames = << >> /\ new.id = id
      /\ new.phase = "loading" /\ new.next \in Purposes
  BY DEF NewCall, Purposes
<1>3. id \in DOMAIN rows BY DEF Request
<1>. HIDE DEF new
<1>4. CallGood(new, rows, cache, refilled, effects)
  BY <1>1, <1>2, <1>3, NoFrames DEF CallGood
<1>5. Go(c, new) BY DEF Request, new
<1>6. logged' \subseteq DOMAIN rows /\ UNCHANGED <<rows, cache, refilled, effects>>
  BY DEF Request, IInv
<1>. QED BY <1>4, <1>5, <1>6, QuietStep

LEMMA RecoverPendingStep ==
    ASSUME IInv, NEW c \in Calls, RecoverPendingSagas(c)
    PROVE  IInv'
<1>. DEFINE pending == {id \in DOMAIN rows :
                           rows[id].state \in {"Running", "Compensating"}}
            new(some) == [NewCall("scanning", "recover", some) EXCEPT
                             !.recovering = TRUE, !.todo = pending]
<1>1. PICK some \in DOMAIN rows : Go(c, new(some))
  BY DEF RecoverPendingSagas
<1>2. pending \subseteq DOMAIN rows /\ DOMAIN rows \subseteq Executions
  BY DEF IInv
<1>3. NewCall("scanning", "recover", some) \in CallRecord
  BY <1>2, NewCallRecord DEF Purposes
<1>4. new(some) \in CallRecord BY <1>2, <1>3 DEF CallRecord
<1>5. /\ new(some).todo = pending /\ new(some).frames = << >>
      /\ new(some).phase = "scanning"
  BY DEF NewCall
<1>. HIDE DEF new, pending
<1>6. CallGood(new(some), rows, cache, refilled, effects)
  BY <1>2, <1>4, <1>5, NoFrames DEF CallGood
<1>7. logged' \subseteq DOMAIN rows /\ UNCHANGED <<rows, cache, refilled, effects>>
  BY DEF RecoverPendingSagas, IInv
<1>. QED BY <1>1, <1>6, <1>7, QuietStep

\* The facts about a call that is not idle.
LEMMA BusyCall ==
    ASSUME IInv, NEW c \in Calls, calls[c].phase # "idle"
    PROVE  /\ CallGood(calls[c], rows, cache, refilled, effects)
           /\ calls[c] \in CallRecord /\ calls[c].todo \subseteq DOMAIN rows
           /\ calls[c].id \in Executions
           /\ FramesGood(calls[c].id, calls[c].frames, cache, refilled, effects)
<1>1. CallGood(calls[c], rows, cache, refilled, effects) BY DEF IInv
<1>2. calls[c] # Idle BY DEF Idle
<1>3. /\ calls[c] \in CallRecord /\ calls[c].todo \subseteq DOMAIN rows
      /\ FramesGood(calls[c].id, calls[c].frames, cache, refilled, effects)
  BY <1>1, <1>2 DEF CallGood
<1>. QED BY <1>1, <1>3 DEF CallRecord

LEMMA RecoverNextStep ==
    ASSUME IInv, NEW c \in Calls, RecoverNext(c)
    PROVE  IInv'
<1>. DEFINE call == calls[c]
<1>0. call.phase = "scanning" BY DEF RecoverNext
<1>1. /\ CallGood(call, rows, cache, refilled, effects)
      /\ call \in CallRecord /\ call.todo \subseteq DOMAIN rows
  BY <1>0, BusyCall
<1>2. logged' \subseteq DOMAIN rows /\ UNCHANGED <<rows, cache, refilled, effects>>
  BY DEF RecoverNext, IInv
<1>3. CASE call.todo = {}
  <2>1. Go(c, Idle) BY <1>3 DEF RecoverNext
  <2>2. CallGood(Idle, rows, cache, refilled, effects) BY DEF CallGood
  <2>. QED BY <1>2, <2>1, <2>2, QuietStep
<1>4. CASE call.todo # {}
  <2>. DEFINE next(id) == [call EXCEPT !.id = id, !.todo = @ \ {id}]
  <2>1. PICK id \in call.todo : Go(c, Load(next(id), "recover"))
    BY <1>4 DEF RecoverNext
  <2>2. call.frames = << >>
    BY <1>0, <1>1 DEF CallGood, Idle
  <2>3. id \in Executions BY <1>1 DEF CallRecord
  <2>4. /\ next(id) \in CallRecord /\ next(id).id = id
        /\ next(id).todo = call.todo \ {id} /\ next(id).frames = << >>
    BY <1>1, <2>2, <2>3 DEF CallRecord
  <2>. HIDE DEF next
  <2>5. CallGood(Load(next(id), "recover"), rows, cache, refilled, effects)
    BY <1>1, <2>4, NoFrames, LoadGood DEF Purposes
  <2>. QED BY <1>2, <2>1, <2>5, QuietStep
<1>. QED BY <1>3, <1>4

\* A call that loads an execution.
LEMMA LoadingCall ==
    ASSUME NEW call, NEW r, NEW K, NEW F, NEW E, CallGood(call, r, K, F, E),
           call.phase \in {"loading", "selecting", "filling"}
    PROVE  /\ call.id \in DOMAIN r /\ call.next \in Purposes
           /\ call.phase = "filling" =>
                 /\ Kept(call.id, call.execution, E)
                 /\ Fillable(call.id, call.execution, r, K, F)
<1>1. call # Idle BY DEF Idle
<1>. QED BY <1>1 DEF CallGood

LEMMA LookUpStep ==
    ASSUME IInv, NEW c \in Calls, LookUp(c, Loaded(c, cache[calls[c].id]))
    PROVE  IInv'
<1>. DEFINE call == calls[c]
            miss == [call EXCEPT !.phase = "selecting"]
            hit == Loaded(c, cache[call.id])
<1>0. call.phase = "loading" BY DEF LookUp
<1>1. /\ CallGood(call, rows, cache, refilled, effects)
      /\ call \in CallRecord /\ call.todo \subseteq DOMAIN rows
      /\ call.id \in Executions
      /\ FramesGood(call.id, call.frames, cache, refilled, effects)
  BY <1>0, BusyCall
<1>2. call.id \in DOMAIN rows /\ call.next \in Purposes
  BY <1>0, <1>1, LoadingCall
<1>3. logged' \subseteq DOMAIN rows /\ UNCHANGED <<rows, cache, refilled, effects>>
  BY DEF LookUp, IInv
<1>4. CASE call.id \in DOMAIN cache
  <2>1. Kept(call.id, cache[call.id], effects) BY <1>4 DEF IInv, CacheGood
  <2>2. AsCached(call.id, cache[call.id], cache, refilled) BY <1>4 DEF AsCached
  <2>3. CallGood(hit, rows, cache, refilled, effects)
    BY <1>1, <1>2, <2>1, <2>2, LoadedGood
  <2>4. Go(c, hit) BY <1>4 DEF LookUp
  <2>. QED BY <1>3, <2>3, <2>4, QuietStep
<1>5. CASE call.id \notin DOMAIN cache
  <2>1. Go(c, miss) BY <1>5 DEF LookUp
  <2>2. /\ miss \in CallRecord /\ miss.phase = "selecting" /\ miss.id = call.id
        /\ miss.todo = call.todo /\ miss.frames = call.frames /\ miss.next = call.next
    BY <1>1 DEF CallRecord
  <2>. HIDE DEF miss, call
  <2>3. CallGood(miss, rows, cache, refilled, effects)
    BY <1>1, <1>2, <2>2 DEF CallGood
  <2>. QED BY <1>3, <2>1, <2>3, QuietStep
<1>. QED BY <1>4, <1>5

LEMMA SelectRowStep ==
    ASSUME IInv, NEW c \in Calls, SelectRow(c)
    PROVE  IInv'
<1>. DEFINE call == calls[c]
            x == rows[call.id]
            new == [call EXCEPT !.phase = "filling", !.execution = x]
<1>0. call.phase = "selecting" BY DEF SelectRow
<1>1. /\ CallGood(call, rows, cache, refilled, effects)
      /\ call \in CallRecord /\ call.todo \subseteq DOMAIN rows
      /\ FramesGood(call.id, call.frames, cache, refilled, effects)
  BY <1>0, BusyCall
<1>2. call.id \in DOMAIN rows /\ call.next \in Purposes
  BY <1>0, <1>1, LoadingCall
<1>3. Kept(call.id, x, effects) BY <1>2 DEF IInv, RowsGood
<1>4. x \in SagaExecution /\ x.currentStep \in Nat
  BY <1>3, SagaAssumption DEF Kept, SagaExecution
<1>5. Fillable(call.id, x, rows, cache, refilled) BY <1>4 DEF Fillable
<1>6. /\ Go(c, new) /\ logged' \subseteq DOMAIN rows
      /\ UNCHANGED <<rows, cache, refilled, effects>>
  BY DEF SelectRow, IInv
<1>7. /\ new \in CallRecord /\ new.phase = "filling" /\ new.id = call.id
      /\ new.execution = x /\ new.todo = call.todo /\ new.frames = call.frames
      /\ new.next = call.next
  BY <1>1, <1>4 DEF CallRecord
<1>. HIDE DEF call, x, new
<1>8. CallGood(new, rows, cache, refilled, effects)
  BY <1>1, <1>2, <1>3, <1>5, <1>7 DEF CallGood
<1>. QED BY <1>6, <1>8, QuietStep

\* A fill that finds another copy in the cache than it brings is noted, so
\* the frames and the other calls still agree with the cache or are excepted.
LEMMA FillStep ==
    ASSUME IInv, NEW c \in Calls, Fill(c, Loaded(c, calls[c].execution))
    PROVE  IInv'
<1>. DEFINE call == calls[c]
            x == call.execution
            new == Loaded(c, x)
<1>0. call.phase = "filling" BY DEF Fill
<1>1. /\ CallGood(call, rows, cache, refilled, effects)
      /\ call \in CallRecord /\ call.todo \subseteq DOMAIN rows
      /\ call.id \in Executions
      /\ FramesGood(call.id, call.frames, cache, refilled, effects)
  BY <1>0, BusyCall
<1>2. /\ call.id \in DOMAIN rows /\ call.next \in Purposes
      /\ Kept(call.id, x, effects) /\ Fillable(call.id, x, rows, cache, refilled)
  BY <1>0, <1>1, LoadingCall
<1>3. logged' \subseteq DOMAIN rows /\ rows' = rows /\ effects' = effects
  BY DEF Fill, IInv
<1>4. CASE platform.jsonb = "parsed"
  <2>. DEFINE failed == IF call.next = "recover" THEN Idle ELSE Throw(call)
  <2>1. Go(c, failed) /\ UNCHANGED <<cache, refilled>> BY <1>4 DEF Fill
  <2>2. CallGood(Idle, rows, cache, refilled, effects) BY DEF CallGood
  <2>. HIDE DEF call
  <2>3. CallGood(Throw(call), rows, cache, refilled, effects)
    BY <1>1, ThrowGood
  <2>4. CallGood(failed, rows, cache, refilled, effects) BY <2>2, <2>3
  <2>. HIDE DEF failed
  <2>. QED BY <1>3, <2>1, <2>4, QuietStep
<1>5. CASE platform.jsonb # "parsed"
  <2>1. /\ Go(c, new)
        /\ cache' = [id \in DOMAIN cache \cup {call.id} |->
                        IF id = call.id THEN x ELSE cache[id]]
        /\ refilled' = refilled \cup
              {id \in DOMAIN cache \cap {call.id} :
                  cache[id].currentStep # x.currentStep}
    BY <1>5 DEF Fill
  <2>2. /\ DOMAIN rows \subseteq Executions
        /\ DOMAIN cache \subseteq DOMAIN rows /\ refilled \subseteq DOMAIN rows
        /\ RowsGood(rows, cache, refilled, effects)
        /\ CacheGood(cache, effects)
        /\ effects \in [Executions -> [1 .. NumSteps -> Effects]]
        /\ InOrder(effects)
    BY DEF IInv
  <2>3. call.id \in DOMAIN cache' /\ cache'[call.id] = x BY <2>1
  <2>4. AsCached(call.id, x, cache', refilled') BY <2>3 DEF AsCached
  <2>. HIDE DEF call, x, new
  <2>5. Filled(cache, cache', refilled, refilled') BY <2>1 DEF Filled
  <2>6. DOMAIN cache' \subseteq DOMAIN rows /\ refilled' \subseteq DOMAIN rows
    BY <1>2, <2>1, <2>2
  <2>7. CacheGood(cache', effects)
    <3>. SUFFICES ASSUME NEW id \in DOMAIN cache'
                  PROVE  Kept(id, cache'[id], effects)
      BY DEF CacheGood
    <3>1. CASE id = call.id BY <1>2, <2>3, <3>1
    <3>2. CASE id # call.id
      <4>1. id \in DOMAIN cache /\ cache'[id] = cache[id] BY <2>1, <3>2
      <4>. QED BY <2>2, <4>1 DEF CacheGood
    <3>. QED BY <3>1, <3>2
  <2>8. Grown(effects, effects, cache, refilled) BY GrownSame
  <2>9. \A id \in DOMAIN cache' \ DOMAIN cache :
           id \in DOMAIN rows /\ id \notin refilled' /\ rows[id].state = "Compensated"
              => rows[id].currentStep <= cache'[id].currentStep
    BY <1>2, <2>1, <2>3, <2>5 DEF Fillable, Filled
  <2>10. RowsGood(rows, cache', refilled', effects)
    BY <2>2, <2>5, <2>8, <2>9, RowsGrown
  <2>11. FramesGood(call.id, call.frames, cache', refilled', effects)
    BY <1>1, <2>5, <2>8, FramesGrown
  <2>12. CallGood(new, rows, cache', refilled', effects)
    BY <1>1, <1>2, <2>4, <2>11, LoadedGood DEF call, x, new
  <2>13. Rewritten(rows, rows, cache') BY DEF Rewritten
  <2>14. /\ InOrder(effects') /\ Grown(effects, effects', cache, refilled)
         /\ RowsGood(rows', cache', refilled', effects')
         /\ Rewritten(rows, rows', cache')
         /\ CallGood(new, rows', cache', refilled', effects')
    BY <1>3, <2>2, <2>8, <2>10, <2>12, <2>13
  <2>. QED BY <1>3, <2>1, <2>2, <2>5, <2>6, <2>7, <2>14, Frame
<1>. QED BY <1>4, <1>5

\* What is shown of a step of a call that changes its effects only.
LEMMA EffectStep ==
    ASSUME IInv, NEW c \in Calls, NEW new, Go(c, new),
           UNCHANGED <<rows, cache, refilled, logged>>,
           effects' \in [Executions -> [1 .. NumSteps -> Effects]],
           InOrder(effects'), Grown(effects, effects', cache, refilled),
           CallGood(new, rows, cache, refilled, effects')
    PROVE  IInv'
<1>1. /\ DOMAIN rows \subseteq Executions
      /\ RowsGood(rows, cache, refilled, effects)
      /\ DOMAIN cache \subseteq DOMAIN rows /\ logged \subseteq DOMAIN rows
      /\ refilled \subseteq DOMAIN rows /\ CacheGood(cache, effects)
  BY DEF IInv
<1>2. Filled(cache, cache, refilled, refilled) /\ Rewritten(rows, rows, cache)
  BY GrownSame
<1>3. RowsGood(rows, cache, refilled, effects') BY <1>1, <1>2, RowsGrown
<1>4. /\ RowsGood(rows', cache', refilled', effects') /\ CacheGood(cache', effects)
      /\ Filled(cache, cache', refilled, refilled') /\ Rewritten(rows, rows', cache')
      /\ CallGood(new, rows', cache', refilled', effects')
  BY <1>1, <1>2, <1>3
<1>. QED BY <1>1, <1>4, Frame

LEMMA AfterStepKeeps ==
    ASSUME NEW x \in SagaExecution, NEW result \in StepResults,
           x.currentStep < NumSteps
    PROVE  AfterStep(x, result) \in SagaExecution
<1>1. Append(x.stepResults, result) \in Seq(StepResults)
  BY AppendProperties DEF SagaExecution
<1>2. x.currentStep + 1 \in 0 .. NumSteps
  BY SagaAssumption DEF SagaExecution
<1>. DEFINE n == x.currentStep + 1
            s == Append(x.stepResults, result)
<1>3. AfterStep(x, result) = [x EXCEPT !.currentStep = n, !.stepResults = s]
  BY DEF AfterStep
<1>. HIDE DEF n, s
<1>4. [x EXCEPT !.currentStep = n, !.stepResults = s] \in SagaExecution
  BY <1>1, <1>2 DEF SagaExecution, n, s
<1>. QED BY <1>3, <1>4

LEMMA StepReturnsStep ==
    ASSUME IInv, NEW c \in Calls, NEW result \in StepResults, StepReturns(c, result)
    PROVE  IInv'
<1>. DEFINE call == calls[c]
            x == call.execution
            k == StepOf(x)
            done == IF result.data THEN "to undo" ELSE "final"
            y == AfterStep(x, result)
            next == IF result.success THEN "advance" ELSE "compensate"
            inner == [call EXCEPT !.frames = <<x>> \o @]
<1>0. call.phase = "executing" BY DEF StepReturns
<1>1. /\ CallGood(call, rows, cache, refilled, effects)
      /\ call \in CallRecord /\ call.todo \subseteq DOMAIN rows
      /\ call.id \in Executions
      /\ FramesGood(call.id, call.frames, cache, refilled, effects)
  BY <1>0, BusyCall
<1>2. /\ AsCached(call.id, x, cache, refilled) /\ Kept(call.id, x, effects)
      /\ x.state = "Running" /\ x.currentStep < NumSteps
  BY <1>0, <1>1 DEF CallGood, Idle
<1>3. Kept(call.id, x, effects) BY <1>2
<1>4. /\ x \in SagaExecution /\ x.currentStep \in 0 .. NumSteps
      /\ x.stepResults \in Seq(StepResults) /\ Len(x.stepResults) = x.currentStep
  BY <1>3 DEF Kept, SagaExecution
<1>5. k = x.currentStep + 1 /\ k \in 1 .. NumSteps
  BY <1>2, <1>4, SagaAssumption DEF StepOf
<1>6. /\ effects' = [effects EXCEPT ![call.id][k] = done]
      /\ Go(c, Persist(inner, y, next))
      /\ UNCHANGED <<rows, cache, refilled, logged>>
  BY DEF StepReturns
<1>b. /\ inner \in CallRecord /\ inner.todo = call.todo /\ inner.id = call.id
      /\ inner.frames = <<x>> \o call.frames
  <2>1. <<x>> \in Seq(SagaExecution) /\ call.frames \in Seq(SagaExecution)
    BY <1>1, <1>4 DEF CallRecord
  <2>2. <<x>> \o call.frames \in Seq(SagaExecution) BY <2>1, ConcatProperties
  <2>. QED BY <1>1, <2>2 DEF CallRecord
<1>7. effects \in [Executions -> [1 .. NumSteps -> Effects]] /\ InOrder(effects)
  BY DEF IInv
<1>8. done \in Effects /\ done # "none" BY DEF Effects
<1>. HIDE DEF call, done, next, k, inner
<1>9. effects' \in [Executions -> [1 .. NumSteps -> Effects]]
  BY <1>1, <1>5, <1>6, <1>7, <1>8
<1>10. \A id \in Executions, j \in 1 .. NumSteps :
          effects'[id][j] = IF id = call.id /\ j = k THEN done ELSE effects[id][j]
  BY <1>1, <1>5, <1>6, <1>7
<1>a. \A j \in 1 .. NumSteps :
         effects'[call.id][j] = IF j = k THEN done ELSE effects[call.id][j]
  BY <1>1, <1>5, <1>6, <1>7
<1>11. Grown(effects, effects', cache, refilled)
  <2>1. \A id \in Executions, j \in 1 .. NumSteps :
           effects[id][j] # "none" => effects'[id][j] # "none"
    BY <1>8, <1>10
  <2>2. ASSUME NEW id \in Executions, NEW j \in 1 .. NumSteps,
               effects[id][j] = "undone", id \notin refilled, id \in DOMAIN cache,
               j <= cache[id].currentStep
        PROVE  effects'[id][j] = "undone"
    <3>1. ~(id = call.id /\ j = k)
      BY <1>2, <1>4, <1>5, <2>2, SagaAssumption DEF AsCached
    <3>. QED BY <1>10, <2>2, <3>1
  <2>3. ASSUME NEW id \in Executions, id \notin DOMAIN cache
        PROVE  effects'[id] = effects[id]
    BY <1>1, <1>2, <1>6, <1>7, <2>3 DEF AsCached
  <2>. QED BY <2>1, <2>2, <2>3 DEF Grown
<1>12. InOrder(effects')
  <2>. SUFFICES ASSUME NEW id \in Executions, NEW j \in 2 .. NumSteps,
                       effects'[id][j] # "none"
                PROVE  effects'[id][j - 1] # "none"
    BY DEF InOrder
  <2>1. j \in 1 .. NumSteps /\ j - 1 \in 1 .. NumSteps BY SagaAssumption
  <2>2. CASE id = call.id /\ j = k
    <3>1. j - 1 \in 1 .. x.currentStep BY <1>4, <1>5, <2>2, SagaAssumption
    <3>2. effects[id][j - 1] # "none" BY <1>3, <2>2, <3>1 DEF Kept
    <3>. QED BY <1>8, <1>10, <2>1, <3>2
  <2>3. CASE ~(id = call.id /\ j = k)
    <3>1. effects[id][j] # "none" BY <1>10, <2>1, <2>3
    <3>2. effects[id][j - 1] # "none" BY <1>7, <3>1 DEF InOrder
    <3>. QED BY <1>8, <1>10, <2>1, <3>2
  <2>. QED BY <2>2, <2>3
<1>13. Stored(call.id, y, cache, refilled, effects')
  <2>1. y.currentStep = k /\ y.stepResults = Append(x.stepResults, result)
        /\ y.state = "Running"
    BY <1>2, <1>4, <1>5 DEF AfterStep, SagaExecution
  <2>2. y \in SagaExecution
    BY <1>2, <1>4, AfterStepKeeps
  <2>3. Len(y.stepResults) = y.currentStep
    BY <1>4, <1>5, <2>1, AppendProperties
  <2>4. \A j \in 1 .. y.currentStep : effects'[call.id][j] # "none"
    <3>. SUFFICES ASSUME NEW j \in 1 .. k PROVE effects'[call.id][j] # "none"
      BY <2>1
    <3>1. j \in 1 .. NumSteps BY <1>5, SagaAssumption
    <3>2. CASE j = k BY <1>8, <1>a, <3>1, <3>2
    <3>3. CASE j # k
      <4>1. j \in 1 .. x.currentStep BY <1>4, <1>5, <3>3, SagaAssumption
      <4>2. effects[call.id][j] # "none" BY <1>3, <4>1 DEF Kept
      <4>. QED BY <1>a, <3>1, <3>3, <4>2
    <3>. QED BY <3>2, <3>3
  <2>. HIDE DEF y
  <2>. QED BY <2>1, <2>2, <2>3, <2>4 DEF Stored, Kept
<1>. HIDE DEF y
<1>14. FramesGood(call.id, <<x>> \o call.frames, cache, refilled, effects')
  <2>1. FramesGood(call.id, call.frames, cache, refilled, effects')
    BY <1>1, <1>11, GrownSame, FramesGrown
  <2>2. Kept(call.id, x, effects') BY <1>1, <1>3, <1>11, KeptGrown
  <2>3. call.frames \in Seq(SagaExecution) BY <1>1 DEF CallRecord
  <2>4. /\ Len(<<x>> \o call.frames) = 1 + Len(call.frames)
        /\ \A i \in 1 .. Len(<<x>> \o call.frames) :
              (<<x>> \o call.frames)[i] = IF i = 1 THEN x ELSE call.frames[i - 1]
    BY <1>4, <2>3
  <2>5. Len(call.frames) \in Nat BY <2>3
  <2>. SUFFICES ASSUME NEW i \in 1 .. Len(<<x>> \o call.frames)
                PROVE  /\ Kept(call.id, (<<x>> \o call.frames)[i], effects')
                       /\ AsCached(call.id, (<<x>> \o call.frames)[i], cache, refilled)
    BY DEF FramesGood
  <2>6. CASE i = 1 BY <1>2, <2>2, <2>4, <2>6
  <2>7. CASE i # 1
    <3>1. i - 1 \in 1 .. Len(call.frames) BY <2>4, <2>5, <2>7
    <3>. QED BY <2>1, <2>4, <2>7, <3>1 DEF FramesGood
  <2>. QED BY <2>6, <2>7
<1>15. CallGood(Persist(inner, y, next), rows, cache, refilled, effects')
  BY <1>1, <1>b, <1>13, <1>14, PersistGood DEF Sequels, next
<1>. QED BY <1>6, <1>9, <1>11, <1>12, <1>15, EffectStep

LEMMA StepThrowsStep ==
    ASSUME IInv, NEW c \in Calls, StepThrows(c)
    PROVE  IInv'
<1>. DEFINE call == calls[c]
<1>0. call.phase = "executing" BY DEF StepThrows
<1>1. /\ CallGood(call, rows, cache, refilled, effects)
      /\ call \in CallRecord /\ call.todo \subseteq DOMAIN rows
      /\ FramesGood(call.id, call.frames, cache, refilled, effects)
  BY <1>0, BusyCall
<1>2. /\ Kept(call.id, call.execution, effects)
      /\ AsCached(call.id, call.execution, cache, refilled)
  BY <1>0, <1>1 DEF CallGood, Idle
<1>3. /\ Go(c, CaughtByAdvance(call, call.execution))
      /\ UNCHANGED <<rows, cache, refilled, effects>>
      /\ logged' \subseteq DOMAIN rows
  BY DEF StepThrows, IInv
<1>. HIDE DEF call
<1>4. CallGood(CaughtByAdvance(call, call.execution), rows, cache, refilled, effects)
  BY <1>1, <1>2, CaughtGood
<1>. QED BY <1>3, <1>4, QuietStep

LEMMA UndoStepStep ==
    ASSUME IInv, NEW c \in Calls, UndoStep(c)
    PROVE  IInv'
<1>. DEFINE call == calls[c]
            x == call.execution
            k == call.undoFrom
            new == [call EXCEPT !.undoFrom = k - 1]
<1>0. call.phase = "undoing" /\ k > 0 BY DEF UndoStep
<1>1. /\ CallGood(call, rows, cache, refilled, effects)
      /\ call \in CallRecord /\ call.todo \subseteq DOMAIN rows
      /\ call.id \in Executions
      /\ FramesGood(call.id, call.frames, cache, refilled, effects)
  BY <1>0, BusyCall
<1>2. /\ Stored(call.id, x, cache, refilled, effects) /\ x.state = "Compensating"
      /\ k <= x.currentStep
      /\ call.id \notin refilled => UndoneAfter(k, call.id, x, effects)
  BY <1>0, <1>1 DEF CallGood, Idle
<1>3. k \in Nat /\ x.currentStep \in 0 .. NumSteps
  BY <1>1, <1>2 DEF CallRecord, Stored, Kept, SagaExecution
<1>4. k \in 1 .. NumSteps /\ k \in 1 .. x.currentStep /\ k - 1 \in Nat
      /\ k - 1 <= x.currentStep
  BY <1>0, <1>2, <1>3, SagaAssumption
<1>5. /\ effects' = IF x.stepResults[k].data
                    THEN [effects EXCEPT ![call.id][k] = "undone"] ELSE effects
      /\ Go(c, new) /\ UNCHANGED <<rows, cache, refilled, logged>>
  BY DEF UndoStep
<1>6. /\ effects \in [Executions -> [1 .. NumSteps -> Effects]] /\ InOrder(effects)
      /\ CacheGood(cache, effects)
  BY DEF IInv
<1>7. /\ new \in CallRecord /\ new.phase = "undoing" /\ new.todo = call.todo
      /\ new.id = call.id /\ new.frames = call.frames /\ new.execution = x
      /\ new.undoFrom = k - 1
  BY <1>0, <1>1, <1>4 DEF CallRecord
<1>8. call.id \in DOMAIN cache BY <1>2 DEF Stored, WithinCached
<1>. HIDE DEF call, x, k, new
<1>9. effects' \in [Executions -> [1 .. NumSteps -> Effects]]
  BY <1>1, <1>4, <1>5, <1>6 DEF Effects
<1>10. \A id \in Executions, j \in 1 .. NumSteps :
          \/ effects'[id][j] = effects[id][j]
          \/ effects'[id][j] = "undone" /\ id = call.id /\ j = k
  BY <1>1, <1>4, <1>5, <1>6
<1>11. \A id \in Executions, j \in 1 .. NumSteps :
          /\ effects[id][j] # "none" => effects'[id][j] # "none"
          /\ effects[id][j] = "undone" => effects'[id][j] = "undone"
  BY <1>10
<1>12. Grown(effects, effects', cache, refilled)
  <2>1. ASSUME NEW id \in Executions, id \notin DOMAIN cache
        PROVE  effects'[id] = effects[id]
    BY <1>1, <1>5, <1>6, <1>8, <2>1
  <2>. QED BY <1>11, <2>1 DEF Grown
<1>13. InOrder(effects')
  <2>. SUFFICES ASSUME NEW id \in Executions, NEW j \in 2 .. NumSteps,
                       effects'[id][j] # "none"
                PROVE  effects'[id][j - 1] # "none"
    BY DEF InOrder
  <2>1. j \in 1 .. NumSteps /\ j - 1 \in 1 .. NumSteps BY SagaAssumption
  <2>2. effects[id][j] # "none"
    <3>1. CASE id = call.id /\ j = k
      \* the step it undoes has run
      BY <1>2, <1>4, <3>1 DEF Stored, Kept
    <3>2. CASE ~(id = call.id /\ j = k) BY <1>10, <2>1, <3>2
    <3>. QED BY <3>1, <3>2
  <2>3. effects[id][j - 1] # "none" BY <1>6, <2>2 DEF InOrder
  <2>. QED BY <1>11, <2>1, <2>3
<1>14. Stored(call.id, x, cache, refilled, effects')
  BY <1>1, <1>2, <1>6, <1>12, GrownSame, StoredGrown
<1>15. ASSUME call.id \notin refilled PROVE UndoneAfter(k - 1, call.id, x, effects')
  <2>. SUFFICES ASSUME NEW j \in 1 .. x.currentStep, j > k - 1, x.stepResults[j].data
                PROVE  effects'[call.id][j] = "undone"
    BY DEF UndoneAfter
  <2>1. j \in 1 .. NumSteps BY <1>3, SagaAssumption
  <2>2. CASE j = k BY <1>1, <1>4, <1>5, <1>6, <2>2
  <2>3. CASE j # k
    <3>1. j > k BY <1>4, <2>3
    <3>2. effects[call.id][j] = "undone" BY <1>2, <1>15, <3>1 DEF UndoneAfter
    <3>. QED BY <1>1, <1>11, <2>1, <3>2
  <2>. QED BY <2>2, <2>3
<1>a. FramesGood(call.id, call.frames, cache, refilled, effects')
  BY <1>1, <1>12, GrownSame, FramesGrown
<1>16. CallGood(new, rows, cache, refilled, effects')
  BY <1>1, <1>2, <1>4, <1>7, <1>a, <1>14, <1>15 DEF CallGood
<1>. QED BY <1>5, <1>9, <1>12, <1>13, <1>16, EffectStep

\* What a compensation is about to store when it is over.
LEMMA UndoingCall ==
    ASSUME IInv, NEW c \in Calls, calls[c].phase = "undoing"
    PROVE  /\ calls[c] \in CallRecord /\ calls[c].todo \subseteq DOMAIN rows
           /\ FramesGood(calls[c].id, calls[c].frames, cache, refilled, effects)
           /\ Kept(calls[c].id, calls[c].execution, effects)
           /\ WithinCached(calls[c].id, calls[c].execution, cache, refilled)
           /\ calls[c].id \notin refilled =>
                 UndoneAfter(calls[c].undoFrom, calls[c].id, calls[c].execution, effects)
<1>1. /\ CallGood(calls[c], rows, cache, refilled, effects)
      /\ calls[c] \in CallRecord /\ calls[c].todo \subseteq DOMAIN rows
      /\ FramesGood(calls[c].id, calls[c].frames, cache, refilled, effects)
  BY BusyCall
<1>2. /\ Stored(calls[c].id, calls[c].execution, cache, refilled, effects)
      /\ calls[c].execution.state = "Compensating"
      /\ calls[c].id \notin refilled =>
            UndoneAfter(calls[c].undoFrom, calls[c].id, calls[c].execution, effects)
  BY <1>1 DEF CallGood, Idle
<1>. QED BY <1>1, <1>2 DEF Stored

LEMMA UndoThrowsStep ==
    ASSUME IInv, NEW c \in Calls, UndoThrows(c)
    PROVE  IInv'
<1>. DEFINE call == calls[c]
            y == [call.execution EXCEPT !.state = "CompensationFailed"]
<1>0. call.phase = "undoing" BY DEF UndoThrows
<1>1. /\ call \in CallRecord /\ call.todo \subseteq DOMAIN rows
      /\ FramesGood(call.id, call.frames, cache, refilled, effects)
      /\ Kept(call.id, call.execution, effects)
      /\ WithinCached(call.id, call.execution, cache, refilled)
  BY <1>0, UndoingCall
<1>2. /\ Go(c, Persist(call, y, "return")) /\ UNCHANGED <<rows, cache, refilled, effects>>
      /\ logged' \subseteq DOMAIN rows
  BY DEF UndoThrows, IInv
<1>3. /\ "CompensationFailed" \in SagaState \ {"Compensated"}
      /\ "CompensationFailed" = "Completed" => call.execution.currentStep = NumSteps
  BY DEF SagaState
<1>. HIDE DEF call
<1>4. Stored(call.id, y, cache, refilled, effects)
  BY <1>1, <1>3, Restated, Zenon
<1>. HIDE DEF y
<1>5. CallGood(Persist(call, y, "return"), rows, cache, refilled, effects)
  BY <1>1, <1>4, PersistGood DEF Sequels
<1>. QED BY <1>2, <1>5, QuietStep

LEMMA UndoEndsStep ==
    ASSUME IInv, NEW c \in Calls, UndoEnds(c)
    PROVE  IInv'
<1>. DEFINE call == calls[c]
            x == call.execution
            y == [x EXCEPT !.state = "Compensated"]
<1>0. call.phase = "undoing" /\ call.undoFrom = 0 BY DEF UndoEnds
<1>1. /\ call \in CallRecord /\ call.todo \subseteq DOMAIN rows
      /\ FramesGood(call.id, call.frames, cache, refilled, effects)
      /\ Kept(call.id, x, effects)
      /\ WithinCached(call.id, x, cache, refilled)
      /\ call.id \notin refilled => UndoneAfter(0, call.id, x, effects)
  BY <1>0, UndoingCall
<1>2. /\ Go(c, Persist(call, y, "return")) /\ UNCHANGED <<rows, cache, refilled, effects>>
      /\ logged' \subseteq DOMAIN rows
  BY DEF UndoEnds, IInv
<1>. HIDE DEF call, x
<1>3. /\ y \in SagaExecution /\ y.state = "Compensated"
      /\ y.currentStep = x.currentStep /\ y.stepResults = x.stepResults
  BY <1>1 DEF Kept, SagaExecution, SagaState
<1>. HIDE DEF y
<1>4. Stored(call.id, y, cache, refilled, effects)
  BY <1>1, <1>3 DEF Stored, Kept, UndoneAfter, WithinCached
<1>5. CallGood(Persist(call, y, "return"), rows, cache, refilled, effects)
  BY <1>1, <1>3, <1>4, PersistGood DEF Sequels
<1>. QED BY <1>2, <1>5, QuietStep

\* A call that stores an execution.
LEMMA StoringCall ==
    ASSUME NEW call, NEW r, NEW K, NEW F, NEW E, CallGood(call, r, K, F, E),
           call.phase \in {"writing", "logging"}
    PROVE  /\ Stored(call.id, call.execution, K, F, E) /\ call.next \in Sequels
           /\ call.next = "undo" => call.execution.state = "Compensating"
           /\ call.phase = "logging" => call.id \in DOMAIN r
<1>1. call # Idle BY DEF Idle
<1>. QED BY <1>1 DEF CallGood

LEMMA WriteRowStep ==
    ASSUME IInv, NEW c \in Calls, WriteRow(c)
    PROVE  IInv'
<1>. DEFINE call == calls[c]
            x == call.execution
            new == [call EXCEPT !.phase = "logging"]
<1>0. call.phase = "writing" BY DEF WriteRow
<1>1. /\ CallGood(call, rows, cache, refilled, effects)
      /\ call \in CallRecord /\ call.todo \subseteq DOMAIN rows
      /\ call.id \in Executions
      /\ FramesGood(call.id, call.frames, cache, refilled, effects)
  BY <1>0, BusyCall
<1>2. /\ Stored(call.id, x, cache, refilled, effects)
      /\ call.next \in Sequels
      /\ call.next = "undo" => x.state = "Compensating"
  BY <1>0, <1>1, StoringCall
<1>3. /\ rows' = [id \in DOMAIN rows \cup {call.id} |->
                     IF id = call.id THEN x ELSE rows[id]]
      /\ Go(c, new) /\ UNCHANGED <<cache, refilled, effects, logged>>
  BY DEF WriteRow
<1>4. /\ new \in CallRecord /\ new.phase = "logging" /\ new.todo = call.todo
      /\ new.id = call.id /\ new.frames = call.frames /\ new.execution = x
      /\ new.next = call.next
  BY <1>0, <1>1 DEF CallRecord
<1>. HIDE DEF call, x, new
<1>5. /\ DOMAIN rows \subseteq Executions /\ RowsGood(rows, cache, refilled, effects)
      /\ DOMAIN cache \subseteq DOMAIN rows /\ logged \subseteq DOMAIN rows
      /\ refilled \subseteq DOMAIN rows /\ CacheGood(cache, effects)
      /\ effects \in [Executions -> [1 .. NumSteps -> Effects]] /\ InOrder(effects)
  BY DEF IInv
<1>6. /\ DOMAIN rows' \subseteq Executions
      /\ DOMAIN cache' \subseteq DOMAIN rows' /\ logged' \subseteq DOMAIN rows'
      /\ refilled' \subseteq DOMAIN rows' /\ call.id \in DOMAIN rows'
      /\ DOMAIN rows \subseteq DOMAIN rows'
  BY <1>1, <1>3, <1>5
<1>7. RowsGood(rows', cache, refilled, effects)
  <2>. SUFFICES ASSUME NEW id \in DOMAIN rows'
                PROVE  /\ Kept(id, rows'[id], effects)
                       /\ rows'[id].state = "Compensated" /\ id \notin refilled =>
                             /\ UndoneAfter(0, id, rows'[id], effects)
                             /\ id \in DOMAIN cache =>
                                   rows'[id].currentStep <= cache[id].currentStep
    BY DEF RowsGood
  <2>1. CASE id = call.id
    <3>1. rows'[id] = x BY <1>3, <2>1
    <3>. QED BY <1>2, <2>1, <3>1 DEF Stored, WithinCached
  <2>2. CASE id # call.id
    <3>1. id \in DOMAIN rows /\ rows'[id] = rows[id] BY <1>3, <2>2
    <3>. QED BY <1>5, <3>1 DEF RowsGood
  <2>. QED BY <2>1, <2>2
<1>8. Rewritten(rows, rows', cache)
  <2>. SUFFICES ASSUME NEW id \in DOMAIN rows, id \notin DOMAIN cache
                PROVE  rows'[id] = rows[id] \/ rows'[id].state # "Compensated"
    BY <1>6 DEF Rewritten
  <2>1. CASE id = call.id
    \* what is stored of an execution that is not cached is Running
    BY <1>2, <1>3, <2>1 DEF Stored, WithinCached
  <2>2. CASE id # call.id BY <1>3, <2>2
  <2>. QED BY <2>1, <2>2
<1>9. /\ Grown(effects, effects, cache, refilled)
      /\ Filled(cache, cache, refilled, refilled)
  BY GrownSame
<1>10. CallGood(new, rows', cache, refilled, effects)
  BY <1>1, <1>2, <1>4, <1>6 DEF CallGood
<1>11. /\ RowsGood(rows', cache', refilled', effects') /\ InOrder(effects')
       /\ CacheGood(cache', effects)
       /\ Grown(effects, effects', cache, refilled)
       /\ Filled(cache, cache', refilled, refilled') /\ Rewritten(rows, rows', cache')
       /\ CallGood(new, rows', cache', refilled', effects')
       /\ effects' \in [Executions -> [1 .. NumSteps -> Effects]]
  BY <1>3, <1>5, <1>7, <1>8, <1>9, <1>10
<1>. QED BY <1>3, <1>6, <1>11, Frame

LEMMA LogEventStep ==
    ASSUME IInv, NEW c \in Calls, LogEvent(c)
    PROVE  IInv'
<1>. DEFINE call == calls[c]
<1>0. call.phase = "logging" BY DEF LogEvent
<1>1. /\ CallGood(call, rows, cache, refilled, effects)
      /\ call \in CallRecord /\ call.todo \subseteq DOMAIN rows
      /\ call.id \in Executions
      /\ FramesGood(call.id, call.frames, cache, refilled, effects)
  BY <1>0, BusyCall
<1>2. /\ Stored(call.id, call.execution, cache, refilled, effects)
      /\ call.id \in DOMAIN rows /\ call.next \in Sequels
      /\ call.next = "undo" => call.execution.state = "Compensating"
  BY <1>0, <1>1, StoringCall
<1>3. UNCHANGED <<rows, cache, refilled, effects>> /\ logged' \subseteq DOMAIN rows
  BY <1>2 DEF LogEvent, IInv
<1>4. CASE platform.store = "postgres" /\ call.id \in logged
  <2>1. Go(c, Throw(call)) BY <1>4 DEF LogEvent
  <2>. HIDE DEF call
  <2>2. CallGood(Throw(call), rows, cache, refilled, effects)
    BY <1>1, ThrowGood
  <2>. QED BY <1>3, <2>1, <2>2, QuietStep
<1>5. CASE ~(platform.store = "postgres" /\ call.id \in logged)
  <2>1. Go(c, Continued(call)) BY <1>5 DEF LogEvent
  <2>. HIDE DEF call
  <2>2. CASE call.next = "return"
    <3>1. CallGood(Settled(call), rows, cache, refilled, effects)
      BY <1>1, SettledGood
    <3>. QED BY <1>3, <2>1, <2>2, <3>1, QuietStep DEF Continued
  <2>3. CASE call.next \in {"advance", "compensate"}
    <3>1. CallGood(Load(call, call.next), rows, cache, refilled, effects)
      BY <1>1, <1>2, <2>3, LoadGood DEF Purposes
    <3>. QED BY <1>3, <2>1, <2>3, <3>1, QuietStep DEF Continued
  <2>4. CASE call.next = "undo"
    <3>. DEFINE new == [call EXCEPT !.phase = "undoing",
                                    !.undoFrom = FirstToUndo(call.execution)]
    <3>1. call.execution.currentStep \in Nat
      BY <1>1, SagaAssumption DEF CallRecord, SagaExecution
    <3>2. /\ new \in CallRecord /\ new.phase = "undoing" /\ new.todo = call.todo
          /\ new.id = call.id /\ new.frames = call.frames
          /\ new.execution = call.execution
          /\ new.undoFrom = call.execution.currentStep
      BY <1>1, <3>1 DEF CallRecord, FirstToUndo
    <3>3. Continued(call) = new BY <2>4 DEF Continued
    <3>. HIDE DEF new
    <3>4. UndoneAfter(call.execution.currentStep, call.id, call.execution, effects)
      BY <3>1 DEF UndoneAfter
    <3>5. CallGood(new, rows, cache, refilled, effects)
      BY <1>1, <1>2, <2>4, <3>1, <3>2, <3>4 DEF CallGood
    <3>. QED BY <1>3, <2>1, <3>3, <3>5, QuietStep
  <2>. QED BY <1>2, <2>2, <2>3, <2>4 DEF Sequels
<1>. QED BY <1>4, <1>5

\* A restart empties the cache: what is undone is then known of the rows only.
LEMMA RestartStep ==
    ASSUME IInv, Restart
    PROVE  IInv'
<1>1. /\ cache' = << >> /\ calls' = [c \in Calls |-> Idle]
      /\ UNCHANGED <<rows, refilled, effects>> /\ logged' \subseteq DOMAIN rows
  BY DEF Restart, IInv
<1>2. DOMAIN cache' = {} BY <1>1
<1>3. /\ DOMAIN rows \subseteq Executions /\ refilled \subseteq DOMAIN rows
      /\ RowsGood(rows, cache, refilled, effects)
      /\ effects \in [Executions -> [1 .. NumSteps -> Effects]] /\ InOrder(effects)
  BY DEF IInv
<1>4. RowsGood(rows, cache', refilled, effects) BY <1>2, <1>3 DEF RowsGood
<1>5. /\ RowsGood(rows', cache', refilled', effects') /\ InOrder(effects')
      /\ CacheGood(cache', effects')
      /\ effects' \in [Executions -> [1 .. NumSteps -> Effects]]
  BY <1>1, <1>2, <1>3, <1>4 DEF CacheGood
<1>6. \A c \in Calls : CallGood(calls'[c], rows', cache', refilled', effects')
  BY <1>1 DEF CallGood
<1>7. calls' = [c \in Calls |-> calls'[c]] BY <1>1
<1>. QED BY <1>1, <1>2, <1>3, <1>5, <1>6, <1>7 DEF IInv

LEMMA SameIInv ==
    ASSUME IInv, UNCHANGED <<rows, logged, cache, refilled, calls, effects>> PROVE IInv'
<1>1. /\ DOMAIN rows' \subseteq Executions
      /\ DOMAIN cache' \subseteq DOMAIN rows'
      /\ logged' \subseteq DOMAIN rows' /\ refilled' \subseteq DOMAIN rows'
  BY DEF IInv
<1>2. /\ effects' \in [Executions -> [1 .. NumSteps -> Effects]]
      /\ InOrder(effects') /\ RowsGood(rows', cache', refilled', effects')
      /\ CacheGood(cache', effects')
      /\ calls' = [c \in Calls |-> calls'[c]]
      /\ \A c \in Calls : CallGood(calls'[c], rows', cache', refilled', effects')
  BY DEF IInv
<1>. QED BY <1>1, <1>2 DEF IInv

LEMMA NextIInv == ASSUME IInv, [Next]_vars PROVE IInv'
<1>1. ASSUME NEW c \in Calls, NEW id \in Executions, Start(c, id) PROVE IInv'
  BY <1>1, StartStep
<1>2. ASSUME NEW c \in Calls, NEW id \in Executions,
             NEW purpose \in {"advance", "compensate", "resume", "get"},
             Request(c, purpose, id)
      PROVE  IInv'
  BY <1>2, RequestStep
<1>3. ASSUME NEW c \in Calls, RecoverPendingSagas(c) PROVE IInv'
  BY <1>3, RecoverPendingStep
<1>4. ASSUME NEW c \in Calls, CallStep(c) PROVE IInv'
  <2>1. ASSUME NEW result \in StepResults, StepReturns(c, result) PROVE IInv'
    BY <2>1, StepReturnsStep
  <2>2. CASE RecoverNext(c) BY <2>2, RecoverNextStep
  <2>3. CASE LoadExecution(c)
    BY <2>3, LookUpStep, SelectRowStep, FillStep DEF LoadExecution
  <2>4. CASE StepThrows(c) BY <2>4, StepThrowsStep
  <2>5. CASE UndoStep(c) BY <2>5, UndoStepStep
  <2>6. CASE UndoThrows(c) BY <2>6, UndoThrowsStep
  <2>7. CASE UndoEnds(c) BY <2>7, UndoEndsStep
  <2>8. CASE WriteRow(c) BY <2>8, WriteRowStep
  <2>9. CASE LogEvent(c) BY <2>9, LogEventStep
  <2>. QED BY <1>4, <2>1, <2>2, <2>3, <2>4, <2>5, <2>6, <2>7, <2>8, <2>9 DEF CallStep
<1>5. ASSUME NEW id \in Executions, Age(id) PROVE IInv'
  BY <1>5, SameIInv DEF Age
<1>6. CASE Restart BY <1>6, RestartStep
<1>7. CASE UNCHANGED vars BY <1>7, SameIInv DEF vars
<1>. QED BY <1>1, <1>2, <1>3, <1>4, <1>5, <1>6, <1>7 DEF Next

-----------------------------------------------------------------------------
(***************************************************************************)
(* The theorems.                                                           *)
(***************************************************************************)
\* The shared state and every call stay in order through overlapping calls,
\* loads that fill the cache one over another, nested compensation, refused
\* events and restarts of the process.
THEOREM Invariance == Spec => []IInv
BY InitIInv, NextIInv, PTL DEF Spec

\* A row and a cached copy always hold one result for each step they count, so
\* the compensation loop (saga-coordinator-impl.ts) never indexes past them.
THEOREM TypeCorrect == Spec => []TypeOK
<1>1. IInv => TypeOK BY DEF IInv, RowsGood, CacheGood, Kept, TypeOK
<1>. QED BY <1>1, Invariance, PTL

\* No step of a saga runs before the ones that precede it, and a Completed
\* saga has run them all, whatever calls advance it at once and although the
\* cached copies they start from are never refreshed.
THEOREM OrderHolds == Spec => []StepsInOrder
<1>1. IInv => StepsInOrder
  <2>. SUFFICES ASSUME IInv, NEW id \in Executions
                PROVE  /\ \A k \in 2 .. NumSteps :
                             effects[id][k] # "none" => effects[id][k - 1] # "none"
                       /\ (id \in DOMAIN rows /\ rows[id].state = "Completed") =>
                             \A k \in 1 .. NumSteps : effects[id][k] # "none"
    BY DEF StepsInOrder
  <2>1. \A k \in 2 .. NumSteps :
           effects[id][k] # "none" => effects[id][k - 1] # "none"
    BY DEF IInv, InOrder
  <2>2. (id \in DOMAIN rows /\ rows[id].state = "Completed") =>
           \A k \in 1 .. NumSteps : effects[id][k] # "none"
    BY DEF IInv, RowsGood, Kept
  <2>. QED BY <2>1, <2>2
<1>. QED BY <1>1, Invariance, PTL

\* A saga whose row says Compensated has undone every step the row has a
\* result for that left something to undo, whatever loads overlap, unless one
\* of them has replaced the cached copy by one that counts other steps: else
\* a step another call runs meanwhile is one that the copy compensated from
\* does not count.
THEOREM UndoneHolds == Spec => []RecordedStepsUndone
<1>1. IInv => RecordedStepsUndone
  <2>. SUFFICES ASSUME IInv, NEW id \in DOMAIN rows, id \notin refilled,
                       rows[id].state = "Compensated",
                       NEW k \in 1 .. rows[id].currentStep,
                       rows[id].stepResults[k].data
                PROVE  effects[id][k] = "undone"
    BY DEF RecordedStepsUndone
  <2>1. UndoneAfter(0, id, rows[id], effects) BY DEF IInv, RowsGood
  <2>2. rows[id].currentStep \in 0 .. NumSteps
    BY DEF IInv, RowsGood, Kept, SagaExecution
  <2>3. k > 0 BY <2>2, SagaAssumption
  <2>. QED BY <2>1, <2>3 DEF UndoneAfter
<1>. QED BY <1>1, Invariance, PTL

=============================================================================
