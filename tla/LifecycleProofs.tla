---------------------------- MODULE LifecycleProofs ----------------------------
(***************************************************************************)
(* Theorems about startup, rollback and shutdown.                          *)
(***************************************************************************)
EXTENDS LifecycleProperties, FiniteSetTheorems, TLAPS

Orch      == {"startup", "shutdown"}
ExecState == {"out", "queued", "waiting", "running", "returned", "failed", "timedOut"}
HookState == {"off", "on", "over", "abandoned", "late"}
Where     == StartupPhase \cup ShutdownPhase
               \cup {"none", "rollback", "joining", "rejected", "up", "wait"}

\* The types, of the functions also where TypeOK leaves them open.
Shapes ==
    /\ app \in State /\ comp \in [Component -> State]
    /\ attempted \in [Component -> SUBSET StartupPhase]
    /\ at \in [Orch -> Where] /\ stage \in [Orch -> Int]
    /\ exec \in [Orch -> [Component -> ExecState]]
    /\ tries \in [Orch -> [Component -> Nat]]
    /\ hook \in [Component -> [Phase -> HookState]]
    /\ expired \in BOOLEAN /\ resolved \in BOOLEAN

Ranges ==
    /\ at["startup"] \in StartupPhase \cup {"none", "rollback", "joining", "rejected", "up"}
    /\ at["shutdown"] \in ShutdownPhase \cup {"none", "wait"}
    /\ stage["startup"] \in 1..Cardinality(Component) + 1
    /\ stage["shutdown"] \in 0..Cardinality(Component)
    /\ \A o \in Orch, c \in Component : tries[o][c] <= Retries[c]

\* What is being executed belongs to the stage and the phase its orchestrator is in.
InStage ==
    \A c \in Component :
        /\ exec["startup"][c] # "out" => Starting /\ stage["startup"] = Rank[c]
        /\ exec["shutdown"][c] # "out" =>
               at["shutdown"] \in ShutdownPhase /\ stage["shutdown"] = Rank[c]

\* The teardown begins when no stage of the startup is in flight.
Apart == \A c \in Component : exec["startup"][c] # "out" => at["shutdown"] \notin ShutdownPhase

\* A component is initializing or starting exactly while it is executed.
Executed ==
    \A c \in Component :
        IF exec["startup"][c] # "out" THEN comp[c] = Executing[at["startup"]]
        ELSE comp[c] \notin {"initializing", "starting"}

Awaiting == [initialize |-> "idle", start |-> "initialized", ready |-> "started"]

\* Until a shutdown is requested, a component that has not failed is past the
\* phase or before it, as its stage is.
InOrder ==
    Starting /\ ~Requested =>
        \A c \in Component : exec["startup"][c] = "out" =>
            \/ comp[c] = "failed"
            \/ /\ Rank[c] < stage["startup"]
               /\ comp[c] = Succeeded[at["startup"]]
               /\ hook[c][at["startup"]] = "over"
            \/ /\ Rank[c] >= stage["startup"]
               /\ comp[c] = Awaiting[at["startup"]]
               /\ Rank[c] = stage["startup"] => ~Busy("startup")

\* Nothing has happened before start() is called.
Fresh ==
    at["startup"] = "none" =>
        stage["startup"] = 1 /\ (Requested \/ \A c \in Component : comp[c] = "idle")

\* What a timeout abandoned is not called again.
AbandonedHasFailed ==
    \A c \in Component :
        /\ ~Requested /\ exec["startup"][c] = "out" /\ Abandoned(c, StartupPhase) =>
               comp[c] = "failed"
        /\ exec["startup"][c] \in {"queued", "returned"} => ~Abandoned(c, StartupPhase)
        /\ exec["shutdown"][c] = "waiting" => ~Abandoned(c, ShutdownPhase)

\* The hooks that run are those the executor is in.
HooksRun ==
    \A c \in Component :
        /\ \A p \in StartupPhase :
               hook[c][p] = "on" => exec["startup"][c] = "running" /\ at["startup"] = p
        /\ \A p \in ShutdownPhase :
               hook[c][p] = "on" => exec["shutdown"][c] = "running" /\ at["shutdown"] = p
        /\ exec["startup"][c] = "running" => hook[c][at["startup"]] = "on"
        /\ exec["shutdown"][c] = "running" => hook[c][at["shutdown"]] = "on"
        /\ exec["startup"][c] = "returned" => hook[c][at["startup"]] = "over"

OneHook ==
    \A c \in Component : \A p, q \in Phase :
        hook[c][p] \in {"on", "abandoned"} /\ hook[c][q] \in {"on", "abandoned"} => p = q

\* What a component that is executed depends on has started.
DependenciesAreUp ==
    \A c \in Component : exec["startup"][c] \in {"queued", "running"} =>
        \A d \in DependsOn[c] : hook[d][at["startup"]] = "over"

\* Of the teardown, only what comes before the stage has been called.
TornDownInOrder ==
    \A c \in Component :
        /\ \A p \in ShutdownPhase : hook[c][p] # "off" => at["shutdown"] \in ShutdownPhase
        /\ at["shutdown"] = "stop" => hook[c]["dispose"] = "off"
        /\ at["shutdown"] \in ShutdownPhase /\ hook[c][at["shutdown"]] # "off" =>
               exec["shutdown"][c] # "out" \/ Rank[c] > stage["shutdown"]

TypesInv == Shapes /\ Ranges /\ InStage

TurnsInv == /\ TypesInv /\ Apart /\ Executed /\ InOrder /\ Fresh
            /\ AbandonedHasFailed /\ HooksRun /\ OneHook
            /\ DependenciesAreUp /\ TornDownInOrder

\* shutdown() has resolved with everything done, or with its deadline expired.
ResolvedIsDone ==
    /\ expired => Requested
    /\ resolved /\ ~expired => /\ at["shutdown"] = "dispose" /\ stage["shutdown"] = 0
                               /\ ~Busy("shutdown")
                               /\ app = "disposed"

\* A hook of the component has hung, whose end nobody waited for in its stage.
Hung(c) == \E p \in StartupPhase : hook[c][p] \in {"abandoned", "late"}

\* Within the deadline, what the phase has to undo is undone, under way or to come.
Undoing(c) ==
    \/ exec["shutdown"][c] # "out"
    \/ hook[c][at["shutdown"]] # "off" \/ Hung(c)
    \/ Rank[c] < stage["shutdown"]
    \/ Rank[c] = stage["shutdown"] /\ ~Busy("shutdown")

TornDown ==
    /\ at["shutdown"] \notin ShutdownPhase => stage["shutdown"] = Cardinality(Component)
    /\ \A c \in Component :
           /\ hook[c]["initialize"] # "off" =>
                 \/ "initialize" \in attempted[c]
                 \/ exec["startup"][c] # "out" /\ at["startup"] = "initialize"
           /\ ~expired =>
                  /\ comp[c] = "stopping" => exec["shutdown"][c] # "out" /\ at["shutdown"] = "stop"
                  /\ exec["shutdown"][c] \in {"running", "returned", "failed", "timedOut"} =>
                         hook[c][at["shutdown"]] # "off" \/ Hung(c)
                  /\ at["shutdown"] \in ShutdownPhase /\ Undoes[at["shutdown"]] \in attempted[c] =>
                         Undoing(c)
                  /\ at["shutdown"] = "dispose" /\ "start" \in attempted[c] =>
                         hook[c]["stop"] # "off" \/ Hung(c)

CloseInv == TurnsInv /\ ResolvedIsDone /\ TornDown

-----------------------------------------------------------------------------
(* The stages, and what Transition allows *)

LEMMA RankType == /\ Cardinality(Component) \in Nat
                  /\ Rank \in [Component -> Stages]
                  /\ \A c \in Component : \A d \in DependsOn[c] :
                         d \in Component /\ Rank[d] < Rank[c]
<1>1. Cardinality(Component) \in Nat
  BY LifecycleConstants, FS_CardinalityType
<1>2. Rank \in [Component -> Stages] /\ IsRanking(Rank)
  BY DependenciesAreAcyclic DEF Rank
<1>3. \A c \in Component : DependsOn[c] \subseteq Component
  BY LifecycleConstants
<1> QED
  BY <1>1, <1>2, <1>3 DEF IsRanking

LEMMA Transitions ==
    /\ \A p \in StartupPhase :
           /\ Executing[p] \in State /\ Succeeded[p] \in State /\ Awaiting[p] \in State
           /\ Executing[p] \notin {"failed", "stopping"}
           /\ Succeeded[p] \notin {"failed", "stopping", "initializing", "starting"}
           /\ Awaiting[p] # "failed"
           /\ Transition(Awaiting[p], Executing[p]) = Executing[p]
           /\ Transition(Executing[p], Succeeded[p]) = Succeeded[p]
           /\ Transition(Executing[p], "failed") = "failed"
    /\ \A s, t \in State : /\ Transition(s, t) \in State
                           /\ Transition(s, t) \in {s, t}
    /\ Transition("stopping", "stopped") = "stopped"
    /\ Transition("stopping", "failed") = "failed"
    /\ Succeeded["initialize"] = Awaiting["start"] /\ Succeeded["start"] = Awaiting["ready"]
BY DEF StartupPhase, State, Executing, Succeeded, Awaiting, Transition, Allowed

-----------------------------------------------------------------------------
(* Type correctness *)

LEMMA TypesAreOK == Shapes /\ Ranges => TypeOK
BY DEF Shapes, Ranges, TypeOK, Orch, ExecState, HookState

LEMMA TypesInit == Init => TypesInv
<1> SUFFICES ASSUME Init PROVE TypesInv
  OBVIOUS
<1>1. at \in [Orch -> Where] /\ stage \in [Orch -> Int]
  BY RankType DEF Init, Orch, Where
<1>2. exec \in [Orch -> [Component -> ExecState]] /\ tries \in [Orch -> [Component -> Nat]]
  BY DEF Init, Orch, ExecState
<1>3. Shapes
  BY <1>1, <1>2 DEF Init, Shapes, State, Phase, StartupPhase, ShutdownPhase, HookState
<1>4. Ranges
  BY RankType, LifecycleConstants DEF Init, Ranges, Orch, StartupPhase, ShutdownPhase
<1>5. InStage
  BY DEF Init, InStage
<1> QED
  BY <1>3, <1>4, <1>5 DEF TypesInv

\* What an executor does to its component.
LEMMA ExecutorFrame ==
    ASSUME NEW o \in Orch, NEW c \in Component, ExecutorStep(o, c)
    PROVE  /\ UNCHANGED <<app, comp, attempted, at, stage, expired, resolved>>
           /\ exec[o][c] # "out"
           /\ \E s \in ExecState \ {"out"} : exec' = [exec EXCEPT ![o][c] = s]
           /\ \/ hook' = hook
              \/ \E h \in {"on", "over", "abandoned"} : hook' = [hook EXCEPT ![c][at[o]] = h]
           /\ \/ tries' = tries
              \/ tries[o][c] < Retries[c] /\ tries' = [tries EXCEPT ![o][c] = @ + 1]
BY DEF ExecutorStep, GivesUp, HookReturns, HookThrows, TimesOut, Begins, Waits, BeginsTeardown,
       Executes, ExecState, Orch

LEMMA ExecutorTypes ==
    ASSUME TypesInv, NEW o \in Orch, NEW c \in Component, ExecutorStep(o, c)
    PROVE  TypesInv'
<1> USE DEF TypesInv
<1>0. PICK s \in ExecState \ {"out"} : exec' = [exec EXCEPT ![o][c] = s]
  BY ExecutorFrame
<1>1. at[o] \in Phase
  BY ExecutorFrame DEF InStage, Starting, Phase, Orch
<1>2. hook' \in [Component -> [Phase -> HookState]]
  <2>1. hook \in [Component -> [Phase -> HookState]]
    BY DEF Shapes
  <2>2. CASE hook' = hook
    BY <2>1, <2>2
  <2>3. ASSUME NEW h \in {"on", "over", "abandoned"}, hook' = [hook EXCEPT ![c][at[o]] = h]
        PROVE  hook' \in [Component -> [Phase -> HookState]]
    <3>1. h \in HookState
      BY DEF HookState
    <3> QED
      BY <1>1, <2>1, <2>3, <3>1
  <2> QED
    BY <2>2, <2>3, ExecutorFrame
<1>3. exec' \in [Orch -> [Component -> ExecState]]
  BY <1>0 DEF Shapes
<1>4. CASE tries' = tries
  BY <1>0, <1>2, <1>3, <1>4, ExecutorFrame DEF Shapes, Ranges, InStage, Starting
<1>5. CASE tries[o][c] < Retries[c] /\ tries' = [tries EXCEPT ![o][c] = @ + 1]
  <2>1. tries \in [Orch -> [Component -> Nat]] /\ Retries \in [Component -> Nat]
    BY LifecycleConstants DEF Shapes
  <2>2. tries' \in [Orch -> [Component -> Nat]]
    BY <1>5, <2>1
  <2>3. \A q \in Orch, d \in Component :
            tries'[q][d] = IF q = o /\ d = c THEN tries[o][c] + 1 ELSE tries[q][d]
    BY <1>5, <2>1
  <2>4. \A q \in Orch, d \in Component : tries'[q][d] <= Retries[d]
    BY <1>5, <2>1, <2>3 DEF Ranges
  <2> QED
    BY <1>0, <1>2, <1>3, <2>2, <2>4, ExecutorFrame DEF Shapes, Ranges, InStage, Starting
<1> QED
  BY <1>4, <1>5, ExecutorFrame
\* The steps of startup and shutdown between their stages.
Between ==
    \/ Start \/ Cancelled \/ PhaseEnds \/ Rollback \/ StartRejects
    \/ Shutdown \/ TeardownBegins \/ TeardownPhaseEnds \/ ExpiredResolves

LEMMA BetweenFrame ==
    ASSUME Between
    PROVE  /\ UNCHANGED <<comp, attempted, exec, tries, hook, expired>>
           /\ app' \in {app, "initializing", "starting", "started", "ready", "failed",
                        "stopping", "disposed"}
           /\ resolved' \in {resolved, TRUE}
<1>1. CASE PhaseEnds
  BY <1>1 DEF PhaseEnds, Starting, StartupPhase
<1>2. CASE Start \/ Cancelled \/ Rollback \/ StartRejects
  BY <1>2 DEF Start, Cancelled, Rollback, StartRejects, stageVars
<1>3. CASE Shutdown \/ TeardownBegins \/ TeardownPhaseEnds \/ ExpiredResolves
  BY <1>3 DEF Shutdown, TeardownBegins, TeardownPhaseEnds, ExpiredResolves, stageVars
<1> QED
  BY <1>1, <1>2, <1>3 DEF Between

LEMMA BetweenTypes == ASSUME TypesInv, Between PROVE TypesInv'
<1> USE DEF TypesInv
<1>1. /\ at' \in [Orch -> Where]
      /\ at'["startup"] \in StartupPhase \cup {"none", "rollback", "joining", "rejected", "up"}
      /\ at'["shutdown"] \in ShutdownPhase \cup {"none", "wait"}
  BY DEF Between, Start, Cancelled, PhaseEnds, Rollback, StartRejects, Shutdown, TeardownBegins,
         TeardownPhaseEnds, ExpiredResolves, stageVars, ToRollback, StartupPhase, ShutdownPhase,
         Starting, Shapes, Ranges, Orch, Where
<1>2. /\ stage' \in [Orch -> Int]
      /\ stage'["startup"] \in 1..Cardinality(Component) + 1
      /\ stage'["shutdown"] \in 0..Cardinality(Component)
  BY RankType
     DEF Between, Start, Cancelled, PhaseEnds, Rollback, StartRejects, Shutdown, TeardownBegins,
         TeardownPhaseEnds, ExpiredResolves, stageVars, Shapes, Ranges, Orch
<1>3. InStage'
  <2>1. CASE Start \/ Rollback \/ StartRejects \/ Shutdown \/ TeardownBegins
    BY <2>1
       DEF Start, Rollback, StartRejects, Shutdown, TeardownBegins, StartupPhase, ShutdownPhase,
           Requested, Starting, Shapes, InStage, Orch
  <2>2. CASE ExpiredResolves
    BY <2>2 DEF ExpiredResolves, stageVars, InStage, Starting
  <2>3. CASE Cancelled \/ PhaseEnds
    <3>1. /\ exec' = exec /\ at'["shutdown"] = at["shutdown"] /\ stage'["shutdown"] = stage["shutdown"]
          /\ ~Busy("startup")
      BY <2>3 DEF Cancelled, PhaseEnds, ToRollback, Shapes, Orch
    <3> QED
      BY <3>1 DEF Busy, InStage
  <2>4. CASE TeardownPhaseEnds
    <3>1. /\ exec' = exec /\ at'["startup"] = at["startup"] /\ stage'["startup"] = stage["startup"]
          /\ ~Busy("shutdown")
      BY <2>4 DEF TeardownPhaseEnds, TearingDown, Shapes, Orch
    <3> QED
      BY <3>1 DEF Busy, InStage, Starting
  <2> QED
    BY <2>1, <2>2, <2>3, <2>4 DEF Between
<1>4. app' \in State /\ resolved' \in BOOLEAN
  BY BetweenFrame DEF Shapes, State
<1> QED
  BY <1>1, <1>2, <1>3, <1>4, BetweenFrame DEF Shapes, Ranges

\* RunStage() clears what its orchestrator has executed, and queues components.
LEMMA RunStageFrame ==
    ASSUME Shapes, NEW o \in Orch, NEW cs, RunStage(o, cs)
    PROVE  /\ exec' \in [Orch -> [Component -> ExecState]]
           /\ tries' \in [Orch -> [Component -> Nat]]
           /\ \A c \in Component : exec'[o][c] = IF c \in cs THEN "queued" ELSE "out"
           /\ \A c \in Component : tries'[o][c] = 0
           /\ \A q \in Orch \ {o} : exec'[q] = exec[q] /\ tries'[q] = tries[q]
<1>1. /\ [c \in Component |-> IF c \in cs THEN "queued" ELSE "out"] \in [Component -> ExecState]
      /\ [c \in Component |-> 0] \in [Component -> Nat]
  BY DEF ExecState
<1> QED
  BY <1>1 DEF RunStage, Shapes

LEMMA StageTypes ==
    ASSUME TypesInv, StageBegins \/ StageSkipped \/ StageEnds PROVE TypesInv'
<1> USE DEF TypesInv
<1>a. at["startup"] \in StartupPhase
  BY DEF StageBegins, StageSkipped, StageEnds, Starting, Busy, InStage
<1>b. /\ Executing[at["startup"]] \in State /\ Succeeded[at["startup"]] \in State
      /\ \A s, t \in State : Transition(s, t) \in State
      /\ "failed" \in State /\ "stopping" \in State
  BY <1>a, Transitions DEF State
<1>c. "startup" \in Orch /\ "shutdown" \in Orch
  BY DEF Orch
<1>1. CASE StageBegins
  <2> DEFINE runnable == Healthy \ Skipped
  <2>1. /\ RunStage("startup", runnable)
        /\ UNCHANGED <<attempted, stage, hook, expired, resolved>>
        /\ runnable \subseteq Stage(stage["startup"])
        /\ at["shutdown"] = "none"
        /\ at'["startup"] = at["startup"] /\ at' \in [Orch -> Where]
        /\ at'["shutdown"] \in {"none", "stop"}
        /\ app' \in {app, "stopping"}
    BY <1>1 DEF StageBegins, Healthy, Requested, Shapes, Orch, Where, ShutdownPhase
  <2>2. comp' \in [Component -> State]
    BY <1>1, <1>b DEF StageBegins, Shapes
  <2>3. Shapes'
    BY <1>b, <1>c, <2>1, <2>2, RunStageFrame DEF Shapes
  <2>4. Ranges'
    BY <1>c, <2>1, RunStageFrame, LifecycleConstants DEF Ranges, ShutdownPhase
  <2>5. InStage'
    <3>1. \A c \in Component : exec["shutdown"][c] = "out"
      BY <2>1 DEF InStage, ShutdownPhase
    <3>2. \A c \in Component : exec'["startup"][c] # "out" => c \in runnable
      BY <1>c, <2>1, RunStageFrame
    <3>3. \A c \in Component : exec'["shutdown"][c] = "out"
      BY <1>c, <2>1, <3>1, RunStageFrame
    <3> QED
      BY <1>a, <2>1, <3>2, <3>3 DEF InStage, Starting, Stage
  <2> QED
    BY <2>3, <2>4, <2>5
<1>2. CASE StageSkipped
  <2>1. /\ UNCHANGED <<attempted, exec, tries, hook, expired, resolved>>
        /\ app' \in {app, "failed"}
        /\ at' \in [Orch -> Where] /\ at'["shutdown"] = at["shutdown"]
        /\ at'["startup"] \in {at["startup"], "rollback"}
        /\ stage' \in [Orch -> Int] /\ stage'["shutdown"] = stage["shutdown"]
        /\ stage'["startup"] \in 1..Cardinality(Component) + 1
        /\ \A c \in Component : exec["startup"][c] = "out"
    BY <1>2, RankType DEF StageSkipped, ToRollback, Shapes, Ranges, Orch, Where, Busy, Stages
  <2>2. comp' \in [Component -> State]
    BY <1>2, <1>b DEF StageSkipped, Shapes
  <2> QED
    BY <1>b, <2>1, <2>2 DEF Shapes, Ranges, InStage
<1>3. CASE StageEnds
  <2>1. /\ RunStage("startup", {})
        /\ UNCHANGED <<hook, expired, resolved>>
        /\ app' \in {app, "failed"}
        /\ at' \in [Orch -> Where] /\ at'["shutdown"] = at["shutdown"]
        /\ at'["startup"] \in {at["startup"], "rollback"}
    BY <1>3 DEF StageEnds, ToRollback, Shapes, Orch, Where
  <2>2. stage["startup"] \in Stages
    BY <1>3, RankType DEF StageEnds, Busy, InStage
  <2>3. /\ stage' \in [Orch -> Int] /\ stage'["shutdown"] = stage["shutdown"]
        /\ stage'["startup"] \in 1..Cardinality(Component) + 1
    BY <1>3, <2>2, RankType DEF StageEnds, Shapes, Ranges, Orch, Stages
  <2>4. comp' \in [Component -> State]
    BY <1>3, <1>b DEF StageEnds, Shapes
  <2>5. attempted' \in [Component -> SUBSET StartupPhase]
    BY <1>3, <1>a DEF StageEnds, Shapes
  <2>6. Shapes'
    BY <1>b, <1>c, <2>1, <2>3, <2>4, <2>5, RunStageFrame DEF Shapes
  <2>7. Ranges'
    BY <1>c, <2>1, <2>3, RunStageFrame, LifecycleConstants DEF Ranges, Orch
  <2>8. InStage'
    BY <1>c, <2>1, <2>3, RunStageFrame DEF InStage, Orch
  <2> QED
    BY <2>6, <2>7, <2>8
<1> QED
  BY <1>1, <1>2, <1>3

LEMMA TeardownTypes ==
    ASSUME TypesInv, TeardownStageBegins \/ TeardownStageEnds PROVE TypesInv'
<1> USE DEF TypesInv
<1>a. at["shutdown"] \in ShutdownPhase /\ "stopping" \in State /\ "disposed" \in State
      /\ "stopped" \in State /\ "failed" \in State
      /\ (\A s, t \in State : Transition(s, t) \in State)
  BY Transitions DEF TeardownStageBegins, TeardownStageEnds, TearingDown, Busy, InStage, State
<1>b. "startup" \in Orch /\ "shutdown" \in Orch
  BY DEF Orch
<1>1. CASE TeardownStageBegins
  <2> DEFINE runnable == { c \in Stage(stage["shutdown"]) : Undoes[at["shutdown"]] \in attempted[c] }
  <2>1. /\ RunStage("shutdown", runnable)
        /\ UNCHANGED <<app, attempted, at, hook, expired, resolved>>
        /\ stage["shutdown"] \in Stages
    BY <1>1 DEF TeardownStageBegins
  <2>2. /\ stage' \in [Orch -> Int] /\ stage'["startup"] = stage["startup"]
        /\ stage'["shutdown"] \in 0..Cardinality(Component)
        /\ runnable # {} => stage' = stage
    BY <1>1, <2>1, RankType DEF TeardownStageBegins, Shapes, Ranges, Orch, Stages
  <2>3. comp' \in [Component -> State]
    BY <1>1, <1>a DEF TeardownStageBegins, Shapes
  <2>4. Shapes'
    BY <1>b, <2>1, <2>2, <2>3, RunStageFrame DEF Shapes
  <2>5. Ranges'
    BY <1>b, <2>1, <2>2, RunStageFrame, LifecycleConstants DEF Ranges, Orch
  <2>6. InStage'
    <3>1. \A c \in Component : exec'["shutdown"][c] # "out" => c \in runnable
      BY <1>b, <2>1, RunStageFrame
    <3>2. exec'["startup"] = exec["startup"]
      BY <1>b, <2>1, RunStageFrame
    <3> QED
      BY <1>a, <2>1, <2>2, <3>1, <3>2 DEF InStage, Starting, Stage
  <2> QED
    BY <2>4, <2>5, <2>6
<1>2. CASE TeardownStageEnds
  <2>1. /\ RunStage("shutdown", {})
        /\ UNCHANGED <<app, attempted, at, hook, expired, resolved>>
        /\ stage["shutdown"] \in Stages
    BY <1>2, RankType DEF TeardownStageEnds, Busy, InStage
  <2>2. /\ stage' \in [Orch -> Int] /\ stage'["startup"] = stage["startup"]
        /\ stage'["shutdown"] \in 0..Cardinality(Component)
    BY <1>2, <2>1, RankType DEF TeardownStageEnds, Shapes, Ranges, Orch, Stages
  <2>3. comp' \in [Component -> State]
    <3>1. CASE at["shutdown"] = "stop"
      BY <1>2, <1>a, <3>1 DEF TeardownStageEnds, Shapes
    <3>2. CASE at["shutdown"] = "dispose"
      BY <1>2, <1>a, <3>2 DEF TeardownStageEnds, Shapes
    <3> QED
      BY <1>a, <3>1, <3>2 DEF ShutdownPhase
  <2>4. Shapes'
    BY <1>b, <2>1, <2>2, <2>3, RunStageFrame DEF Shapes
  <2>5. Ranges'
    BY <1>b, <2>1, <2>2, RunStageFrame, LifecycleConstants DEF Ranges, Orch
  <2>6. InStage'
    BY <1>b, <2>1, <2>2, RunStageFrame DEF InStage, Starting, Orch
  <2> QED
    BY <2>4, <2>5, <2>6
<1> QED
  BY <1>1, <1>2

LEMMA TypesStep == TypesInv /\ [Next]_vars => TypesInv'
<1> SUFFICES ASSUME TypesInv, [Next]_vars PROVE TypesInv'
  OBVIOUS
<1>1. CASE Between
  BY <1>1, BetweenTypes
<1>2. CASE StageBegins \/ StageSkipped \/ StageEnds
  BY <1>2, StageTypes
<1>3. CASE TeardownStageBegins \/ TeardownStageEnds
  BY <1>3, TeardownTypes
<1>4. ASSUME NEW o \in Orch, NEW c \in Component, ExecutorStep(o, c) PROVE TypesInv'
  BY <1>4, ExecutorTypes
<1>5. CASE DeadlineExpires
  <2>1. comp' \in [Component -> State]
    BY <1>5 DEF DeadlineExpires, TypesInv, Shapes, State
  <2> QED
    BY <1>5, <2>1 DEF DeadlineExpires, TypesInv, Shapes, Ranges, InStage, Starting, stageVars
<1>6. ASSUME NEW c \in Component, NEW p \in Phase, AbandonedEnds(c, p) PROVE TypesInv'
  <2>1. hook' \in [Component -> [Phase -> HookState]]
    BY <1>6 DEF AbandonedEnds, TypesInv, Shapes, HookState
  <2> QED
    BY <1>6, <2>1 DEF AbandonedEnds, TypesInv, Shapes, Ranges, InStage, Starting, stageVars
<1>7. CASE UNCHANGED vars
  BY <1>7 DEF vars, stageVars, TypesInv, Shapes, Ranges, InStage, Starting
<1> QED
  BY <1>1, <1>2, <1>3, <1>4, <1>5, <1>6, <1>7
     DEF Next, Between, StartupStep, ShutdownStep, AllOver, Orch

\* The records of the manager keep their types, and no hook is retried beyond what
\* its component allows, also when a shutdown overlaps the startup.
THEOREM LifecycleTypes == Spec => []TypeOK
<1>1. TypesInv => TypeOK
  BY TypesAreOK DEF TypesInv
<1> QED
  BY <1>1, TypesInit, TypesStep, PTL DEF Spec

-----------------------------------------------------------------------------
(* Hooks take turns *)

Live(h) == h \in {"on", "abandoned"}

\* The executor moves a component it has in hand, and calls at most the hook of
\* the phase: before a hook begins, with one that runs, or between two.
LEMMA ExecutorCases ==
    ASSUME TypesInv, NEW o \in Orch, NEW c \in Component, ExecutorStep(o, c)
    PROVE  /\ UNCHANGED <<app, comp, attempted, at, stage, expired, resolved>>
           /\ at[o] \in Phase
           /\ \E s \in ExecState \ {"out"} :
                 /\ exec' = [exec EXCEPT ![o][c] = s]
                 /\ \/ /\ hook' = hook
                       /\ exec[o][c] \in {"queued", "waiting"} /\ s \in {"failed", "waiting", "timedOut"}
                       /\ s = "waiting" => o = "shutdown" /\ ~Abandoned(c, ShutdownPhase)
                       /\ s = "timedOut" => Abandoned(c, StartupPhase)
                       /\ s = "failed" => expired
                    \/ /\ hook' = [hook EXCEPT ![c][at[o]] = "on"]
                       /\ exec[o][c] \in {"queued", "waiting"} /\ s = "running"
                       /\ ~expired
                       /\ o = "startup" => exec[o][c] = "queued"
                       /\ o = "shutdown" =>
                             /\ ~Abandoned(c, StartupPhase)
                             /\ exec[o][c] = "queued" => ~Abandoned(c, ShutdownPhase)
                    \/ /\ exec[o][c] = "running"
                       /\ \/ /\ s \in {"returned", "failed", "queued"}
                             /\ hook' = [hook EXCEPT ![c][at[o]] = "over"]
                          \/ /\ s = "timedOut"
                             /\ hook' = [hook EXCEPT ![c][at[o]] = "abandoned"]
<1>1. exec[o][c] # "out"
  BY ExecutorFrame
<1>2. at[o] \in Phase
  BY <1>1 DEF TypesInv, InStage, Starting, Phase, Orch
<1>3. CASE GivesUp(o, c)
  <2>1. /\ exec' = [exec EXCEPT ![o][c] = "failed"] /\ hook' = hook /\ expired
        /\ exec[o][c] \in {"queued", "waiting"} /\ "failed" \in ExecState \ {"out"}
        /\ UNCHANGED <<app, comp, attempted, at, stage, expired, resolved>>
    BY <1>3 DEF GivesUp, Executes, ExecState
  <2> QED
    BY <1>2, <2>1
<1>4. CASE o = "startup" /\ Begins(c)
  BY <1>2, <1>4 DEF Begins, Executes, ExecState
<1>5. CASE o = "shutdown" /\ Waits(c)
  <2>1. /\ exec' = [exec EXCEPT ![o][c] = "waiting"] /\ hook' = hook
        /\ exec[o][c] \in {"queued", "waiting"} /\ "waiting" \in ExecState \ {"out"}
        /\ o = "shutdown" /\ ~Abandoned(c, ShutdownPhase)
        /\ UNCHANGED <<app, comp, attempted, at, stage, expired, resolved>>
    BY <1>5 DEF Waits, MayCall, Executes, ExecState
  <2> QED
    BY <1>2, <2>1
<1>6. CASE o = "shutdown" /\ BeginsTeardown(c)
  BY <1>2, <1>6 DEF BeginsTeardown, MayCall, Executes, ExecState
<1>7. CASE HookReturns(o, c)
  BY <1>2, <1>7 DEF HookReturns, Executes, ExecState
<1>8. CASE HookThrows(o, c)
  BY <1>2, <1>8 DEF HookThrows, Executes, ExecState
<1>9. CASE TimesOut(o, c)
  <2>1. /\ exec' = [exec EXCEPT ![o][c] = "timedOut"]
        /\ "timedOut" \in ExecState \ {"out"}
        /\ UNCHANGED <<app, comp, attempted, at, stage, expired, resolved>>
        /\ \/ /\ exec[o][c] = "running"
              /\ hook' = [hook EXCEPT ![c][at[o]] = "abandoned"]
           \/ /\ exec[o][c] = "waiting" /\ Abandoned(c, StartupPhase)
              /\ hook' = hook
    BY <1>9 DEF TimesOut, Executes, ExecState
  <2> QED
    BY <1>2, <2>1
<1> QED
  BY <1>3, <1>4, <1>5, <1>6, <1>7, <1>8, <1>9 DEF ExecutorStep

LEMMA ExecutorTurns ==
    ASSUME TurnsInv, NEW o \in Orch, NEW c \in Component, ExecutorStep(o, c)
    PROVE  (Apart /\ Executed /\ InOrder /\ Fresh /\ AbandonedHasFailed /\ HooksRun /\ OneHook
              /\ DependenciesAreUp /\ TornDownInOrder)'
<1>0. PICK s \in ExecState \ {"out"} :
         /\ exec' = [exec EXCEPT ![o][c] = s]
         /\ \/ /\ hook' = hook
               /\ exec[o][c] \in {"queued", "waiting"} /\ s \in {"failed", "waiting", "timedOut"}
               /\ s = "waiting" => o = "shutdown" /\ ~Abandoned(c, ShutdownPhase)
            \/ /\ hook' = [hook EXCEPT ![c][at[o]] = "on"]
               /\ exec[o][c] \in {"queued", "waiting"} /\ s = "running"
               /\ o = "startup" => exec[o][c] = "queued"
               /\ o = "shutdown" =>
                     /\ ~Abandoned(c, StartupPhase)
                     /\ exec[o][c] = "queued" => ~Abandoned(c, ShutdownPhase)
            \/ /\ exec[o][c] = "running"
               /\ \/ /\ s \in {"returned", "failed", "queued"}
                     /\ hook' = [hook EXCEPT ![c][at[o]] = "over"]
                  \/ /\ s = "timedOut"
                     /\ hook' = [hook EXCEPT ![c][at[o]] = "abandoned"]
  BY ExecutorCases DEF TurnsInv
<1>1. /\ UNCHANGED <<app, comp, attempted, at, stage, expired, resolved>>
      /\ exec[o][c] # "out"
  BY ExecutorFrame
<1>2. /\ Shapes /\ Ranges /\ InStage
      /\ o = "startup" => at[o] \in StartupPhase /\ at["shutdown"] \notin ShutdownPhase
      /\ o = "shutdown" => at[o] \in ShutdownPhase /\ Requested
      /\ at[o] \in Phase
  BY <1>1 DEF TurnsInv, TypesInv, InStage, Apart, Starting, Requested, Phase, ShutdownPhase, Orch
<1>3. /\ exec'[o][c] = s
      /\ \A q \in Orch, d \in Component : q # o \/ d # c => exec'[q][d] = exec[q][d]
  BY <1>0, <1>2 DEF Shapes
<1>4. /\ \A d \in Component, p \in Phase : d # c \/ p # at[o] => hook'[d][p] = hook[d][p]
      /\ \/ hook'[c][at[o]] = hook[c][at[o]] /\ hook' = hook
         \/ hook'[c][at[o]] \in {"on", "over", "abandoned"}
  BY <1>0, <1>2 DEF Shapes
<1>5. \A q \in Orch, d \in Component : exec'[q][d] = "out" <=> exec[q][d] = "out"
  BY <1>1, <1>3
<1>6. o = "startup" => \A d \in Component : exec["shutdown"][d] = "out"
  BY <1>2 DEF InStage
<1>7. o = "shutdown" => \A d \in Component : exec["startup"][d] = "out"
  BY <1>2 DEF TurnsInv, Apart
<1>8. "startup" \in Orch /\ "shutdown" \in Orch /\ o \in {"startup", "shutdown"}
  BY DEF Orch
\* A hook that runs is the only one its component has; one that begins is the first.
<1>9. /\ exec[o][c] = "running" => \A p \in Phase \ {at[o]} : ~Live(hook[c][p])
      /\ exec'[o][c] = "running" => \A p \in Phase : ~Live(hook[c][p])
  <2>1. CASE exec[o][c] = "running"
    <3>1. hook[c][at[o]] = "on"
      BY <1>8, <2>1 DEF TurnsInv, HooksRun
    <3> QED
      BY <1>0, <1>2, <1>3, <2>1, <3>1 DEF TurnsInv, OneHook, Live
  <2>2. CASE o = "startup" /\ exec[o][c] = "queued" /\ s = "running"
    <3>1. \A p \in StartupPhase : ~Live(hook[c][p])
      BY <2>2 DEF TurnsInv, HooksRun, AbandonedHasFailed, Abandoned, Live
    <3>2. \A p \in ShutdownPhase : ~Live(hook[c][p])
      BY <1>2, <2>2 DEF TurnsInv, TornDownInOrder, Live
    <3> QED
      BY <2>2, <3>1, <3>2 DEF Phase
  <2>3. CASE o = "shutdown" /\ exec[o][c] \in {"queued", "waiting"} /\ s = "running"
    <3>1. ~Abandoned(c, StartupPhase) /\ ~Abandoned(c, ShutdownPhase)
      BY <1>0, <2>3 DEF TurnsInv, AbandonedHasFailed
    <3>2. \A p \in Phase : hook[c][p] # "on"
      BY <1>7, <2>3 DEF TurnsInv, HooksRun, Phase
    <3> QED
      BY <2>3, <3>1, <3>2 DEF Abandoned, Phase, Live
  <2> QED
    BY <1>0, <1>3, <1>8, <2>1, <2>2, <2>3
<1>10. Apart'
  BY <1>1, <1>5, <1>8 DEF TurnsInv, Apart
<1>11. Executed'
  BY <1>1, <1>5, <1>8 DEF TurnsInv, Executed
<1>12. InOrder'
  <2>1. CASE o = "shutdown"
    BY <1>1, <1>2, <2>1 DEF InOrder, Requested
  <2>2. CASE o = "startup"
    <3>1. Busy("startup")' <=> Busy("startup")
      BY <1>5, <1>8 DEF Busy
    <3>2. \A d \in Component : exec["startup"][d] = "out" =>
              hook'[d][at["startup"]] = hook[d][at["startup"]]
      BY <1>1, <1>2, <1>4, <2>2
    <3> QED
      BY <1>1, <1>5, <1>8, <3>1, <3>2 DEF TurnsInv, InOrder, Starting, Requested
  <2> QED
    BY <1>8, <2>1, <2>2
<1>13. AbandonedHasFailed'
  <2>1. CASE o = "shutdown"
    <3>1. \A d \in Component : Abandoned(d, StartupPhase)' <=> Abandoned(d, StartupPhase)
      BY <1>2, <1>4, <2>1 DEF Abandoned, StartupPhase, ShutdownPhase, Phase
    <3>2. \A d \in Component : exec'["shutdown"][d] = "waiting" => ~Abandoned(d, ShutdownPhase)'
      <4>1. CASE s = "waiting"
        BY <1>0, <1>3, <1>8, <2>1, <4>1 DEF TurnsInv, AbandonedHasFailed, Abandoned
      <4>2. ASSUME NEW d \in Component, d # c, exec'["shutdown"][d] = "waiting"
            PROVE  ~Abandoned(d, ShutdownPhase)'
        BY <1>3, <1>4, <1>8, <4>2 DEF TurnsInv, AbandonedHasFailed, Abandoned, Phase
      <4> QED
        BY <1>3, <2>1, <4>1, <4>2
    <3>3. Requested'
      BY <1>1, <1>2, <2>1 DEF Requested
    <3> QED
      BY <1>3, <1>7, <1>8, <2>1, <3>2, <3>3 DEF AbandonedHasFailed
  <2>2. CASE o = "startup"
    <3>1. \A d \in Component \ {c} : Abandoned(d, StartupPhase)' <=> Abandoned(d, StartupPhase)
      BY <1>4 DEF Abandoned, Phase
    <3>2. s \in {"queued", "returned"} => ~Abandoned(c, StartupPhase)'
      <4>1. SUFFICES ASSUME s \in {"queued", "returned"} PROVE ~Abandoned(c, StartupPhase)'
        OBVIOUS
      <4>2. exec[o][c] = "running" /\ hook' = [hook EXCEPT ![c][at[o]] = "over"]
        BY <1>0, <4>1
      <4>3. hook'[c][at[o]] = "over"
        BY <1>2, <4>2 DEF Shapes
      <4>4. \A p \in StartupPhase : hook'[c][p] # "abandoned"
        BY <1>4, <1>9, <4>2, <4>3 DEF Phase, Live
      <4> QED
        BY <4>4 DEF Abandoned
    <3>3. Requested' <=> Requested
      BY <1>1 DEF Requested
    <3> QED
      BY <1>1, <1>3, <1>6, <1>8, <2>2, <3>1, <3>2, <3>3 DEF TurnsInv, AbandonedHasFailed
  <2> QED
    BY <1>8, <2>1, <2>2
<1>14. HooksRun'
  <2>1. \A d \in Component \ {c} : \A p \in Phase : hook'[d][p] = hook[d][p]
    BY <1>4
  <2>2. /\ s = "running" => hook'[c][at[o]] = "on"
        /\ s = "returned" => hook'[c][at[o]] = "over"
        /\ hook'[c][at[o]] = "on" => s = "running" \/ hook' = hook
    BY <1>0, <1>2 DEF Shapes
  <2>3. hook[c][at[o]] = "on" => exec[o][c] = "running"
    BY <1>2, <1>8 DEF TurnsInv, HooksRun
  <2>4. hook' = hook => exec[o][c] # "running"
    <3>1. SUFFICES ASSUME hook' = hook, exec[o][c] = "running" PROVE FALSE
      OBVIOUS
    <3>2. hook[c][at[o]] = "on"
      BY <1>8, <3>1 DEF TurnsInv, HooksRun
    <3>3. hook'[c][at[o]] \in {"over", "abandoned"}
      BY <1>0, <1>2, <3>1 DEF Shapes
    <3> QED
      BY <3>1, <3>2, <3>3
  <2>5. hook'[c][at[o]] = "on" => s = "running"
    BY <2>2, <2>3, <2>4
  <2>6. CASE o = "startup"
    <3>1. \A p \in ShutdownPhase : hook'[c][p] = hook[c][p]
      BY <1>2, <1>4, <2>6 DEF StartupPhase, ShutdownPhase, Phase
    <3>2. \A p \in StartupPhase \ {at[o]} : hook'[c][p] # "on"
      BY <1>2, <1>4, <2>6 DEF TurnsInv, HooksRun, Phase
    <3> QED
      BY <1>1, <1>2, <1>3, <1>6, <1>8, <2>1, <2>2, <2>5, <2>6, <3>1, <3>2
         DEF TurnsInv, HooksRun, Phase
  <2>7. CASE o = "shutdown"
    <3>1. \A p \in StartupPhase : hook'[c][p] = hook[c][p]
      BY <1>2, <1>4, <2>7 DEF StartupPhase, ShutdownPhase, Phase
    <3>2. \A p \in ShutdownPhase \ {at[o]} : hook'[c][p] # "on"
      BY <1>2, <1>4, <2>7 DEF TurnsInv, HooksRun, Phase
    <3> QED
      BY <1>1, <1>2, <1>3, <1>7, <1>8, <2>1, <2>2, <2>5, <2>7, <3>1, <3>2
         DEF TurnsInv, HooksRun, Phase
  <2> QED
    BY <1>8, <2>6, <2>7
<1>15. OneHook'
  <2>1. CASE hook' = hook
    BY <2>1 DEF TurnsInv, OneHook
  <2>2. CASE \A p \in Phase \ {at[o]} : ~Live(hook[c][p])
    BY <1>4, <2>2 DEF TurnsInv, OneHook, Live
  <2> QED
    BY <1>0, <1>3, <1>9, <2>1, <2>2
<1>16. DependenciesAreUp'
  <2>1. SUFFICES ASSUME NEW e \in Component, exec'["startup"][e] \in {"queued", "running"},
                        NEW d \in DependsOn[e]
                 PROVE  hook'[d][at["startup"]] = "over"
    BY <1>1 DEF DependenciesAreUp
  <2>2. o = "startup"
    BY <1>3, <1>7, <1>8, <2>1
  <2>3. exec["startup"][e] \in {"queued", "running"}
    BY <1>0, <1>3, <1>8, <2>1, <2>2, <1>6
  <2>4. d \in Component /\ Rank[d] < Rank[e] /\ Rank[e] \in Int /\ Rank[c] \in Int
    BY <2>1, RankType DEF Stages
  <2>5. d # c
    BY <1>1, <1>2, <2>2, <2>3, <2>4 DEF InStage
  <2>6. hook[d][at["startup"]] = "over"
    BY <2>1, <2>3 DEF TurnsInv, DependenciesAreUp
  <2> QED
    BY <1>2, <1>4, <2>2, <2>4, <2>5, <2>6
<1>17. TornDownInOrder'
  <2>1. CASE o = "startup"
    <3>1. \A d \in Component, p \in ShutdownPhase : hook'[d][p] = hook[d][p]
      BY <1>2, <1>4, <2>1 DEF StartupPhase, ShutdownPhase, Phase
    <3> QED
      BY <1>1, <1>2, <2>1, <3>1 DEF TurnsInv, TornDownInOrder, ShutdownPhase
  <2>2. CASE o = "shutdown"
    <3>1. at["shutdown"] = "stop" => \A d \in Component : hook'[d]["dispose"] = hook[d]["dispose"]
      BY <1>4, <2>2 DEF Phase, ShutdownPhase
    <3>2. \A d \in Component \ {c} : hook'[d][at["shutdown"]] = hook[d][at["shutdown"]]
      BY <1>2, <1>4, <2>2
    <3> QED
      BY <1>1, <1>2, <1>5, <1>8, <2>2, <3>1, <3>2 DEF TurnsInv, TornDownInOrder, ShutdownPhase
  <2> QED
    BY <1>8, <2>1, <2>2
<1>18. Fresh'
  BY <1>1 DEF TurnsInv, Fresh, Requested
<1> QED
  BY <1>10, <1>11, <1>12, <1>13, <1>14, <1>15, <1>16, <1>17, <1>18

LEMMA TurnsInit == Init => TurnsInv
<1> SUFFICES ASSUME Init PROVE TurnsInv
  OBVIOUS
<1>1. TypesInv
  BY TypesInit
<1>2. \A c \in Component : /\ exec["startup"][c] = "out" /\ exec["shutdown"][c] = "out"
                           /\ comp[c] = "idle"
                           /\ \A p \in Phase : hook[c][p] = "off"
  BY DEF Init
<1>3. at["startup"] = "none" /\ at["shutdown"] = "none" /\ stage["startup"] = 1
  BY DEF Init
<1> QED
  BY <1>1, <1>2, <1>3
     DEF TurnsInv, Apart, Executed, InOrder, Fresh, AbandonedHasFailed, HooksRun, OneHook,
         DependenciesAreUp, TornDownInOrder, Starting, Abandoned, Phase, StartupPhase, ShutdownPhase

\* An orchestrator that executes something stays in its phase and its stage.
LEMMA BetweenPhases ==
    ASSUME Shapes, InStage, Between
    PROVE  /\ \A c \in Component : exec["startup"][c] # "out" =>
                  at'["startup"] = at["startup"] /\ stage'["startup"] = stage["startup"]
           /\ \A c \in Component : exec["shutdown"][c] # "out" =>
                  at'["shutdown"] = at["shutdown"] /\ stage'["shutdown"] = stage["shutdown"]
           /\ \/ at'["shutdown"] = at["shutdown"] /\ stage'["shutdown"] = stage["shutdown"]
              \/ at["shutdown"] = "none" /\ at'["shutdown"] = "wait"
              \/ at["shutdown"] = "wait" /\ at'["shutdown"] = "stop" /\ ~Busy("startup")
              \/ at["shutdown"] = "stop" /\ at'["shutdown"] = "dispose"
<1>1. /\ \A c \in Component : exec["startup"][c] # "out" =>
             at'["startup"] = at["startup"] /\ stage'["startup"] = stage["startup"]
      /\ \A c \in Component : exec["shutdown"][c] # "out" =>
             at'["shutdown"] = at["shutdown"] /\ stage'["shutdown"] = stage["shutdown"]
  <2>1. CASE Start \/ Rollback \/ StartRejects
    BY <2>1 DEF Start, Rollback, StartRejects, InStage, Starting, StartupPhase, ShutdownPhase,
                      Shapes, Orch, Requested
  <2>2. CASE Cancelled \/ PhaseEnds
    BY <2>2 DEF Cancelled, PhaseEnds, ToRollback, Busy, Shapes, Orch
  <2>3. CASE Shutdown \/ TeardownBegins
    BY <2>3 DEF Shutdown, TeardownBegins, InStage, ShutdownPhase, Shapes, Orch
  <2>4. CASE TeardownPhaseEnds
    BY <2>4 DEF TeardownPhaseEnds, TearingDown, Busy, Shapes, Orch
  <2>5. CASE ExpiredResolves
    BY <2>5 DEF ExpiredResolves, stageVars
  <2> QED
    BY <2>1, <2>2, <2>3, <2>4, <2>5 DEF Between
<1>2. \/ at'["shutdown"] = at["shutdown"] /\ stage'["shutdown"] = stage["shutdown"]
      \/ at["shutdown"] = "none" /\ at'["shutdown"] = "wait"
      \/ at["shutdown"] = "wait" /\ at'["shutdown"] = "stop" /\ ~Busy("startup")
      \/ at["shutdown"] = "stop" /\ at'["shutdown"] = "dispose"
  BY DEF Between, Start, Rollback, StartRejects, Cancelled, PhaseEnds, ToRollback, Shutdown,
              TeardownBegins, TeardownPhaseEnds, TearingDown, ShutdownPhase, ExpiredResolves,
              stageVars, Requested, Shapes, Orch
<1> QED
  BY <1>1, <1>2

\* Between its stages an orchestrator executes nothing; the teardown begins when
\* startup executes nothing either.
LEMMA BetweenTurns ==
    ASSUME TurnsInv, Between
    PROVE  (Apart /\ Executed /\ InOrder /\ Fresh /\ AbandonedHasFailed /\ HooksRun /\ OneHook
              /\ DependenciesAreUp /\ TornDownInOrder)'
<1>1. UNCHANGED <<comp, exec, hook>>
  BY BetweenFrame
<1>2. Shapes /\ Ranges /\ InStage
  BY DEF TurnsInv, TypesInv
<1>3. /\ \A c \in Component : exec["startup"][c] # "out" =>
             at'["startup"] = at["startup"] /\ stage'["startup"] = stage["startup"]
      /\ \A c \in Component : exec["shutdown"][c] # "out" =>
             at'["shutdown"] = at["shutdown"] /\ stage'["shutdown"] = stage["shutdown"]
  BY <1>2, BetweenPhases
<1>4. \/ at'["shutdown"] = at["shutdown"] /\ stage'["shutdown"] = stage["shutdown"]
      \/ at["shutdown"] = "none" /\ at'["shutdown"] = "wait"
      \/ at["shutdown"] = "wait" /\ at'["shutdown"] = "stop" /\ ~Busy("startup")
      \/ at["shutdown"] = "stop" /\ at'["shutdown"] = "dispose"
  BY <1>2, BetweenPhases
<1>5. ~Requested' => ~Requested
  BY <1>4 DEF Requested
<1>6. Apart'
  <2>1. SUFFICES ASSUME NEW c \in Component, exec["startup"][c] # "out"
                 PROVE  at'["shutdown"] \notin ShutdownPhase
    BY <1>1 DEF Apart
  <2>2. at["shutdown"] \notin ShutdownPhase
    BY <2>1 DEF TurnsInv, Apart
  <2> QED
    BY <1>4, <2>1, <2>2 DEF Busy, ShutdownPhase
<1>7. Executed'
  BY <1>1, <1>3 DEF TurnsInv, Executed
<1>8. InOrder'
  <2>1. CASE Start
    <3>1. SUFFICES ASSUME ~Requested', Starting' PROVE InOrder'
      BY DEF InOrder
    <3>2. /\ at'["startup"] = "initialize" /\ stage'["startup"] = 1
          /\ \A c \in Component : comp[c] = "idle" /\ exec["startup"][c] = "out"
      BY <1>2, <1>5, <2>1, <3>1
         DEF Start, TurnsInv, Fresh, InStage, Starting, StartupPhase, Shapes, Orch
    <3>3. \A c \in Component : Rank[c] >= 1
      BY RankType DEF Stages
    <3> QED
      BY <1>1, <3>2, <3>3 DEF InOrder, Awaiting, Busy
  <2>2. CASE PhaseEnds
    <3>1. SUFFICES ASSUME Starting' PROVE InOrder'
      BY DEF InOrder
    <3>2. /\ at["startup"] \in StartupPhase /\ ~Requested /\ stage["startup"] \notin Stages
          /\ \A c \in Component : exec["startup"][c] = "out"
          /\ at'["startup"] = [initialize |-> "start", start |-> "ready", ready |-> "up"][at["startup"]]
          /\ stage'["startup"] = 1
      BY <1>2, <2>2 DEF PhaseEnds, Starting, Busy, Shapes, Orch
    <3>3. stage["startup"] = Cardinality(Component) + 1
      BY <1>2, <3>2, RankType DEF Ranges, Stages
    <3>4. \A c \in Component : Rank[c] >= 1 /\ Rank[c] < stage["startup"]
      BY <3>3, RankType DEF Stages
    <3>5. \A c \in Component : comp[c] \in {"failed", Succeeded[at["startup"]]}
      <4> SUFFICES ASSUME NEW c \in Component PROVE comp[c] \in {"failed", Succeeded[at["startup"]]}
        OBVIOUS
      <4>1. Rank[c] \in Int /\ stage["startup"] \in Int
        BY <1>2, RankType DEF Ranges, Stages
      <4> QED
        BY <3>2, <3>4, <4>1 DEF TurnsInv, InOrder, Starting
    <3>6. at'["startup"] \in StartupPhase => Succeeded[at["startup"]] = Awaiting[at'["startup"]]
      BY <3>2, Transitions DEF StartupPhase
    <3> QED
      BY <1>1, <3>1, <3>2, <3>4, <3>5, <3>6 DEF InOrder, Starting, Busy
  <2>3. CASE Cancelled \/ Rollback \/ StartRejects
    BY <1>2, <2>3
       DEF Cancelled, Rollback, StartRejects, ToRollback, InOrder, Starting, StartupPhase, Shapes, Orch
  <2>4. CASE Shutdown \/ TeardownBegins \/ TeardownPhaseEnds
    <3>1. Requested'
      BY <1>2, <2>4 DEF Shutdown, TeardownBegins, TeardownPhaseEnds, TearingDown, Requested,
                        ShutdownPhase, Shapes, Orch
    <3> QED
      BY <3>1 DEF InOrder
  <2>5. CASE ExpiredResolves
    BY <1>1, <2>5 DEF ExpiredResolves, stageVars, TurnsInv, InOrder, Starting, Requested, Busy
  <2> QED
    BY <2>1, <2>2, <2>3, <2>4, <2>5 DEF Between
<1>9. Fresh'
  BY <1>1, <1>2, <1>5
     DEF Between, Start, Rollback, StartRejects, Cancelled, PhaseEnds, ToRollback, Shutdown,
         TeardownBegins, TeardownPhaseEnds, ExpiredResolves, stageVars, TurnsInv, Fresh, Starting,
         StartupPhase, Shapes, Orch
<1>10. AbandonedHasFailed'
  BY <1>1, <1>5 DEF TurnsInv, AbandonedHasFailed, Abandoned
<1>11. HooksRun'
  <2>1. \A c \in Component : /\ exec["startup"][c] = "running" => at'["startup"] = at["startup"]
                             /\ exec["startup"][c] = "returned" => at'["startup"] = at["startup"]
                             /\ exec["shutdown"][c] = "running" => at'["shutdown"] = at["shutdown"]
    BY <1>3
  <2> QED
    BY <1>1, <2>1 DEF TurnsInv, HooksRun
<1>12. OneHook'
  BY <1>1 DEF TurnsInv, OneHook
<1>13. DependenciesAreUp'
  BY <1>1, <1>3 DEF TurnsInv, DependenciesAreUp
<1>14. TornDownInOrder'
  <2>1. \A c \in Component : at["shutdown"] \notin ShutdownPhase =>
            hook[c]["stop"] = "off" /\ hook[c]["dispose"] = "off"
    BY DEF TurnsInv, TornDownInOrder, ShutdownPhase
  <2> QED
    BY <1>1, <1>4, <2>1 DEF TurnsInv, TornDownInOrder, ShutdownPhase
<1> QED
  BY <1>6, <1>7, <1>8, <1>9, <1>10, <1>11, <1>12, <1>13, <1>14

\* A stage of the startup begins with what has not failed, and ends with its results.
LEMMA StageTurns ==
    ASSUME TurnsInv, ~Reentrant, StageBegins \/ StageSkipped \/ StageEnds
    PROVE  (Apart /\ Executed /\ InOrder /\ Fresh /\ AbandonedHasFailed /\ HooksRun /\ OneHook
              /\ DependenciesAreUp /\ TornDownInOrder)'
<1> DEFINE p == at["startup"]
           n == stage["startup"]
<1>1. Shapes /\ Ranges /\ InStage /\ "startup" \in Orch /\ "shutdown" \in Orch
  BY DEF TurnsInv, TypesInv, Orch
<1>2. /\ p \in StartupPhase /\ UNCHANGED hook
      /\ n \in Int /\ \A c \in Component : Rank[c] \in Int
  BY <1>1, RankType
     DEF StageBegins, StageSkipped, StageEnds, Starting, Busy, InStage, Ranges, Stages
<1>3. at'["shutdown"] = at["shutdown"] /\ stage'["shutdown"] = stage["shutdown"]
  BY <1>1 DEF StageBegins, StageSkipped, StageEnds, ToRollback, Shapes, Orch
<1>4. Requested' <=> Requested
  BY <1>3 DEF Requested
<1>5. exec'["shutdown"] = exec["shutdown"]
  BY <1>1, RunStageFrame DEF StageBegins, StageSkipped, StageEnds, Orch
<1>6. OneHook' /\ TornDownInOrder'
  BY <1>2, <1>3, <1>5 DEF TurnsInv, OneHook, TornDownInOrder
<1>7. CASE StageBegins
  <2> DEFINE runnable == Healthy \ Skipped
  <2>1. /\ ~Requested /\ \A c \in Component : exec["startup"][c] = "out"
        /\ at["shutdown"] = "none"
        /\ at' = at /\ stage' = stage
        /\ comp' = [c \in Component |->
                      IF c \in Skipped THEN "failed"
                      ELSE IF c \in runnable THEN Transition(comp[c], Executing[p])
                      ELSE comp[c]]
        /\ RunStage("startup", runnable)
    BY <1>7 DEF StageBegins, Busy, Requested
  <2>2. \A c \in Component : exec'["startup"][c] = IF c \in runnable THEN "queued" ELSE "out"
    BY <1>1, <2>1, RunStageFrame
  <2>3. \A c \in runnable : comp[c] = Awaiting[p] /\ comp[c] # "failed" /\ Rank[c] = n /\ c \in Component
    <3>1. \A c \in runnable : comp[c] # "failed" /\ Rank[c] = n /\ c \in Component
      BY DEF Healthy, Stage
    <3> QED
      BY <1>2, <2>1, <3>1 DEF TurnsInv, InOrder, Starting
  <2>4. \A c \in Component : exec["shutdown"][c] = "out"
    BY <1>1, <2>1 DEF InStage, ShutdownPhase
  <2>5. Apart'
    BY <1>3, <2>1 DEF Apart, ShutdownPhase
  <2>6. Executed'
    <3>1. \A c \in runnable : comp'[c] = Executing[p]
      BY <1>2, <2>1, <2>3, Transitions
    <3>2. \A c \in Component \ runnable : comp'[c] \in {"failed", comp[c]}
      BY <2>1
    <3>3. \A c \in Component : comp[c] \notin {"initializing", "starting"}
      BY <2>1 DEF TurnsInv, Executed
    <3> QED
      BY <2>1, <2>2, <3>1, <3>2, <3>3 DEF Executed
  <2>7. InOrder'
    <3>1. SUFFICES ASSUME NEW c \in Component, c \notin runnable
                   PROVE  \/ comp'[c] = "failed"
                          \/ Rank[c] < n /\ comp'[c] = Succeeded[p] /\ hook'[c][p] = "over"
                          \/ Rank[c] >= n /\ comp'[c] = Awaiting[p] /\ Rank[c] # n
      BY <2>1, <2>2 DEF InOrder
    <3>2. CASE c \in Skipped
      BY <2>1, <3>2
    <3>3. CASE c \notin Skipped
      <4>1. comp'[c] = comp[c]
        BY <2>1, <3>1, <3>3
      <4>2. Rank[c] = n => comp[c] = "failed"
        BY <3>1, <3>3 DEF Healthy, Stage
      <4> QED
        BY <1>2, <2>1, <4>1, <4>2 DEF TurnsInv, InOrder, Starting
    <3> QED
      BY <3>2, <3>3
  <2>8. Fresh'
    BY <1>2, <2>1 DEF Fresh, StartupPhase
  <2>9. AbandonedHasFailed'
    <3>1. \A c \in Component : Abandoned(c, StartupPhase) => comp[c] = "failed"
      BY <2>1 DEF TurnsInv, AbandonedHasFailed
    <3>2. \A c \in Component : comp[c] = "failed" => comp'[c] = "failed" /\ c \notin runnable
      BY <2>1, <2>3
    <3> QED
      BY <1>2, <1>5, <2>2, <2>4, <3>1, <3>2 DEF AbandonedHasFailed, Abandoned
  <2>10. HooksRun'
    BY <1>2, <1>5, <2>1, <2>2, <2>4 DEF TurnsInv, HooksRun
  <2>11. DependenciesAreUp'
    <3>1. SUFFICES ASSUME NEW c \in runnable, NEW d \in DependsOn[c] PROVE hook[d][p] = "over"
      BY <1>2, <2>1, <2>2 DEF DependenciesAreUp
    <3>2. c \in Component /\ d \in Component /\ Rank[d] < n
      BY <2>3, <3>1, RankType
    <3>3. comp[d] # "failed"
      BY <3>1 DEF Skipped
    <3> QED
      BY <1>2, <2>1, <3>2, <3>3 DEF TurnsInv, InOrder, Starting
  <2> QED
    BY <1>6, <2>5, <2>6, <2>7, <2>8, <2>9, <2>10, <2>11
<1>8. CASE StageSkipped
  <2>1. /\ ~Requested /\ \A c \in Component : exec["startup"][c] = "out"
        /\ at["shutdown"] = "none" /\ exec' = exec
        /\ comp' = [c \in Component |-> IF c \in Skipped THEN "failed" ELSE comp[c]]
        /\ \/ at'["startup"] = "rollback"
           \/ /\ at' = at /\ stage'["startup"] = n + 1 /\ Healthy \ Skipped = {}
    BY <1>1, <1>8 DEF StageSkipped, Busy, Requested, ToRollback, Shapes, Orch
  <2>2. \A c \in Component : comp'[c] \in {comp[c], "failed"}
    BY <2>1
  <2>3. InOrder'
    <3>1. SUFFICES ASSUME at' = at, stage'["startup"] = n + 1, Healthy \ Skipped = {},
                          NEW c \in Component, c \notin Skipped, comp[c] # "failed"
                   PROVE  \/ Rank[c] < n + 1 /\ comp'[c] = Succeeded[p] /\ hook'[c][p] = "over"
                          \/ Rank[c] >= n + 1 /\ comp'[c] = Awaiting[p]
      BY <2>1 DEF InOrder, Starting, StartupPhase, Busy
    <3>2. Rank[c] # n
      BY <3>1 DEF Healthy, Stage
    <3>3. comp'[c] = comp[c]
      BY <2>1, <3>1
    <3> QED
      BY <1>2, <2>1, <3>1, <3>2, <3>3 DEF TurnsInv, InOrder, Starting
  <2>4. Fresh'
    BY <1>2, <2>1 DEF Fresh, StartupPhase
  <2>5. HooksRun'
    BY <1>2, <1>3, <2>1 DEF TurnsInv, HooksRun
  <2>6. Apart' /\ Executed' /\ AbandonedHasFailed' /\ DependenciesAreUp'
    BY <1>2, <1>4, <2>1, <2>2
       DEF TurnsInv, Apart, Executed, AbandonedHasFailed, Abandoned, DependenciesAreUp
  <2> QED
    BY <1>6, <2>3, <2>4, <2>5, <2>6
<1>9. CASE StageEnds
  <2> DEFINE failed == Ran("startup") \ Returned("startup")
  <2>1. /\ \A c \in Component : exec["startup"][c] \in {"out", "returned", "failed", "timedOut"}
        /\ Busy("startup")
        /\ comp' = [c \in Component |->
                      IF c \in failed THEN Transition(comp[c], "failed")
                      ELSE IF c \in Returned("startup") THEN Transition(comp[c], Succeeded[p])
                      ELSE comp[c]]
        /\ RunStage("startup", {})
        /\ \/ at'["startup"] = "rollback"
           \/ at' = at /\ stage'["startup"] = n + 1
    BY <1>1, <1>9 DEF StageEnds, Settled, ToRollback, Shapes, Orch
  <2>2. \A c \in Component : exec'["startup"][c] = "out"
    BY <1>1, <2>1, RunStageFrame
  <2>3. \A c \in Component :
            comp'[c] = IF exec["startup"][c] = "out" THEN comp[c]
                       ELSE IF exec["startup"][c] = "returned" THEN Succeeded[p] ELSE "failed"
    <3>1. \A c \in Component : exec["startup"][c] # "out" => comp[c] = Executing[p]
      BY DEF TurnsInv, Executed
    <3> QED
      BY <1>2, <2>1, <3>1, Transitions DEF Ran, Returned
  <2>4. Executed'
    BY <1>2, <2>2, <2>3, Transitions DEF TurnsInv, Executed
  <2>5. InOrder'
    <3>1. SUFFICES ASSUME ~Requested, at' = at, stage'["startup"] = n + 1,
                          NEW c \in Component, comp'[c] # "failed"
                   PROVE  \/ Rank[c] < n + 1 /\ comp'[c] = Succeeded[p] /\ hook'[c][p] = "over"
                          \/ Rank[c] >= n + 1 /\ comp'[c] = Awaiting[p]
      BY <1>4, <2>1, <2>2 DEF InOrder, Starting, StartupPhase, Busy
    <3>2. CASE exec["startup"][c] = "out"
      BY <1>2, <2>1, <2>3, <3>1, <3>2 DEF TurnsInv, InOrder, Starting
    <3>3. CASE exec["startup"][c] = "returned"
      BY <1>1, <1>2, <2>3, <3>1, <3>3 DEF TurnsInv, HooksRun, InStage
    <3> QED
      BY <2>1, <2>3, <3>1, <3>2, <3>3
  <2>6. Fresh'
    BY <1>2, <2>1 DEF Fresh, StartupPhase
  <2>7. AbandonedHasFailed'
    BY <1>2, <1>4, <1>5, <2>1, <2>2, <2>3 DEF TurnsInv, AbandonedHasFailed, Abandoned
  <2>8. HooksRun'
    BY <1>2, <1>3, <1>5, <2>1, <2>2 DEF TurnsInv, HooksRun
  <2> QED
    BY <1>6, <2>2, <2>4, <2>5, <2>6, <2>7, <2>8 DEF Apart, DependenciesAreUp
<1> QED
  BY <1>7, <1>8, <1>9

LEMMA TeardownTurns ==
    ASSUME TurnsInv, TeardownStageBegins \/ TeardownStageEnds
    PROVE  (Apart /\ Executed /\ InOrder /\ Fresh /\ AbandonedHasFailed /\ HooksRun /\ OneHook
              /\ DependenciesAreUp /\ TornDownInOrder)'
<1>1. /\ Shapes /\ Ranges /\ InStage /\ "startup" \in Orch /\ "shutdown" \in Orch
      /\ UNCHANGED <<at, hook>> /\ stage'["startup"] = stage["startup"]
  BY DEF TurnsInv, TypesInv, Orch, TeardownStageBegins, TeardownStageEnds, Shapes
<1>2. at["shutdown"] \in ShutdownPhase /\ Requested
  BY <1>1 DEF TeardownStageBegins, TeardownStageEnds, TearingDown, Busy, InStage, Requested,
              ShutdownPhase
<1>3. \A c \in Component : exec["startup"][c] = "out" /\ exec["shutdown"][c] # "running"
  BY <1>2 DEF TurnsInv, Apart, TeardownStageBegins, TeardownStageEnds, TearingDown, Busy, Settled
<1>4. /\ exec'["startup"] = exec["startup"]
      /\ \A c \in Component : exec'["shutdown"][c] \in {"queued", "out"}
  BY <1>1, RunStageFrame DEF TeardownStageBegins, TeardownStageEnds
<1>5. Executed'
  <2>1. \A c \in Component : comp[c] \in State /\ comp[c] \notin {"initializing", "starting"}
    BY <1>1, <1>3 DEF TurnsInv, Executed, Shapes
  <2>2. {"stopping", "stopped", "disposed", "failed"} \subseteq State
    BY DEF State
  <2>3. \A c \in Component : comp'[c] \in {comp[c], "stopping", "stopped", "disposed", "failed"}
    <3>1. CASE TeardownStageBegins
      BY <2>1, <2>2, <3>1, Transitions DEF TeardownStageBegins
    <3>2. CASE TeardownStageEnds
      <4>1. [stop |-> "stopped", dispose |-> "disposed"][at["shutdown"]] \in {"stopped", "disposed"}
        BY <1>2 DEF ShutdownPhase
      <4> QED
        BY <2>1, <2>2, <3>2, <4>1, Transitions DEF TeardownStageEnds
    <3> QED
      BY <3>1, <3>2
  <2> QED
    BY <1>3, <1>4, <2>1, <2>3 DEF Executed
<1>6. InOrder' /\ Fresh'
  BY <1>1, <1>2 DEF TurnsInv, InOrder, Fresh, Requested
<1>7. AbandonedHasFailed'
  BY <1>1, <1>2, <1>3, <1>4 DEF AbandonedHasFailed, Requested
<1>8. HooksRun'
  BY <1>1, <1>3, <1>4 DEF TurnsInv, HooksRun
<1>9. TornDownInOrder'
  <2>1. SUFFICES ASSUME NEW c \in Component, hook[c][at["shutdown"]] # "off",
                        exec'["shutdown"][c] = "out"
                 PROVE  Rank[c] > stage'["shutdown"]
    BY <1>1 DEF TurnsInv, TornDownInOrder
  <2>2. Rank[c] \in Int /\ stage["shutdown"] \in Int
    BY <1>1, RankType DEF Ranges, Stages
  <2>3. CASE TeardownStageBegins
    <3>1. Rank[c] > stage["shutdown"]
      BY <1>2, <2>1, <2>3 DEF TeardownStageBegins, TearingDown, Busy, TurnsInv, TornDownInOrder
    <3>2. stage'["shutdown"] \in {stage["shutdown"], stage["shutdown"] - 1}
      BY <1>1, <2>3 DEF TeardownStageBegins, Shapes
    <3> QED
      BY <2>2, <3>1, <3>2
  <2>4. CASE TeardownStageEnds
    <3>1. Rank[c] >= stage["shutdown"]
      BY <1>1, <1>2, <2>1, <2>2 DEF InStage, TurnsInv, TornDownInOrder
    <3>2. stage'["shutdown"] = stage["shutdown"] - 1
      BY <1>1, <2>4 DEF TeardownStageEnds, Shapes
    <3> QED
      BY <2>2, <3>1, <3>2
  <2> QED
    BY <2>3, <2>4
<1> QED
  BY <1>1, <1>3, <1>4, <1>5, <1>6, <1>7, <1>8, <1>9
     DEF TurnsInv, Apart, OneHook, DependenciesAreUp

LEMMA TurnsStep == ~Reentrant /\ TurnsInv /\ [Next]_vars => TurnsInv'
<1> SUFFICES ASSUME ~Reentrant, TurnsInv, [Next]_vars PROVE TurnsInv'
  OBVIOUS
<1>1. TypesInv'
  BY TypesStep DEF TurnsInv
<1>2. CASE Between
  BY <1>1, <1>2, BetweenTurns DEF TurnsInv
<1>3. CASE StageBegins \/ StageSkipped \/ StageEnds
  BY <1>1, <1>3, StageTurns DEF TurnsInv
<1>4. CASE TeardownStageBegins \/ TeardownStageEnds
  BY <1>1, <1>4, TeardownTurns DEF TurnsInv
<1>5. ASSUME NEW o \in Orch, NEW c \in Component, ExecutorStep(o, c) PROVE TurnsInv'
  BY <1>1, <1>5, ExecutorTurns DEF TurnsInv
<1>6. CASE DeadlineExpires
  <2>1. UNCHANGED <<at, stage, exec, hook>> /\ Requested
    BY <1>6 DEF DeadlineExpires, stageVars
  <2>2. \A c \in Component :
            comp'[c] = IF exec["shutdown"][c] # "out" THEN "failed" ELSE comp[c]
    BY <1>6 DEF DeadlineExpires, Ran
  <2>3. Executed'
    BY <2>1, <2>2 DEF TurnsInv, TypesInv, InStage, Apart, Executed
  <2> QED
    BY <1>1, <2>1, <2>3
       DEF TurnsInv, Apart, InOrder, Fresh, AbandonedHasFailed, Abandoned, HooksRun, OneHook,
           DependenciesAreUp, TornDownInOrder, Requested
<1>7. ASSUME NEW c \in Component, NEW p \in Phase, AbandonedEnds(c, p) PROVE TurnsInv'
  <2>1. UNCHANGED <<comp, at, stage, exec>>
    BY <1>7 DEF AbandonedEnds, stageVars
  <2>2. \A d \in Component, q \in Phase :
            \/ hook'[d][q] = hook[d][q]
            \/ hook[d][q] = "abandoned" /\ hook'[d][q] = "late"
    BY <1>7 DEF AbandonedEnds, TurnsInv, TypesInv, Shapes
  <2>3. StartupPhase \subseteq Phase /\ ShutdownPhase \subseteq Phase /\ "dispose" \in Phase
    BY DEF Phase, ShutdownPhase
  <2>4. Apart' /\ Executed' /\ Fresh'
    BY <2>1 DEF TurnsInv, Apart, Executed, Fresh, Requested
  <2>5. InOrder'
    BY <2>1, <2>2, <2>3 DEF TurnsInv, InOrder, Starting, Requested, Busy
  <2>6. AbandonedHasFailed'
    BY <2>1, <2>2, <2>3 DEF TurnsInv, AbandonedHasFailed, Abandoned, Requested
  <2>7. HooksRun'
    <3>1. \A d \in Component : /\ exec["startup"][d] # "out" => at["startup"] \in Phase
                               /\ exec["shutdown"][d] # "out" => at["shutdown"] \in Phase
      BY <2>3 DEF TurnsInv, TypesInv, InStage, Starting
    <3> QED
      BY <2>1, <2>2, <2>3, <3>1 DEF TurnsInv, HooksRun
  <2>8. OneHook'
    BY <2>2 DEF TurnsInv, OneHook
  <2>9. DependenciesAreUp'
    <3>1. \A d \in Component : exec["startup"][d] # "out" => at["startup"] \in Phase
      BY <2>3 DEF TurnsInv, TypesInv, InStage, Starting
    <3> QED
      BY <2>1, <2>2, <3>1, RankType DEF TurnsInv, DependenciesAreUp
  <2>10. TornDownInOrder'
    BY <2>1, <2>2, <2>3 DEF TurnsInv, TornDownInOrder
  <2> QED
    BY <1>1, <2>4, <2>5, <2>6, <2>7, <2>8, <2>9, <2>10 DEF TurnsInv
<1>8. CASE UNCHANGED vars
  BY <1>1, <1>8
     DEF vars, stageVars, TurnsInv, Apart, Executed, InOrder, Fresh, AbandonedHasFailed, Abandoned,
         HooksRun, OneHook, DependenciesAreUp, TornDownInOrder, Requested, Starting, Busy
<1> QED
  BY <1>2, <1>3, <1>4, <1>5, <1>6, <1>7, <1>8
     DEF Next, Between, StartupStep, ShutdownStep, AllOver, Orch

\* The hooks of a component never overlap, also those a timeout abandoned and those
\* of a startup that a shutdown interrupts; a component comes up after what it
\* depends on and goes down before it.
THEOREM HooksKeepTheirTurns == ~Reentrant => (Spec => []HooksTakeTurns)
<1> SUFFICES ASSUME ~Reentrant PROVE Spec => []HooksTakeTurns
  OBVIOUS
<1>1. TurnsInv => HooksTakeTurns
  <2> SUFFICES ASSUME TurnsInv PROVE HooksTakeTurns
    OBVIOUS
  <2>1. HooksNeverOverlap
    <3> SUFFICES ASSUME NEW c \in Component
                 PROVE  Cardinality({ p \in Phase : hook[c][p] \in {"on", "abandoned"} }) <= 1
      BY DEF HooksNeverOverlap
    <3> DEFINE live == { p \in Phase : hook[c][p] \in {"on", "abandoned"} }
    <3>1. CASE live = {}
      BY <3>1, FS_EmptySet
    <3>2. ASSUME NEW p \in live PROVE Cardinality(live) <= 1
      <4>1. live = {p}
        BY <3>2 DEF TurnsInv, OneHook
      <4> QED
        BY <4>1, FS_Singleton
    <3> QED
      BY <3>1, <3>2
  <2>2. DependenciesOutlive
    <3> SUFFICES ASSUME NEW c \in Component, NEW d \in DependsOn[c]
                 PROVE  /\ \A p \in StartupPhase : hook[c][p] = "on" =>
                               /\ hook[d][p] = "over"
                               /\ hook[d]["stop"] = "off" /\ hook[d]["dispose"] = "off"
                        /\ \A p \in ShutdownPhase : hook[c][p] = "on" => hook[d][p] = "off"
      BY DEF DependenciesOutlive
    <3>1. d \in Component /\ Rank[d] < Rank[c] /\ Rank[d] \in Int /\ Rank[c] \in Int
      BY RankType DEF Stages
    <3>2. ASSUME NEW p \in StartupPhase, hook[c][p] = "on"
          PROVE  hook[d][p] = "over" /\ hook[d]["stop"] = "off" /\ hook[d]["dispose"] = "off"
      <4>1. exec["startup"][c] = "running" /\ at["startup"] = p
        BY <3>2 DEF TurnsInv, HooksRun
      <4>2. at["shutdown"] \notin ShutdownPhase
        BY <4>1 DEF TurnsInv, Apart
      <4> QED
        BY <3>1, <4>1, <4>2 DEF TurnsInv, DependenciesAreUp, TornDownInOrder, ShutdownPhase
    <3>3. ASSUME NEW p \in ShutdownPhase, hook[c][p] = "on" PROVE hook[d][p] = "off"
      <4>1. exec["shutdown"][c] = "running" /\ at["shutdown"] = p
        BY <3>3 DEF TurnsInv, HooksRun
      <4>2. stage["shutdown"] = Rank[c]
        BY <4>1 DEF TurnsInv, TypesInv, InStage
      <4>3. exec["shutdown"][d] = "out"
        BY <3>1, <4>2 DEF TurnsInv, TypesInv, InStage
      <4> QED
        BY <3>1, <4>1, <4>2, <4>3 DEF TurnsInv, TornDownInOrder
    <3> QED
      BY <3>2, <3>3
  <2> QED
    BY <2>1, <2>2 DEF HooksTakeTurns
<1> QED
  BY <1>1, TurnsInit, TurnsStep, PTL DEF Spec

-----------------------------------------------------------------------------
(* What shutdown leaves behind *)

\* Once shutdown() has resolved within its deadline, startup can only be rejected
\* and an abandoned hook can only end.
LEMMA AtRest ==
    ASSUME ~Reentrant, TurnsInv, ResolvedIsDone, resolved, ~expired, [Next]_vars
    PROVE  /\ UNCHANGED <<app, stage, exec, expired, resolved>>
           /\ at'["shutdown"] = at["shutdown"]
<1>1. /\ at \in [Orch -> Where] /\ "startup" \in Orch /\ "shutdown" \in Orch
      /\ at["shutdown"] = "dispose" /\ app = "disposed"
      /\ \A o \in Orch, c \in Component : exec[o][c] = "out"
  BY DEF TurnsInv, TypesInv, Shapes, Orch, ResolvedIsDone, Busy, Apart, ShutdownPhase
<1>2. Requested /\ ~Busy("startup") /\ ~Busy("shutdown")
  BY <1>1 DEF Requested, Busy
<1>3. CASE Start \/ Cancelled \/ Rollback \/ StartRejects
  BY <1>1, <1>2, <1>3 DEF Start, Cancelled, Rollback, StartRejects, ToRollback
<1>4. ASSUME NEW c \in Component, NEW p \in Phase, AbandonedEnds(c, p)
      PROVE  UNCHANGED <<app, stageVars, expired, resolved>>
  BY <1>4 DEF AbandonedEnds
<1>5. ~(StageBegins \/ StageSkipped \/ StageEnds \/ PhaseEnds \/ Shutdown \/ TeardownBegins)
  BY <1>1, <1>2 DEF StageBegins, StageSkipped, StageEnds, PhaseEnds, Shutdown, TeardownBegins
<1>6. ~(TeardownStageBegins \/ TeardownStageEnds \/ TeardownPhaseEnds
          \/ DeadlineExpires \/ ExpiredResolves)
  BY <1>2 DEF TeardownStageBegins, TeardownStageEnds, TeardownPhaseEnds, TearingDown,
              DeadlineExpires, ExpiredResolves
<1>7. \A o \in Orch, c \in Component : ~ExecutorStep(o, c)
  BY <1>1, ExecutorFrame
<1> QED
  BY <1>3, <1>4, <1>5, <1>6, <1>7
     DEF Next, StartupStep, ShutdownStep, AllOver, vars, stageVars, Orch

LEMMA ResolvedStep ==
    ASSUME ~Reentrant, TurnsInv, ResolvedIsDone, [Next]_vars
    PROVE  ResolvedIsDone'
<1>1. Shapes /\ InStage /\ "startup" \in Orch /\ "shutdown" \in Orch
  BY DEF TurnsInv, TypesInv, Orch
<1>2. CASE resolved /\ ~expired
  <2>1. at["shutdown"] = "dispose" /\ app = "disposed" /\ stage["shutdown"] = 0 /\ ~Busy("shutdown")
    BY <1>2 DEF ResolvedIsDone
  <2> QED
    BY <1>2, <2>1, AtRest DEF ResolvedIsDone, Requested, Busy
<1>3. CASE Between /\ (expired \/ ~resolved)
  <2>1. expired' = expired /\ exec' = exec
    BY <1>3, BetweenFrame
  <2>2. Requested => Requested'
    BY <1>1, <1>3, BetweenPhases DEF Requested
  <2>3. CASE resolved' /\ ~expired
    <3>1. TeardownPhaseEnds
      BY <1>3, <2>3 DEF Between, Start, Cancelled, PhaseEnds, Rollback, StartRejects, Shutdown,
                        TeardownBegins, ExpiredResolves
    <3>2. /\ at["shutdown"] = "dispose" /\ stage["shutdown"] = 0 /\ ~Busy("shutdown")
          /\ app' = "disposed" /\ UNCHANGED <<at, stage>>
      BY <1>3, <2>3, <3>1 DEF TeardownPhaseEnds, TearingDown, ShutdownPhase
    <3> QED
      BY <2>1, <3>2 DEF ResolvedIsDone, Requested, Busy
  <2> QED
    BY <2>1, <2>2, <2>3 DEF ResolvedIsDone
<1>4. CASE DeadlineExpires
  BY <1>4 DEF DeadlineExpires, stageVars, ResolvedIsDone, Requested
<1>5. ASSUME NEW o \in Orch, NEW c \in Component, ExecutorStep(o, c), expired \/ ~resolved
      PROVE  ResolvedIsDone'
  BY <1>5, ExecutorFrame DEF ResolvedIsDone, Requested
<1>6. CASE (StageBegins \/ StageSkipped \/ StageEnds) /\ (expired \/ ~resolved)
  BY <1>1, <1>6 DEF StageBegins, StageSkipped, StageEnds, ToRollback, ResolvedIsDone, Requested,
                    Shapes, Orch
<1>7. CASE (TeardownStageBegins \/ TeardownStageEnds) /\ (expired \/ ~resolved)
  BY <1>7 DEF TeardownStageBegins, TeardownStageEnds, ResolvedIsDone, Requested
<1>8. ASSUME NEW c \in Component, NEW p \in Phase, AbandonedEnds(c, p), expired \/ ~resolved
      PROVE  ResolvedIsDone'
  BY <1>8 DEF AbandonedEnds, stageVars, ResolvedIsDone, Requested
<1>9. CASE UNCHANGED vars
  BY <1>9 DEF vars, stageVars, ResolvedIsDone, Requested, Busy
<1> QED
  BY <1>2, <1>3, <1>4, <1>5, <1>6, <1>7, <1>8, <1>9
     DEF Next, Between, StartupStep, ShutdownStep, AllOver, Orch

LEMMA TornDownInit == Init => TornDown
<1> SUFFICES ASSUME Init PROVE TornDown
  OBVIOUS
<1>1. \A c \in Component : /\ exec["shutdown"][c] = "out" /\ comp[c] = "idle"
                           /\ \A p \in Phase : hook[c][p] = "off"
  BY DEF Init
<1>2. at["shutdown"] = "none" /\ stage["shutdown"] = Cardinality(Component)
  BY DEF Init
<1> QED
  BY <1>1, <1>2 DEF TornDown, Phase, StartupPhase, ShutdownPhase

\* A step that does nothing to the teardown, and records nothing while it is under way.
LEMMA TeardownKept ==
    ASSUME TypesInv, TornDown,
           at'["shutdown"] = at["shutdown"], stage'["shutdown"] = stage["shutdown"],
           exec'["shutdown"] = exec["shutdown"], expired' = expired,
           \A c \in Component : comp'[c] = "stopping" => comp[c] = "stopping",
           \A c \in Component : Hung(c) => Hung(c)',
           \A c \in Component, p \in ShutdownPhase : hook[c][p] # "off" => hook'[c][p] # "off",
           at["shutdown"] \in ShutdownPhase => attempted' = attempted,
           \A c \in Component : hook'[c]["initialize"] # "off" =>
               \/ "initialize" \in attempted'[c]
               \/ exec'["startup"][c] # "out" /\ at'["startup"] = "initialize"
    PROVE  TornDown'
<1>1. \A c \in Component : exec["shutdown"][c] # "out" => at["shutdown"] \in ShutdownPhase
  BY DEF TypesInv, InStage
<1>2. Busy("shutdown")' <=> Busy("shutdown")
  BY DEF Busy
<1>3. SUFFICES ASSUME NEW c \in Component, ~expired
               PROVE
      /\ comp'[c] = "stopping" => exec["shutdown"][c] # "out" /\ at["shutdown"] = "stop"
      /\ exec["shutdown"][c] \in {"running", "returned", "failed", "timedOut"} =>
             hook'[c][at["shutdown"]] # "off" \/ Hung(c)'
      /\ at["shutdown"] \in ShutdownPhase /\ Undoes[at["shutdown"]] \in attempted[c] => Undoing(c)'
      /\ at["shutdown"] = "dispose" /\ "start" \in attempted[c] =>
             hook'[c]["stop"] # "off" \/ Hung(c)'
  BY DEF TornDown, ShutdownPhase
<1>4. at["shutdown"] \in ShutdownPhase /\ Undoes[at["shutdown"]] \in attempted[c] => Undoing(c)'
  <2>1. SUFFICES ASSUME at["shutdown"] \in ShutdownPhase, Undoing(c) PROVE Undoing(c)'
    BY <1>3 DEF TornDown
  <2> QED
    BY <1>2, <2>1 DEF Undoing
<1> QED
  BY <1>1, <1>3, <1>4 DEF TornDown, ShutdownPhase

\* The teardown begins with all its stages to come, and each of its phases ends
\* with everything it undoes undone.
LEMMA BetweenTornDown == ASSUME TurnsInv, TornDown, Between PROVE TornDown'
<1>1. /\ UNCHANGED <<comp, attempted, exec, hook, expired>>
      /\ TypesInv /\ Shapes /\ InStage
  BY BetweenFrame DEF TurnsInv, TypesInv
<1>2. \A c \in Component : exec["startup"][c] # "out" => at'["startup"] = at["startup"]
  BY <1>1, BetweenPhases
<1>3. \A c \in Component : hook'[c]["initialize"] # "off" =>
          \/ "initialize" \in attempted'[c]
          \/ exec'["startup"][c] # "out" /\ at'["startup"] = "initialize"
  BY <1>1, <1>2 DEF TornDown
<1>4. CASE at'["shutdown"] = at["shutdown"] /\ stage'["shutdown"] = stage["shutdown"]
  BY <1>1, <1>3, <1>4, TeardownKept DEF Hung
<1>5. CASE at["shutdown"] = "none" /\ at'["shutdown"] = "wait"
  <2>1. stage' = stage
    BY <1>1, <1>5 DEF Between, Start, Rollback, StartRejects, Cancelled, PhaseEnds, ToRollback,
          Shutdown, TeardownBegins, TeardownPhaseEnds, TearingDown, ShutdownPhase, ExpiredResolves,
          stageVars, Requested, Shapes, Orch
  <2>2. \A c \in Component : exec["shutdown"][c] = "out"
    BY <1>1, <1>5 DEF InStage, ShutdownPhase
  <2> QED
    BY <1>1, <1>3, <1>5, <2>1, <2>2 DEF TornDown, ShutdownPhase
<1>6. CASE at["shutdown"] = "wait" /\ at'["shutdown"] = "stop" /\ ~Busy("startup")
  <2>1. stage' = stage /\ stage["shutdown"] = Cardinality(Component)
    BY <1>1, <1>6 DEF Between, Start, Rollback, StartRejects, Cancelled, PhaseEnds, ToRollback,
          Shutdown, TeardownBegins, TeardownPhaseEnds, TearingDown, ShutdownPhase, ExpiredResolves,
          stageVars, Requested, Shapes, Orch, TornDown
  <2>2. \A c \in Component : exec["shutdown"][c] = "out"
    BY <1>1, <1>6 DEF InStage, ShutdownPhase
  <2>3. \A c \in Component : Undoing(c)'
    <3>1. \A c \in Component : Rank[c] \in Int /\ Rank[c] <= Cardinality(Component)
      BY RankType DEF Stages
    <3>2. ~Busy("shutdown")' /\ stage'["shutdown"] = Cardinality(Component)
      BY <1>1, <2>1, <2>2 DEF Busy
    <3> QED
      BY <3>1, <3>2, RankType DEF Undoing
  <2> QED
    BY <1>1, <1>3, <1>6, <2>2, <2>3 DEF TornDown, ShutdownPhase
<1>7. CASE at["shutdown"] = "stop" /\ at'["shutdown"] = "dispose"
  <2>1. /\ stage["shutdown"] = 0 /\ ~expired /\ ~Busy("shutdown")
        /\ stage'["shutdown"] = Cardinality(Component)
    BY <1>1, <1>7 DEF Between, Start, Rollback, StartRejects, Cancelled, PhaseEnds, ToRollback,
          Shutdown, TeardownBegins, TeardownPhaseEnds, TearingDown, ExpiredResolves,
          stageVars, Shapes, Orch
  <2>2. \A c \in Component : exec["shutdown"][c] = "out"
    BY <2>1 DEF Busy
  <2>3. \A c \in Component : Rank[c] \in Int /\ Rank[c] <= Cardinality(Component) /\ Rank[c] > 0
    BY RankType DEF Stages
  <2>4. \A c \in Component : Undoing(c)'
    <3>1. ~Busy("shutdown")'
      BY <1>1, <2>2 DEF Busy
    <3> QED
      BY <2>1, <2>3, <3>1, RankType DEF Undoing
  <2>5. \A c \in Component : "start" \in attempted[c] => hook[c]["stop"] # "off" \/ Hung(c)
    BY <1>7, <2>1, <2>2, <2>3 DEF TornDown, Undoing, Undoes, ShutdownPhase
  <2> QED
    BY <1>1, <1>3, <1>7, <2>1, <2>2, <2>4, <2>5 DEF TornDown, ShutdownPhase, Hung
<1> QED
  BY <1>1, <1>4, <1>5, <1>6, <1>7, BetweenPhases

\* A stage of the startup comes to an end before anything is torn down.
LEMMA StageTornDown ==
    ASSUME TurnsInv, TornDown, ~Reentrant, StageBegins \/ StageSkipped \/ StageEnds
    PROVE  TornDown'
<1>1. Shapes /\ TypesInv /\ InStage /\ "startup" \in Orch /\ "shutdown" \in Orch
  BY DEF TurnsInv, TypesInv, Orch
<1>2. /\ UNCHANGED <<hook, expired>>
      /\ at'["shutdown"] = at["shutdown"] /\ stage'["shutdown"] = stage["shutdown"]
  BY <1>1 DEF StageBegins, StageSkipped, StageEnds, ToRollback, Shapes, Orch
<1>3. exec'["shutdown"] = exec["shutdown"]
  BY <1>1, RunStageFrame DEF StageBegins, StageSkipped, StageEnds, Orch
<1>4. at["startup"] \in StartupPhase
  BY <1>1 DEF StageBegins, StageSkipped, StageEnds, Starting, Busy, InStage
<1>5. \A c \in Component : comp'[c] = "stopping" => comp[c] = "stopping"
  <2>1. \A c \in Component :
            \/ comp'[c] \in {comp[c], "failed"}
            \/ comp'[c] = Transition(comp[c], "failed")
            \/ comp'[c] = Transition(comp[c], Executing[at["startup"]])
            \/ comp'[c] = Transition(comp[c], Succeeded[at["startup"]])
    BY DEF StageBegins, StageSkipped, StageEnds
  <2>2. "failed" \in State /\ \A c \in Component : comp[c] \in State
    BY <1>1 DEF Shapes, State
  <2> QED
    BY <1>4, <2>1, <2>2, Transitions
<1>6. at["shutdown"] \in ShutdownPhase => attempted' = attempted
  BY DEF StageBegins, StageSkipped, StageEnds, Busy, TurnsInv, Apart
<1>7. \A c \in Component : hook'[c]["initialize"] # "off" =>
          \/ "initialize" \in attempted'[c]
          \/ exec'["startup"][c] # "out" /\ at'["startup"] = "initialize"
  <2>1. CASE StageBegins
    <3>1. \A c \in Component : exec["startup"][c] = "out"
      BY <2>1 DEF StageBegins, Busy
    <3> QED
      BY <1>2, <2>1, <3>1 DEF StageBegins, TornDown
  <2>2. CASE StageSkipped
    <3>1. \A c \in Component : exec["startup"][c] = "out"
      BY <2>2 DEF StageSkipped, Busy
    <3> QED
      BY <1>2, <2>2, <3>1 DEF StageSkipped, TornDown
  <2>3. CASE StageEnds
    BY <1>1, <1>2, <2>3 DEF StageEnds, TornDown, Ran, Reached, Shapes
  <2> QED
    BY <2>1, <2>2, <2>3
<1> QED
  BY <1>1, <1>2, <1>3, <1>5, <1>6, <1>7, TeardownKept DEF Hung

\* A stage of the teardown begins with everything it has to undo, and ends with
\* it called, or left alone for a hook that hung.
LEMMA TeardownTornDown ==
    ASSUME TurnsInv, TornDown, TeardownStageBegins \/ TeardownStageEnds
    PROVE  TornDown'
<1>1. /\ Shapes /\ InStage /\ "startup" \in Orch /\ "shutdown" \in Orch
      /\ UNCHANGED <<attempted, at, hook, expired>> /\ ~expired
  BY DEF TurnsInv, TypesInv, Orch, TeardownStageBegins, TeardownStageEnds, TearingDown
<1>2. at["shutdown"] \in ShutdownPhase
  BY <1>1 DEF TeardownStageBegins, TeardownStageEnds, TearingDown, Busy, InStage
<1>3. exec'["startup"] = exec["startup"]
  BY <1>1, RunStageFrame DEF TeardownStageBegins, TeardownStageEnds
<1>4. \A c \in Component : Rank[c] \in Int /\ stage["shutdown"] \in Int /\ comp[c] \in State
  BY <1>1, RankType DEF TurnsInv, TypesInv, Ranges, Stages, Shapes
<1>5. \A c \in Component : Hung(c)' <=> Hung(c)
  BY <1>1 DEF Hung
<1>6. {"stopping", "stopped", "disposed", "failed"} \subseteq State
  BY DEF State
<1>7. CASE TeardownStageBegins
  <2> DEFINE p == at["shutdown"]
             n == stage["shutdown"]
             present  == Stage(n)
             runnable == { c \in present : Undoes[p] \in attempted[c] }
  <2>1. \A c \in Component : exec["shutdown"][c] = "out"
    BY <1>7 DEF TeardownStageBegins, TearingDown, Busy
  <2>2. \A c \in Component : exec'["shutdown"][c] = IF c \in runnable THEN "queued" ELSE "out"
    BY <1>1, <1>7, RunStageFrame DEF TeardownStageBegins
  <2>3. stage'["shutdown"] = IF runnable = {} THEN n - 1 ELSE n
    BY <1>1, <1>7 DEF TeardownStageBegins, Shapes
  <2>4. \A c \in Component : comp'[c] = "stopping" =>
            exec'["shutdown"][c] # "out" /\ at["shutdown"] = "stop"
    <3>1. \A c \in Component : comp[c] # "stopping"
      BY <1>1, <2>1 DEF TornDown
    <3>2. \A c \in Component : comp'[c] # comp[c] /\ comp'[c] # "disposed" =>
              c \in runnable /\ p = "stop"
      BY <1>4, <1>6, <1>7, Transitions DEF TeardownStageBegins
    <3> QED
      BY <2>2, <3>1, <3>2
  <2>5. ASSUME NEW c \in Component, Undoes[p] \in attempted[c] PROVE Undoing(c)'
    <3>1. CASE Rank[c] = n
      BY <2>2, <2>5, <3>1 DEF Undoing, Stage
    <3>2. CASE hook[c][p] # "off" \/ Hung(c)
      BY <1>1, <1>5, <3>2 DEF Undoing
    <3>3. CASE Rank[c] < n
      <4>1. CASE runnable = {}
        <5>1. ~Busy("shutdown")'
          BY <2>2, <4>1 DEF Busy
        <5> QED
          BY <1>4, <2>3, <3>3, <4>1, <5>1 DEF Undoing
      <4>2. CASE runnable # {}
        BY <2>3, <3>3, <4>2 DEF Undoing
      <4> QED
        BY <4>1, <4>2
    <3>4. Undoing(c)
      BY <1>1, <1>2, <2>5 DEF TornDown
    <3> QED
      BY <2>1, <3>1, <3>2, <3>3, <3>4 DEF Undoing
  <2> QED
    BY <1>1, <1>2, <1>3, <1>5, <2>2, <2>4, <2>5 DEF TornDown
<1>8. CASE TeardownStageEnds
  <2>1. \A c \in Component : exec'["shutdown"][c] = "out"
    BY <1>1, <1>8, RunStageFrame DEF TeardownStageEnds
  <2>2. stage'["shutdown"] = stage["shutdown"] - 1
    BY <1>1, <1>8 DEF TeardownStageEnds, Shapes
  <2>3. \A c \in Component : comp'[c] # "stopping"
    <3>1. [stop |-> "stopped", dispose |-> "disposed"][at["shutdown"]] \in {"stopped", "disposed"}
      BY <1>2 DEF ShutdownPhase
    <3>2. ASSUME NEW c \in Component, exec["shutdown"][c] = "out" PROVE comp'[c] # "stopping"
      BY <1>1, <1>8, <3>2 DEF TeardownStageEnds, Ran, Returned, TornDown
    <3>3. ASSUME NEW c \in Component, comp[c] = "stopping" PROVE comp'[c] # "stopping"
      <4>1. at["shutdown"] = "stop" /\ exec["shutdown"][c] # "out"
        BY <1>1, <3>3 DEF TornDown
      <4> QED
        BY <1>8, <3>3, <4>1, Transitions DEF TeardownStageEnds, Ran, Returned
    <3>4. ASSUME NEW c \in Component, comp[c] # "stopping", exec["shutdown"][c] # "out"
          PROVE  comp'[c] # "stopping"
      BY <1>4, <1>6, <1>8, <3>1, <3>4, Transitions DEF TeardownStageEnds, Ran, Returned
    <3> QED
      BY <3>2, <3>3, <3>4
  <2>4. ASSUME NEW c \in Component, Undoes[at["shutdown"]] \in attempted[c] PROVE Undoing(c)'
    <3>1. CASE exec["shutdown"][c] # "out"
      <4>1. exec["shutdown"][c] \in {"returned", "failed", "timedOut"}
        BY <1>8, <3>1 DEF TeardownStageEnds, Settled
      <4> QED
        BY <1>1, <1>5, <4>1 DEF TornDown, Undoing
    <3>2. CASE hook[c][at["shutdown"]] # "off" \/ Hung(c)
      BY <1>1, <1>5, <3>2 DEF Undoing
    <3>3. CASE Rank[c] < stage["shutdown"]
      <4>1. ~Busy("shutdown")'
        BY <2>1 DEF Busy
      <4> QED
        BY <1>4, <2>2, <3>3, <4>1 DEF Undoing
    <3>4. Busy("shutdown") /\ Undoing(c)
      BY <1>1, <1>2, <1>8, <2>4 DEF TeardownStageEnds, TornDown
    <3> QED
      BY <3>1, <3>2, <3>3, <3>4 DEF Undoing
  <2> QED
    BY <1>1, <1>2, <1>3, <1>5, <2>1, <2>3, <2>4 DEF TornDown
<1> QED
  BY <1>7, <1>8

\* A hook of the teardown has been called when the executor is done with it, or
\* the timeout struck while it waited for one that hung.
LEMMA ExecutorTornDown ==
    ASSUME TurnsInv, TornDown, NEW o \in Orch, NEW c \in Component, ExecutorStep(o, c)
    PROVE  TornDown'
<1>0. PICK s \in ExecState \ {"out"} :
         /\ exec' = [exec EXCEPT ![o][c] = s]
         /\ \/ /\ hook' = hook
               /\ exec[o][c] \in {"queued", "waiting"} /\ s \in {"failed", "waiting", "timedOut"}
               /\ s = "timedOut" => Abandoned(c, StartupPhase)
               /\ s = "failed" => expired
            \/ /\ hook' = [hook EXCEPT ![c][at[o]] = "on"]
               /\ exec[o][c] \in {"queued", "waiting"} /\ s = "running"
            \/ /\ exec[o][c] = "running"
               /\ \/ /\ s \in {"returned", "failed", "queued"}
                     /\ hook' = [hook EXCEPT ![c][at[o]] = "over"]
                  \/ /\ s = "timedOut"
                     /\ hook' = [hook EXCEPT ![c][at[o]] = "abandoned"]
  BY ExecutorCases DEF TurnsInv
<1>1. /\ UNCHANGED <<app, comp, attempted, at, stage, expired, resolved>>
      /\ exec[o][c] # "out"
  BY ExecutorFrame
<1>2. /\ TypesInv /\ Shapes /\ InStage /\ at[o] \in Phase
      /\ o = "startup" => at[o] \in StartupPhase /\ at["shutdown"] \notin ShutdownPhase
      /\ o = "shutdown" => at[o] \in ShutdownPhase
  BY <1>1 DEF TurnsInv, TypesInv, InStage, Apart, Starting, Phase, Orch
<1>3. /\ exec'[o][c] = s
      /\ \A q \in Orch, d \in Component : q # o \/ d # c => exec'[q][d] = exec[q][d]
  BY <1>0, <1>2 DEF Shapes
<1>4. /\ \A d \in Component, p \in Phase : d # c \/ p # at[o] => hook'[d][p] = hook[d][p]
      /\ \/ hook' = hook
         \/ hook'[c][at[o]] \in {"on", "over", "abandoned"}
  BY <1>0, <1>2 DEF Shapes
<1>5. "startup" \in Orch /\ "shutdown" \in Orch /\ o \in {"startup", "shutdown"}
  BY DEF Orch
<1>6. \A q \in Orch, d \in Component : exec'[q][d] = "out" <=> exec[q][d] = "out"
  BY <1>1, <1>3
<1>7. \A d \in Component, p \in Phase : hook[d][p] # "off" => hook'[d][p] # "off"
  BY <1>4
<1>8. \A d \in Component : hook'[d]["initialize"] # "off" =>
          \/ "initialize" \in attempted[d]
          \/ exec'["startup"][d] # "out" /\ at["startup"] = "initialize"
  <2>1. SUFFICES ASSUME NEW d \in Component, hook'[d]["initialize"] # hook[d]["initialize"]
                 PROVE  exec'["startup"][d] # "out" /\ at["startup"] = "initialize"
    BY <1>5, <1>6 DEF TornDown
  <2>2. "initialize" \in Phase /\ "initialize" \notin ShutdownPhase
    BY DEF Phase, StartupPhase, ShutdownPhase
  <2> QED
    BY <1>1, <1>2, <1>4, <1>5, <1>6, <2>1, <2>2
<1>9. CASE o = "startup"
  <2>1. \A d \in Component : exec["shutdown"][d] = "out" /\ exec'["shutdown"][d] = "out"
    BY <1>2, <1>3, <1>5, <1>9 DEF InStage
  <2> QED
    BY <1>1, <1>2, <1>8, <1>9, <2>1 DEF TornDown, ShutdownPhase
<1>10. CASE o = "shutdown"
  <2>1. \A d \in Component : Hung(d)' <=> Hung(d)
    <3>1. \A d \in Component, p \in StartupPhase : hook'[d][p] = hook[d][p]
      BY <1>2, <1>4, <1>10 DEF Phase, StartupPhase, ShutdownPhase
    <3> QED
      BY <3>1 DEF Hung
  <2>2. ASSUME NEW d \in Component, ~expired,
               exec'["shutdown"][d] \in {"running", "returned", "failed", "timedOut"}
        PROVE  hook'[d][at["shutdown"]] # "off" \/ Hung(d)'
    <3>1. CASE d # c
      BY <1>2, <1>3, <1>5, <1>7, <1>10, <2>1, <2>2, <3>1 DEF TornDown
    <3>2. CASE d = c /\ exec[o][c] # "running" /\ s = "running"
      BY <1>0, <1>2, <1>10, <3>2 DEF Shapes
    <3>3. CASE d = c /\ exec[o][c] # "running" /\ s = "timedOut"
      BY <1>0, <1>1, <2>1, <3>3 DEF Abandoned, Hung
    <3>4. CASE d = c /\ exec[o][c] = "running"
      BY <1>2, <1>7, <1>10, <2>1, <2>2, <3>4 DEF TornDown
    <3> QED
      BY <1>0, <1>1, <1>3, <1>10, <2>2, <3>1, <3>2, <3>3, <3>4
  <2>3. Busy("shutdown")' <=> Busy("shutdown")
    BY <1>5, <1>6 DEF Busy
  <2>4. \A d \in Component : Undoing(d) => Undoing(d)'
    BY <1>1, <1>2, <1>5, <1>6, <1>7, <1>10, <2>1, <2>3 DEF Undoing
  <2>5. \A d \in Component : hook[d]["stop"] # "off" => hook'[d]["stop"] # "off"
    BY <1>7 DEF Phase, ShutdownPhase
  <2> QED
    BY <1>1, <1>2, <1>5, <1>6, <1>8, <1>10, <2>1, <2>2, <2>4, <2>5 DEF TornDown
<1> QED
  BY <1>5, <1>9, <1>10

LEMMA CloseInit == Init => CloseInv
<1>1. Init => ResolvedIsDone
  BY DEF Init, ResolvedIsDone
<1> QED
  BY <1>1, TurnsInit, TornDownInit DEF CloseInv

LEMMA CloseStep == ~Reentrant /\ CloseInv /\ [Next]_vars => CloseInv'
<1> SUFFICES ASSUME ~Reentrant, CloseInv, [Next]_vars PROVE CloseInv'
  OBVIOUS
<1> USE DEF CloseInv
<1>1. TurnsInv' /\ ResolvedIsDone'
  BY TurnsStep, ResolvedStep
<1>2. CASE Between
  BY <1>1, <1>2, BetweenTornDown
<1>3. CASE StageBegins \/ StageSkipped \/ StageEnds
  BY <1>1, <1>3, StageTornDown
<1>4. CASE TeardownStageBegins \/ TeardownStageEnds
  BY <1>1, <1>4, TeardownTornDown
<1>5. ASSUME NEW o \in Orch, NEW c \in Component, ExecutorStep(o, c) PROVE CloseInv'
  BY <1>1, <1>5, ExecutorTornDown
<1>6. CASE DeadlineExpires
  BY <1>1, <1>6 DEF DeadlineExpires, stageVars, TornDown
<1>7. ASSUME NEW c \in Component, NEW p \in Phase, AbandonedEnds(c, p) PROVE CloseInv'
  <2>1. UNCHANGED <<comp, attempted, at, stage, exec, expired>>
    BY <1>7 DEF AbandonedEnds, stageVars
  <2>2. \A d \in Component, q \in Phase :
            \/ hook'[d][q] = hook[d][q]
            \/ hook[d][q] = "abandoned" /\ hook'[d][q] = "late"
    BY <1>7 DEF AbandonedEnds, TurnsInv, TypesInv, Shapes
  <2>3. StartupPhase \subseteq Phase /\ ShutdownPhase \subseteq Phase /\ "initialize" \in Phase
    BY DEF Phase, StartupPhase
  <2>4. TypesInv
    BY DEF TurnsInv
  <2>5. \A d \in Component : Hung(d) => Hung(d)'
    BY <2>2, <2>3 DEF Hung
  <2>6. \A d \in Component, q \in ShutdownPhase : hook[d][q] # "off" => hook'[d][q] # "off"
    BY <2>2, <2>3
  <2>7. \A d \in Component : hook'[d]["initialize"] # "off" =>
            \/ "initialize" \in attempted[d]
            \/ exec["startup"][d] # "out" /\ at["startup"] = "initialize"
    BY <2>2, <2>3 DEF TornDown
  <2> QED
    BY <1>1, <2>1, <2>4, <2>5, <2>6, <2>7, TeardownKept
<1>8. CASE UNCHANGED vars
  BY <1>1, <1>8 DEF vars, stageVars, TornDown, Undoing, Hung, Busy
<1> QED
  BY <1>2, <1>3, <1>4, <1>5, <1>6, <1>7, <1>8
     DEF Next, Between, StartupStep, ShutdownStep, AllOver, Orch

\* What was started is stopped and what was initialized is disposed before a
\* shutdown within its deadline resolves, except what a hook that hung kept from
\* it; no component is left in between, and the application is DISPOSED.
THEOREM ShutdownLeavesNothing == ~Reentrant => (Spec => []TeardownIsComplete)
<1> SUFFICES ASSUME ~Reentrant PROVE Spec => []TeardownIsComplete
  OBVIOUS
<1>1. CloseInv => TeardownIsComplete
  <2> SUFFICES ASSUME CloseInv, resolved, ~expired PROVE TeardownIsComplete
    BY DEF TeardownIsComplete
  <2>1. /\ at["shutdown"] = "dispose" /\ app = "disposed" /\ stage["shutdown"] = 0
        /\ \A c \in Component : exec["shutdown"][c] = "out"
    BY DEF CloseInv, ResolvedIsDone, Busy
  <2>2. \A c \in Component : exec["startup"][c] = "out"
    BY <2>1 DEF CloseInv, TurnsInv, Apart, ShutdownPhase
  <2>3. \A c \in Component : comp[c] \notin {"initializing", "starting", "stopping"}
    BY <2>1, <2>2 DEF CloseInv, TurnsInv, Executed, TornDown
  <2>4. ASSUME NEW c \in Component, ~Hung(c)
        PROVE  /\ hook[c]["initialize"] # "off" => hook[c]["dispose"] # "off"
               /\ "start" \in attempted[c] => hook[c]["stop"] # "off"
    <3>1. hook[c]["initialize"] # "off" => "initialize" \in attempted[c]
      BY <2>2 DEF CloseInv, TornDown
    <3>2. Rank[c] \in Int /\ Rank[c] > 0
      BY RankType DEF Stages
    <3>3. ~Undoing(c) \/ hook[c]["dispose"] # "off"
      BY <2>1, <2>4, <3>2 DEF Undoing
    <3> QED
      BY <2>1, <2>4, <3>1, <3>3 DEF CloseInv, TornDown, ShutdownPhase, Undoes
  <2> QED
    BY <2>1, <2>3, <2>4 DEF TeardownIsComplete, Hung
<1> QED
  BY <1>1, CloseInit, CloseStep, PTL DEF Spec

\* Once shutdown() has resolved no hook begins: a startup still under way ends
\* with its signal aborted or has nothing in flight, and so does the teardown.
THEOREM NothingBeginsAfterShutdown == ~Reentrant => (Spec => NoHookAfterShutdown)
<1> DEFINE Kept == resolved => \A c \in Component, p \in Phase :
                                   hook'[c][p] = "on" => hook[c][p] = "on"
<1> SUFFICES ASSUME ~Reentrant PROVE Spec => NoHookAfterShutdown
  OBVIOUS
<1>1. CloseInv /\ [Next]_vars => Kept \/ UNCHANGED vars
  <2> SUFFICES ASSUME CloseInv, [Next]_vars, resolved
               PROVE  \A c \in Component, p \in Phase : hook'[c][p] = "on" => hook[c][p] = "on"
    OBVIOUS
  <2>0. Shapes /\ TypesInv
    BY DEF CloseInv, TurnsInv, TypesInv
  <2>1. ASSUME NEW o \in Orch, NEW c \in Component, ExecutorStep(o, c)
        PROVE  \A d \in Component, p \in Phase : hook'[d][p] = "on" => hook[d][p] = "on"
    <3>1. expired
      BY <2>1, AtRest, ExecutorFrame DEF CloseInv, ResolvedIsDone, Busy, Orch, TurnsInv, Apart, ShutdownPhase
    <3>2. \/ hook' = hook
          \/ \E h \in {"over", "abandoned"} : hook' = [hook EXCEPT ![c][at[o]] = h]
      BY <2>0, <2>1, <3>1, ExecutorCases
    <3>3. at[o] \in Phase
      BY <2>0, <2>1, ExecutorCases
    <3>4. ASSUME NEW h \in {"over", "abandoned"}, hook' = [hook EXCEPT ![c][at[o]] = h],
                 NEW d \in Component, NEW p \in Phase, hook'[d][p] = "on"
          PROVE  hook[d][p] = "on"
      <4>1. d # c \/ p # at[o]
        BY <2>0, <3>3, <3>4 DEF Shapes
      <4> QED
        BY <2>0, <3>4, <4>1 DEF Shapes
    <3> QED
      BY <3>2, <3>4
  <2>2. ASSUME NEW c \in Component, NEW p \in Phase, AbandonedEnds(c, p)
        PROVE  \A d \in Component, q \in Phase : hook'[d][q] = "on" => hook[d][q] = "on"
    BY <2>0, <2>2 DEF AbandonedEnds, Shapes
  <2>3. CASE UNCHANGED hook
    BY <2>3
  <2>4. CASE Between
    BY <2>3, <2>4, BetweenFrame
  <2>5. CASE \/ StageBegins \/ StageSkipped \/ StageEnds
             \/ TeardownStageBegins \/ TeardownStageEnds \/ DeadlineExpires
    BY <2>3, <2>5 DEF StageBegins, StageSkipped, StageEnds, TeardownStageBegins,
                      TeardownStageEnds, DeadlineExpires
  <2> QED
    BY <2>1, <2>2, <2>3, <2>4, <2>5
       DEF Next, Between, StartupStep, ShutdownStep, AllOver, vars, Orch
<1> QED
  BY <1>1, CloseInit, CloseStep, PTL DEF Spec, NoHookAfterShutdown
=============================================================================
