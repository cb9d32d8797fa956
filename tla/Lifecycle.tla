------------------------------ MODULE Lifecycle ------------------------------
(***************************************************************************)
(* LifecycleManager: staged startup, its rollback and shutdown, with the   *)
(* executor that runs the hooks of a stage.  Startup and shutdown are two  *)
(* orchestrators that may be under way at once; each runs one stage at a   *)
(* time and awaits the hooks of it.                                        *)
(***************************************************************************)
EXTENDS Integers, FiniteSets

CONSTANTS
    Component,
    DependsOn,      \* a set of components for each
    Critical,
    Retries,        \* retry.attempts of each component
    Bounded,        \* components with a finite timeout
    Reentrant       \* a hook or a listener may call shutdown() as its stage begins

ASSUME LifecycleConstants ==
    /\ IsFiniteSet(Component)
    /\ DependsOn \in [Component -> SUBSET Component]
    /\ Critical \subseteq Component /\ Bounded \subseteq Component
    /\ Retries \in [Component -> Nat]
    /\ Reentrant \in BOOLEAN

Stages == 1..Cardinality(Component)

\* Kahn's rounds: a component comes one round after the last of its dependencies.
IsRanking(r) ==
    \A c \in Component :
        /\ \A d \in DependsOn[c] : r[d] < r[c]
        /\ r[c] > 1 => \E d \in DependsOn[c] : r[d] = r[c] - 1

\* A cycle is refused when the plan is made.
ASSUME DependenciesAreAcyclic == \E r \in [Component -> Stages] : IsRanking(r)

Rank == CHOOSE r \in [Component -> Stages] : IsRanking(r)

VARIABLES
    app, comp,      \* the state machines of the application and the components
    attempted,      \* the startup phases each component reached
    at,             \* the phase each orchestrator is in
    stage,          \* the number of its stage
    exec,           \* where it is with each component of the stage
    tries,          \* the retries made there
    hook,           \* what has become of each hook of each component
    expired,        \* shutdownTimedOut; the signal of all hooks is aborted
    resolved        \* shutdown() has resolved

stageVars == <<at, stage, exec, tries>>
vars == <<app, comp, attempted, stageVars, hook, expired, resolved>>

StartupPhase  == {"initialize", "start", "ready"}
ShutdownPhase == {"stop", "dispose"}
Phase         == StartupPhase \cup ShutdownPhase
State == {"idle", "initializing", "initialized", "starting", "started", "ready",
          "stopping", "stopped", "failed", "disposed"}

Stage(n) == { c \in Component : Rank[c] = n }

Allowed ==
    [ idle |-> {"initializing", "disposed"},
      initializing |-> {"initialized", "failed"},
      initialized |-> {"starting", "stopping", "disposed"},
      starting |-> {"started", "failed"},
      started |-> {"ready", "stopping", "failed"},
      ready |-> {"stopping", "failed"},
      stopping |-> {"stopped", "failed"},
      stopped |-> {"disposed"},
      failed |-> {"stopping", "disposed"},
      disposed |-> {} ]

\* transitionComponent(): a transition that is not allowed does nothing.
Transition(from, to) == IF to \in Allowed[from] THEN to ELSE from

Busy(o) == \E c \in Component : exec[o][c] # "out"

\* The stage of o, with these components about to run, and the stage after it.
RunStage(o, cs) ==
    /\ exec' = [exec EXCEPT ![o] = [c \in Component |-> IF c \in cs THEN "queued" ELSE "out"]]
    /\ tries' = [tries EXCEPT ![o] = [c \in Component |-> 0]]

Settled(o, c) == exec[o][c] \in {"out", "returned", "failed", "timedOut"}
Ran(o)        == { c \in Component : exec[o][c] # "out" }
Returned(o)   == { c \in Component : exec[o][c] = "returned" }

Init ==
    /\ app = "idle" /\ comp = [c \in Component |-> "idle"]
    /\ attempted = [c \in Component |-> {}]
    /\ at = [startup |-> "none", shutdown |-> "none"]
    /\ stage = [startup |-> 1, shutdown |-> Cardinality(Component)]
    /\ exec = [o \in {"startup", "shutdown"} |-> [c \in Component |-> "out"]]
    /\ tries = [o \in {"startup", "shutdown"} |-> [c \in Component |-> 0]]
    /\ hook = [c \in Component |-> [p \in Phase |-> "off"]]
    /\ expired = FALSE /\ resolved = FALSE

-----------------------------------------------------------------------------
(* The executor *)

Abandoned(c, phases) == \E p \in phases : hook[c][p] = "abandoned"

Executes(o, c, status) == exec' = [exec EXCEPT ![o][c] = status]

\* The loop of execute() finds the run aborted.
GivesUp(o, c) ==
    /\ exec[o][c] \in {"queued", "waiting"} /\ expired
    /\ Executes(o, c, "failed")
    /\ UNCHANGED <<app, comp, attempted, at, stage, tries, hook, expired, resolved>>

\* Mutant: a hook begins whatever became of the run.
BeginsLate(c) ==
    /\ exec["startup"][c] = "queued"
    /\ Executes("startup", c, "running")
    /\ hook' = [hook EXCEPT ![c][at["startup"]] = "on"]
    /\ UNCHANGED <<app, comp, attempted, at, stage, tries, expired, resolved>>

Begins(c) ==
    /\ exec["startup"][c] = "queued" /\ ~expired
    /\ Executes("startup", c, "running")
    /\ hook' = [hook EXCEPT ![c][at["startup"]] = "on"]
    /\ UNCHANGED <<app, comp, attempted, at, stage, tries, expired, resolved>>

\* execute() of a shutdown hook waits for the component's abandoned shutdown
\* hooks before its timeout runs, and invoke() for the startup hooks under it.
MayCall(c) == ~expired /\ (exec["shutdown"][c] = "queued" => ~Abandoned(c, ShutdownPhase))

Waits(c) ==
    /\ exec["shutdown"][c] = "queued" /\ MayCall(c)
    /\ Abandoned(c, StartupPhase)
    /\ Executes("shutdown", c, "waiting")
    /\ UNCHANGED <<app, comp, attempted, at, stage, tries, hook, expired, resolved>>

BeginsTeardown(c) ==
    /\ exec["shutdown"][c] \in {"queued", "waiting"} /\ MayCall(c)
    /\ ~Abandoned(c, StartupPhase)
    /\ Executes("shutdown", c, "running")
    /\ hook' = [hook EXCEPT ![c][at["shutdown"]] = "on"]
    /\ UNCHANGED <<app, comp, attempted, at, stage, tries, expired, resolved>>

HookReturns(o, c) ==
    /\ exec[o][c] = "running"
    /\ Executes(o, c, "returned")
    /\ hook' = [hook EXCEPT ![c][at[o]] = "over"]
    /\ UNCHANGED <<app, comp, attempted, at, stage, tries, expired, resolved>>

\* Mutant: one retry too many.
HookThrowsAgain(o, c) ==
    /\ exec[o][c] = "running"
    /\ hook' = [hook EXCEPT ![c][at[o]] = "over"]
    /\ IF tries[o][c] <= Retries[c]
         THEN /\ Executes(o, c, "queued")
              /\ tries' = [tries EXCEPT ![o][c] = @ + 1]
         ELSE /\ Executes(o, c, "failed")
              /\ UNCHANGED tries
    /\ UNCHANGED <<app, comp, attempted, at, stage, expired, resolved>>

HookThrows(o, c) ==
    /\ exec[o][c] = "running"
    /\ hook' = [hook EXCEPT ![c][at[o]] = "over"]
    /\ IF tries[o][c] < Retries[c]
         THEN /\ Executes(o, c, "queued")
              /\ tries' = [tries EXCEPT ![o][c] = @ + 1]
         ELSE /\ Executes(o, c, "failed")
              /\ UNCHANGED tries
    /\ UNCHANGED <<app, comp, attempted, at, stage, expired, resolved>>

\* The component's timeout: a hook that runs is abandoned; one that still
\* waited for an earlier hook is never called.
TimesOut(o, c) ==
    /\ c \in Bounded
    /\ exec[o][c] = "running" \/ (exec[o][c] = "waiting" /\ Abandoned(c, StartupPhase))
    /\ Executes(o, c, "timedOut")
    /\ hook' = IF exec[o][c] = "running" THEN [hook EXCEPT ![c][at[o]] = "abandoned"] ELSE hook
    /\ UNCHANGED <<app, comp, attempted, at, stage, tries, expired, resolved>>

AbandonedEnds(c, p) ==
    /\ hook[c][p] = "abandoned"
    /\ hook' = [hook EXCEPT ![c][p] = "late"]
    /\ UNCHANGED <<app, comp, attempted, stageVars, expired, resolved>>

-----------------------------------------------------------------------------
(* Startup *)

Starting   == at["startup"] \in StartupPhase
Requested  == at["shutdown"] # "none"    \* shutdownPromise is set
ToRollback == at' = [at EXCEPT !["startup"] = "rollback"]

\* start(): only an idle application can be initialized.
Start ==
    /\ at["startup"] = "none"
    /\ IF app = "idle"
         THEN /\ app' = "initializing"
              /\ at' = [at EXCEPT !["startup"] = "initialize"]
         ELSE /\ at' = [at EXCEPT !["startup"] = "rejected"]
              /\ UNCHANGED app
    /\ UNCHANGED <<comp, attempted, stage, exec, tries, hook, expired, resolved>>

Healthy == { c \in Stage(stage["startup"]) : comp[c] # "failed" }
Skipped == { c \in Healthy : \E d \in DependsOn[c] : comp[d] = "failed" }

Executing == [initialize |-> "initializing", start |-> "starting", ready |-> "started"]
Succeeded == [initialize |-> "initialized", start |-> "started", ready |-> "ready"]

\* A component whose dependency has failed is failed with it; the others of
\* the stage are executed, unless a critical one was skipped.
StageBegins ==
    LET runnable == Healthy \ Skipped
        p == at["startup"]
    IN  /\ Starting /\ ~Requested /\ ~Busy("startup") /\ stage["startup"] \in Stages
        /\ Skipped \cap Critical = {} /\ runnable # {}
        /\ comp' = [c \in Component |->
                      IF c \in Skipped THEN "failed"
                      ELSE IF c \in runnable THEN Transition(comp[c], Executing[p])
                      ELSE comp[c]]
        /\ RunStage("startup", runnable)
        /\ \/ UNCHANGED <<app, at>>
           \/ Reentrant /\ app' = "stopping" /\ at' = [at EXCEPT !["shutdown"] = "stop"]
        /\ UNCHANGED <<attempted, stage, hook, expired, resolved>>

StageSkipped ==
    /\ Starting /\ ~Requested /\ ~Busy("startup") /\ stage["startup"] \in Stages
    /\ Skipped \cap Critical # {} \/ Healthy \ Skipped = {}
    /\ comp' = [c \in Component |-> IF c \in Skipped THEN "failed" ELSE comp[c]]
    /\ IF Skipped \cap Critical # {}
         THEN app' = "failed" /\ ToRollback /\ UNCHANGED stage
         ELSE stage' = [stage EXCEPT !["startup"] = @ + 1] /\ UNCHANGED <<app, at>>
    /\ UNCHANGED <<attempted, exec, tries, hook, expired, resolved>>

\* Mutant: a phase was reached only if its hook returned.
ReachedReturned(c, p) == exec["startup"][c] = "returned"

\* A start() that threw does not count; an initialize() that threw may still
\* hold what only dispose() releases.
Reached(c, p) == exec["startup"][c] \in {"returned", "timedOut"} \/ p = "initialize"

\* Every result of the stage is recorded; a critical failure ends startup.
StageEnds ==
    LET p      == at["startup"]
        failed == Ran("startup") \ Returned("startup")
    IN  /\ Busy("startup") /\ \A c \in Component : Settled("startup", c)
        /\ attempted' = [c \in Component |->
                            IF c \in Ran("startup") /\ Reached(c, p)
                              THEN attempted[c] \cup {p} ELSE attempted[c]]
        /\ comp' = [c \in Component |->
                      IF c \in failed THEN Transition(comp[c], "failed")
                      ELSE IF c \in Returned("startup") THEN Transition(comp[c], Succeeded[p])
                      ELSE comp[c]]
        /\ RunStage("startup", {})
        /\ IF failed \cap Critical # {}
             THEN app' = "failed" /\ ToRollback /\ UNCHANGED stage
             ELSE stage' = [stage EXCEPT !["startup"] = @ + 1] /\ UNCHANGED <<app, at>>
        /\ UNCHANGED <<hook, expired, resolved>>

\* assertNotShuttingDown()
Cancelled ==
    /\ Starting /\ Requested /\ ~Busy("startup")
    /\ ToRollback
    /\ UNCHANGED <<app, comp, attempted, stage, exec, tries, hook, expired, resolved>>

PhaseEnds ==
    LET next == [initialize |-> "start", start |-> "ready", ready |-> "up"]
        then == [initialize |-> "starting", start |-> "started", ready |-> "ready"]
    IN  /\ Starting /\ ~Requested /\ ~Busy("startup") /\ stage["startup"] \notin Stages
        /\ at' = [at EXCEPT !["startup"] = next[@]]
        /\ app' = then[at["startup"]]
        /\ stage' = [stage EXCEPT !["startup"] = 1]
        /\ UNCHANGED <<comp, attempted, exec, tries, hook, expired, resolved>>

\* performStartup()'s catch: it runs, or joins, the one shutdown.
Rollback ==
    /\ at["startup"] = "rollback"
    /\ IF Requested
         THEN at' = [at EXCEPT !["startup"] = "joining"] /\ UNCHANGED app
         ELSE /\ at' = [startup |-> "joining", shutdown |-> "wait"]
              /\ app' = "failed"
    /\ UNCHANGED <<comp, attempted, stage, exec, tries, hook, expired, resolved>>

StartRejects ==
    /\ at["startup"] = "joining" /\ resolved
    /\ at' = [at EXCEPT !["startup"] = "rejected"]
    /\ UNCHANGED <<app, comp, attempted, stage, exec, tries, hook, expired, resolved>>

-----------------------------------------------------------------------------
(* Shutdown *)

Shutdown ==
    /\ at["shutdown"] = "none"
    /\ at' = [at EXCEPT !["shutdown"] = "wait"]
    /\ app' = IF app = "failed" THEN app ELSE "stopping"
    /\ UNCHANGED <<comp, attempted, stage, exec, tries, hook, expired, resolved>>

\* Mutant: shutdown does not wait for the stage that startup has in flight.
TeardownAtOnce ==
    /\ at["shutdown"] = "wait" /\ ~expired
    /\ at' = [at EXCEPT !["shutdown"] = "stop"]
    /\ UNCHANGED <<app, comp, attempted, stage, exec, tries, hook, expired, resolved>>

\* Mutant: ... or it waits for all of startup, which waits for it.
TeardownAfterStartup ==
    /\ at["shutdown"] = "wait" /\ ~expired
    /\ at["startup"] \in {"none", "up", "rejected"}
    /\ at' = [at EXCEPT !["shutdown"] = "stop"]
    /\ UNCHANGED <<app, comp, attempted, stage, exec, tries, hook, expired, resolved>>

\* The stage that startup has in flight, if any, has settled.
TeardownBegins ==
    /\ at["shutdown"] = "wait" /\ ~expired
    /\ ~Busy("startup")
    /\ at' = [at EXCEPT !["shutdown"] = "stop"]
    /\ UNCHANGED <<app, comp, attempted, stage, exec, tries, hook, expired, resolved>>

TearingDown == at["shutdown"] \in ShutdownPhase /\ ~expired /\ ~resolved /\ ~Busy("shutdown")

Undoes == [stop |-> "start", dispose |-> "initialize"]

\* Only what reached the phase that this one undoes is torn down.
TeardownStageBegins ==
    LET p        == at["shutdown"]
        present  == Stage(stage["shutdown"])
        runnable == { c \in present : Undoes[p] \in attempted[c] }
    IN  /\ TearingDown /\ stage["shutdown"] \in Stages
        /\ comp' = [c \in Component |->
                      IF p = "stop" /\ c \in runnable THEN Transition(comp[c], "stopping")
                      ELSE IF p = "dispose" /\ c \in present \ runnable
                        THEN Transition(comp[c], "disposed")
                      ELSE comp[c]]
        /\ RunStage("shutdown", runnable)
        /\ stage' = IF runnable = {} THEN [stage EXCEPT !["shutdown"] = @ - 1] ELSE stage
        /\ UNCHANGED <<app, attempted, at, hook, expired, resolved>>

TeardownStageEnds ==
    LET done == [stop |-> "stopped", dispose |-> "disposed"]
    IN  /\ Busy("shutdown") /\ ~expired
        /\ \A c \in Component : Settled("shutdown", c)
        /\ comp' = [c \in Component |->
                      IF c \in Returned("shutdown")
                        THEN Transition(comp[c], done[at["shutdown"]])
                      ELSE IF c \in Ran("shutdown") THEN Transition(comp[c], "failed")
                      ELSE comp[c]]
        /\ RunStage("shutdown", {})
        /\ stage' = [stage EXCEPT !["shutdown"] = @ - 1]
        /\ UNCHANGED <<app, attempted, at, hook, expired, resolved>>

TeardownPhaseEnds ==
    /\ TearingDown /\ stage["shutdown"] = 0
    /\ IF at["shutdown"] = "stop"
         THEN /\ at' = [at EXCEPT !["shutdown"] = "dispose"]
              /\ stage' = [stage EXCEPT !["shutdown"] = Cardinality(Component)]
              /\ UNCHANGED <<app, resolved>>
         ELSE app' = "disposed" /\ resolved' = TRUE /\ UNCHANGED <<at, stage>>
    /\ UNCHANGED <<comp, attempted, exec, tries, hook, expired>>

\* expireShutdown(): the hooks in flight are failed, every signal is aborted.
DeadlineExpires ==
    /\ Requested /\ ~resolved /\ ~expired
    /\ expired' = TRUE
    /\ comp' = [c \in Component |-> IF c \in Ran("shutdown") THEN "failed" ELSE comp[c]]
    /\ UNCHANGED <<app, attempted, stageVars, hook, resolved>>

ExpiredResolves ==
    /\ expired /\ ~resolved
    /\ app' = "disposed" /\ resolved' = TRUE
    /\ UNCHANGED <<comp, attempted, stageVars, hook, expired>>

-----------------------------------------------------------------------------
ExecutorStep(o, c) ==
    \/ GivesUp(o, c) \/ HookReturns(o, c) \/ HookThrows(o, c) \/ TimesOut(o, c)
    \/ o = "startup" /\ Begins(c)
    \/ o = "shutdown" /\ (Waits(c) \/ BeginsTeardown(c))

StartupStep ==
    \/ StageBegins \/ StageSkipped \/ StageEnds \/ Cancelled \/ PhaseEnds
    \/ Rollback \/ StartRejects

ShutdownStep ==
    \/ TeardownBegins \/ TeardownStageBegins \/ TeardownStageEnds
    \/ TeardownPhaseEnds \/ ExpiredResolves

\* Startup is over, whatever the outcome, and so is shutdown.
AllOver == at["startup"] \in {"up", "rejected"} /\ resolved /\ UNCHANGED vars

Next ==
    \/ Start \/ Shutdown \/ DeadlineExpires
    \/ StartupStep \/ ShutdownStep
    \/ \E o \in {"startup", "shutdown"}, c \in Component : ExecutorStep(o, c)
    \/ \E c \in Component, p \in Phase : AbandonedEnds(c, p)
    \/ AllOver

Spec == Init /\ [][Next]_vars

\* Promises are settled and hooks end, on time or after their timeout; neither
\* the deadline nor a timeout is counted upon.
Fairness ==
    /\ WF_vars(StartupStep) /\ WF_vars(ShutdownStep)
    /\ \A o \in {"startup", "shutdown"}, c \in Component : WF_vars(ExecutorStep(o, c))
    /\ \A c \in Component, p \in Phase : WF_vars(AbandonedEnds(c, p))

FairSpec == Spec /\ Fairness
=============================================================================
