------------------------ MODULE LifecycleProperties ------------------------
(***************************************************************************)
(* What startup, rollback and shutdown promise together.                   *)
(***************************************************************************)
EXTENDS Lifecycle

\* The manager's records keep their types, and no hook is retried more often
\* than its component allows.
TypeOK ==
    /\ app \in State /\ comp \in [Component -> State]
    /\ attempted \in [Component -> SUBSET StartupPhase]
    /\ at["startup"] \in StartupPhase \cup {"none", "rollback", "joining", "rejected", "up"}
    /\ at["shutdown"] \in ShutdownPhase \cup {"none", "wait"}
    /\ stage["startup"] \in 1..Cardinality(Component) + 1
    /\ stage["shutdown"] \in 0..Cardinality(Component)
    /\ \A o \in {"startup", "shutdown"}, c \in Component :
           /\ exec[o][c] \in {"out", "queued", "waiting", "running",
                              "returned", "failed", "timedOut"}
           /\ tries[o][c] \in 0..Retries[c]
    /\ hook \in [Component -> [Phase -> {"off", "on", "over", "abandoned", "late"}]]
    /\ expired \in BOOLEAN /\ resolved \in BOOLEAN

\* The hooks of one component never overlap, also those that their timeout
\* abandoned and those of a startup that a shutdown interrupts.
HooksNeverOverlap ==
    \A c \in Component :
        Cardinality({ p \in Phase : hook[c][p] \in {"on", "abandoned"} }) <= 1

\* A component is started on dependencies whose own hooks have ended (well or
\* not: a dependency that is not critical may have failed) and that nobody tears
\* down, and is torn down before they are.
DependenciesOutlive ==
    \A c \in Component : \A d \in DependsOn[c] :
        /\ \A p \in StartupPhase : hook[c][p] = "on" =>
               /\ hook[d][p] = "over"
               /\ hook[d]["stop"] = "off" /\ hook[d]["dispose"] = "off"
        /\ \A p \in ShutdownPhase : hook[c][p] = "on" => hook[d][p] = "off"

\* Once shutdown() has resolved no hook is called, by a startup that is still
\* in flight or by the teardown that the deadline cut short.
NoHookAfterShutdown ==
    [][resolved => \A c \in Component, p \in Phase :
           hook'[c][p] = "on" => hook[c][p] = "on"]_vars

\* Hooks take turns: those of one component never overlap, the startup hooks of
\* its dependencies have ended while its own run, and its own teardown
\* hooks end before theirs begin.
HooksTakeTurns == HooksNeverOverlap /\ DependenciesOutlive

\* A shutdown within its deadline leaves nothing behind: what was started is
\* stopped and what was initialized, if only in part, is disposed, except for
\* a component one of whose hooks had hung; no component is left in the middle
\* of a transition, and no settling startup overwrites the DISPOSED state.
TeardownIsComplete ==
    resolved /\ ~expired =>
        /\ app = "disposed"
        /\ \A c \in Component :
               /\ comp[c] \notin {"initializing", "starting", "stopping"}
               /\ \/ \E p \in StartupPhase : hook[c][p] \in {"abandoned", "late"}
                  \/ /\ hook[c]["initialize"] # "off" => hook[c]["dispose"] # "off"
                     /\ "start" \in attempted[c] => hook[c]["stop"] # "off"

\* Startup's rollback waits for shutdown and shutdown for startup's stage: both
\* settle, without the deadline's help.
BothSettle ==
    /\ at["startup"] # "none" ~> at["startup"] \in {"up", "rejected"}
    /\ at["shutdown"] # "none" ~> resolved

\* "Its DISPOSED state is never overwritten with FAILED": the application stays
\* disposed once shutdown() has resolved.  False once the deadline has expired:
\* LifecycleOverwritten.cfg is the counterexample.
DisposedIsKept == resolved => app = "disposed"
=============================================================================
