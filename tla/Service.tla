------------------------------ MODULE Service -------------------------------
(***************************************************************************)
(* The server apart from the notes: its sessions, its metrics, the life of  *)
(* the process, and what it starts with.  They share nothing (a restart of  *)
(* Auth is a run of Lifecycle that ends and one that begins, and a run that *)
(* does not start is one that Config refuses), so a behaviour is that of    *)
(* one of them.                                                             *)
(***************************************************************************)
EXTENDS Auth, Lifecycle, Metrics, Config

VARIABLE concern   \* "sessions", "process", "metrics" or "config"

serviceVars == <<authVars, lifeVars, metricsVars, configVars, concern>>

\* Everything left to its default.
ConfigAside ==
    /\ conf = Defaults
    /\ given = [src \in {"file", "env", "flags"} |-> [s \in Setting |-> Unset]]
    /\ phase = "start"
    /\ secret = Secret("nothing", Unset)

ServiceInit ==
    /\ AuthInit
    /\ LifeInit
    /\ MetricsInit
    /\ \/ concern \in {"sessions", "process", "metrics"} /\ ConfigAside
       \/ concern = "config" /\ ConfigInit

InSessions(A) == concern = "sessions" /\ A /\ UNCHANGED <<lifeVars, metricsVars, configVars, concern>>
InProcess(A) == concern = "process" /\ A /\ UNCHANGED <<authVars, metricsVars, configVars, concern>>
InMetrics(A) == concern = "metrics" /\ A /\ UNCHANGED <<authVars, lifeVars, configVars, concern>>
InConfig(A) == concern = "config" /\ A /\ UNCHANGED <<authVars, lifeVars, metricsVars, concern>>

ServiceNext ==
    \/ InSessions(AuthNext) \/ InProcess(LifeNext) \/ InMetrics(MetricsNext) \/ InConfig(ConfigNext)

\* AuthFairness and LifeFairness.
ServiceFairness ==
    /\ WF_serviceVars(InSessions(EvictExpired))
    /\ WF_serviceVars(InSessions(Tick))
    /\ \A r \in Run : WF_serviceVars(InProcess(Ending(r)))

ServiceSpec == ServiceInit /\ [][ServiceNext]_serviceVars /\ ServiceFairness

=============================================================================
