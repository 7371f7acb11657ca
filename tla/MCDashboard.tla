----------------------------- MODULE MCDashboard -----------------------------
(* The parts of the dashboard: its caches and streams, with three sessions    *)
(* for a cache of two and a client whose queue holds two; its lists, with up  *)
(* to three events of any sessions at any of three times and pages of one; the*)
(* limit on requests, three in four seconds.  With them the CTI's forwarder   *)
(* of alerts, which has the other limiter: with the code's delays, two alerts *)
(* and a window of six seconds for its sixty, which three alerts can span.    *)
(* They share no variable, so a behaviour is one of one of them, as `part`    *)
(* says.                                                                      *)
EXTENDS Dashboard, DashboardPages, ApiLimiter, Alerting
VARIABLE part

Symmetry == Permutations(Sids) \cup Permutations(Values) \cup Permutations(Ids)
                \cup Permutations(Visits \ {Watched})
\* A row is kept from both lists or from none.
MCHidden == {{}, {"sessions", "timeline"}}

PartsInit ==
    /\ part \in {"caches", "pages", "limiter", "alerts"}
    /\ DashboardInit /\ PagesInit /\ LimiterInit /\ AlertInit
PartsNext ==
    /\ UNCHANGED part
    /\ \/ part = "caches" /\ DashboardNext /\ UNCHANGED <<pagesVars, limiterVars, alertVars>>
       \/ part = "pages" /\ PagesNext /\ UNCHANGED <<dashboardVars, limiterVars, alertVars>>
       \/ part = "limiter" /\ LimiterNext /\ UNCHANGED <<dashboardVars, pagesVars, alertVars>>
       \/ part = "alerts" /\ AlertNext /\ UNCHANGED <<dashboardVars, pagesVars, limiterVars>>
PartsSpec ==
    PartsInit /\ [][PartsNext]_<<part, dashboardVars, pagesVars, limiterVars, alertVars>>
=============================================================================
