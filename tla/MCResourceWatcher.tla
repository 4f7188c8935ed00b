-------------------------- MODULE MCResourceWatcher --------------------------
(* Configurations and objects for TLC. *)
EXTENDS ResourceWatcher

Watch(key, events, clusters) ==
    [source |-> "resource-watcher", key |-> key, events |-> events, clusters |-> clusters,
     parses |-> TRUE, action |-> TRUE]
Cron(parses) ==
    [source |-> "cronjob", key |-> "pods", events |-> {}, clusters |-> <<>>,
     parses |-> parses, action |-> TRUE]
File(triggers) == [supported |-> TRUE, parses |-> TRUE, triggers |-> triggers]
Other == [supported |-> FALSE, parses |-> FALSE, triggers |-> <<>>]

\* Two triggers of one key that ask for different events and clusters; one that
\* watches two clusters, next to a cronjob; one that names a cluster twice; a kind nobody
\* knows, after a trigger that is skipped; and what is refused: no trigger, a file that
\* cannot be parsed, an unknown source, an action without definition
TwoHandlers == <<File(<<Watch("pods", {"create"}, <<>>)>>), Other,
                 File(<<Watch("pods", {"update"}, <<"local", "far">>)>>)>>
TwoClusters(events) == <<File(<<Watch("pods", events, <<"local", "far">>), Cron(TRUE)>>)>>
Twice == <<File(<<Watch("pods", {"create"}, <<"local", "local">>)>>)>>
TwoCrons == <<File(<<Cron(TRUE), Cron(TRUE)>>)>>
NoSuchKind == <<File(<<Cron(FALSE), Watch("nodes", {}, <<>>)>>)>>
Refused == {<<Other>>,
            <<[supported |-> TRUE, parses |-> FALSE, triggers |-> <<>>]>>,
            <<File(<<[Cron(TRUE) EXCEPT !.source = "unknown"]>>)>>,
            <<File(<<[Cron(TRUE) EXCEPT !.action = FALSE]>>)>>}

Env(dir, getter, secrets) == [dir |-> dir, getter |-> getter, secrets |-> secrets]

AllEnvironments ==
    {Env(d, "cluster-gateway", {}) :
        d \in {TwoHandlers, TwoClusters({"delete"}), Twice, NoSuchKind} \cup Refused}
    \cup {Env(TwoClusters({}), "cluster-gateway-secret", {}), Env(TwoHandlers, "other", {})}
CronEnvironments == {Env(TwoCrons, "cluster-gateway", {})}

AllControllers == {<<"pods", "local", 1>>, <<"pods", "local", 2>>, <<"pods", "far", 2>>,
                   <<"nodes", "local", 1>>}

Nearby == [o \in Objects |-> <<"pods", "local">>]
=============================================================================
