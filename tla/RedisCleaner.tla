---------------------------- MODULE RedisCleaner ----------------------------
(***************************************************************************)
(* The Redis cleaner daemon (redis_cleaner.py): it goes through snapshots  *)
(* of the hostnames with an error and of those with an attempt number, and *)
(* deletes the keys of those that nothing happened to for long enough.     *)
(* Time is left to chance.                                                 *)
(***************************************************************************)
EXTENDS WorkerState

VARIABLE cleanerListed  \* hostnames of the snapshot still to look at

CleanerTypeOK == cleanerListed \subseteq Hostnames

CleanerInit == cleanerListed = {}

\* Either of the two loops of run_single_iteration.
CleanerStart ==
  /\ cleanerListed = {}
  /\ cleanerListed' \in {hostnameError, {h \in Hostnames : errorAttempt[h] > 0}}
  /\ UNCHANGED stateVars

\* is_worker_available, for a hostname that failed: its result makes no
\* difference once the longer of the two times is over.
LookUpHostnames(w) == \E config \in ConfigById(w) : CacheConfig(w, config)

\* Long enough or not.  By now the hostname may have become available, or be
\* throttled: its error then stays, and its other keys do not.  The worker keys
\* are deleted by the worker's id in bytes, which no worker has.
CleanHostname(h) ==
  /\ h \in cleanerListed
  /\ cleanerListed' = cleanerListed \ {h}
  /\ \/ UNCHANGED volumeConfig
     \/ h \in hostnameError \ throttled /\ LookUpHostnames(WorkerOf[h])
  /\ \/ /\ DelHostnameKeys({h}, hostnameError, errorAttempt, TRUE, TRUE)
        /\ cachedWorkerId' = cachedWorkerId \ {h}
     \/ UNCHANGED <<initialize, available, hostnameError, errorAttempt, cachedWorkerId>>
  /\ UNCHANGED <<throttled, flowKeys, orderKeys, forceDeleteData, cluster>>

CleanerCrash ==
  /\ cleanerListed # {}
  /\ cleanerListed' = {}
  /\ UNCHANGED stateVars
=============================================================================
