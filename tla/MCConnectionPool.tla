-------------------------- MODULE MCConnectionPool --------------------------
(* Small instances of ConnectionPool for TLC, without what no action reads. *)
EXTENDS ConnectionPool

WithoutHistory ==
    <<taskVars, registryVars, metricVars, channelVars, adminVars, crashes,
      users, userSeq, messages, messageSeq, rowLocks, holders>>
=============================================================================
