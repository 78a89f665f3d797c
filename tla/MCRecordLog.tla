----------------------------- MODULE MCRecordLog -----------------------------
(* RecordLog for TLC.                                                            *)
EXTENDS RecordLog

\* The three loggers with the default options, a log directory that was used before
\* without process ids, and the binary logger as its unit test runs it.
MCOptions ==
  {[type |-> "txt", pidName |-> TRUE, idle |-> TRUE, geteip |-> FALSE, stale |-> FALSE],
   [type |-> "test", pidName |-> FALSE, idle |-> FALSE, geteip |-> TRUE, stale |-> TRUE],
   [type |-> "bin", pidName |-> TRUE, idle |-> FALSE, geteip |-> FALSE, stale |-> FALSE],
   [type |-> "bin", pidName |-> FALSE, idle |-> FALSE, geteip |-> TRUE, stale |-> TRUE],
   [type |-> "bin", pidName |-> TRUE, idle |-> TRUE, geteip |-> FALSE, stale |-> FALSE]}

\* The binary logger in a program without the idle thread.
MCBinOptions ==
  {[type |-> "bin", pidName |-> TRUE, idle |-> FALSE, geteip |-> FALSE, stale |-> FALSE]}

\* No id, the one that is reserved in a record, and the least that does not fit.
MCAppInsids == {0, INVALID_INSID_IN_REC, MAX_INSID}

\* Ids that all fit.
MCSmallInsids == {0}
==============================================================================
