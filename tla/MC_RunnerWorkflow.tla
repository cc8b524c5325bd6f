------------------------- MODULE MC_RunnerWorkflow -------------------------
EXTENDS RunnerWorkflow

\* Two users stand for the three of run_multi_user_example: enough for one
\* POST to fail while another succeeds.
MCUsers == <<"alice", "bob">>

\* A server error, a 202 without an id and a 202 whose body is not JSON.
MCJobFaults == {EmptyAnswer(500), Answer(202, NoValue), BadAnswer(202)}

\* The configuration as _get_default_config builds it (no config file).
DefaultConfig ==
  [setupOn |-> TRUE, verifyOn |-> TRUE, testOn |-> TRUE, integ |-> TRUE,
   e2e |-> TRUE, examplesOn |-> TRUE, createWs |-> TRUE,
   comprehensive |-> TRUE, multiUser |-> FALSE, devMode |-> FALSE,
   diagOn |-> TRUE, export |-> FALSE, cleanupOn |-> FALSE,
   removeWs |-> TRUE, hasLogging |-> TRUE]

\* The default configuration, a file that turns on the multi-user example
\* and cleanup and uses the basic example, the default in dev mode, and a
\* file without a "logging" section.
MCConfigs ==
  { DefaultConfig,
    [DefaultConfig EXCEPT !.comprehensive = FALSE, !.multiUser = TRUE,
                          !.cleanupOn = TRUE, !.export = TRUE],
    [DefaultConfig EXCEPT !.devMode = TRUE, !.multiUser = TRUE],
    [DefaultConfig EXCEPT !.hasLogging = FALSE, !.testOn = FALSE,
                          !.examplesOn = FALSE, !.diagOn = FALSE,
                          !.setupOn = FALSE, !.verifyOn = FALSE] }

=============================================================================
