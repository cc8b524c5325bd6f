--------------------------- MODULE MC_RunnerWait ---------------------------
EXTENDS RunnerWait

\* The service may also answer with a server error, a rejected token, an
\* empty 200 or a 200 whose body is not JSON.
MCFaultResponses ==
  {EmptyAnswer(500), EmptyAnswer(401), EmptyAnswer(200), BadAnswer(200)}

=============================================================================
