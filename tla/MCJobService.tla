---------------------------- MODULE MCJobService ----------------------------
(* JobService on small instances: jobs are numbered by submission, workers  *)
(* and request threads are model values and interchangeable.                *)
EXTENDS JobService, TLC

CONSTANTS w1, w2, h1, h2

OneWorker == {w1}
TwoWorkers == {w1, w2}
OneHandler == {h1}
TwoHandlers == {h1, h2}
OneJob == {1}
TwoJobs == {1, 2}
AsyncOnly == {TRUE}
AsyncAndSync == {TRUE, FALSE}

Threads == Permutations(Workers) \cup Permutations(Handlers)
=============================================================================
