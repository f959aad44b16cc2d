\* Two workers and one main thread: every interleaving of posts, cancellations,
\* scans and completions of four requests, one of them without a solution, under
\* the fairness of the threads.
CONSTANTS
  Workers = {w1, w2}
  MaxRequests = 4
  SemaphoreMax = 4
  Unsolvable = {1}
SPECIFICATION FairSpec
INVARIANTS NoUseAfterDelete NoLostWakeup
PROPERTIES AnsweredOnceOrWithdrawn EveryRequestAnswered
