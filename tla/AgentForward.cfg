SPECIFICATION Spec
CONSTANTS
  MaxPrograms = 2
  MaxChannels = 2
  MaxRequests <- MCMaxRequests
\* Programs and channels are finitely many, and everything may have closed.
CHECK_DEADLOCK FALSE
INVARIANTS TypeOK AnswersExact RequestsExact NewestServes NoStreamLeaked NoAgentStreamLeaked NoRequestStranded
