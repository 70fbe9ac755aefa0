SPECIFICATION MCSpec
CONSTANTS
  a = a
  b = b
  Files = {a, b}
  Procs <- MCProcs
  Jobs <- MCJobs
INVARIANTS TypeOK LengthCurrent NoUpdateLost PaddingUnseen
PROPERTIES ImplementsShared EndsOrStuck
CHECK_DEADLOCK FALSE
