\* Two jobs, damaged texts, and nonces at the edges of the offset.
CONSTANTS
  Jobs <- MCJobs
  Roots <- MCRoots
  Times <- MCTimes
  Finds <- MCFinds
  StartNonce <- MCStartNonce
  Unset = 170
SPECIFICATION Spec
INVARIANT TypeOK
INVARIANT HashedAsMeant
INVARIANT OnlyThreeNoncesAreWithheld
INVARIANT EndsOnlyOnBadText
\* Text that is not hexadecimal ends the process.
CHECK_DEADLOCK FALSE
