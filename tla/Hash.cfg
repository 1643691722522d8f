\* The last nonces before the noted one and some behind it.
CONSTANTS
  Header <- MCHeader
  FirstNonce = 11535906
  LastNonce = 11535910
SPECIFICATION Spec
INVARIANT KnownAnswer
INVARIANT ReferenceAgrees
PROPERTY MixingCanBeUndone
\* The search ends.
CHECK_DEADLOCK FALSE
