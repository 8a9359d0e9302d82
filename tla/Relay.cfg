CONSTANTS
  Tx = {1, 2, 3}
  Peer = {mute, quick}
  Responsive = {quick}
  Case <- MCCase
  Retry = 1
  MaxAsked = 3
SPECIFICATION Spec
CHECK_DEADLOCK FALSE
INVARIANTS
  OrphanMapsAgree
  NothingStranded
PROPERTIES
  FetchedInTheEnd
