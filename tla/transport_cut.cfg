SPECIFICATION Spec
CONSTANTS
  vault = vault
  small = small
  query = query
  Parents = {vault, small, query}
  Pages <- MCPages
  Empty <- MCEmpty
  Graph = {query}
  Endless = {query}
  Workers = 2
  MAX_ATTEMPTS = 2
INVARIANT
  UnreachableIsSkipped
CHECK_DEADLOCK FALSE
