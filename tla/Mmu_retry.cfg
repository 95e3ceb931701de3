SPECIFICATION Spec
CONSTANTS
  Page = {p, q}
  NoPage = NoPage
  MaxDepth = 4
INVARIANT RetryHits
