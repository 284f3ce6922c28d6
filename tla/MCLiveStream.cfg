SPECIFICATION MCSpec
CONSTANTS
  d1 = d1
  d2 = d2
  d3 = d3
  None = None
  Detail <- MCDetail
  Signature <- MCSignature
  Filters <- MCFilters
  Backlog = 1
  WireCap = 1
  MaxSeq = 2
  MaxBreaks = 2
INVARIANTS CountersCurrent DetailsFollow
PROPERTIES FeedSpec Repaired
