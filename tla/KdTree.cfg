SPECIFICATION LookedFor
INVARIANT NearestIsFound
