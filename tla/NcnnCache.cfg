SPECIFICATION CacheSpec
CONSTANTS
  p1 = p1
  p2 = p2
  Loaders <- TwoLoaders
  MaxVersion = 2
  MaxTime = 2
SYMMETRY LoaderSymmetry
INVARIANTS CacheTypeOK TrustedCacheIsCurrent GraphIsOfOneVersion DamageIsRepaired
