SPECIFICATION EngineSpec
CONSTANTS
  m1 = m1
  m2 = m2
  m3 = m3
  h1 = h1
  h2 = h2
  h3 = h3
  h4 = h4
  Models <- ThreeModels
  NoModel = NoModel
  Handles <- FourHandles
  NoHandle = NoHandle
  Preferences <- SomePreferences
SYMMETRY Symmetry
CHECK_DEADLOCK FALSE
INVARIANTS EngineTypeOK EngineIsFirstUsable LeftInstanceIsExplained
INVARIANTS GpuTypeOK ServingGraphHasInstance NeverFailedServesPrimary CleanExitUnlessFailed
INVARIANTS MnnTypeOK NoDanglingHandle OneGraphUnlessFailed
PROPERTIES ImplementsFallbackBackend ReleaseOrderUnlessFailed MnnImplementsFallbackBackend
