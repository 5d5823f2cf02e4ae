CONSTANTS
  d1 = d1
  d2 = d2
  d3 = d3
  s1 = s1
  s2 = s2
  DefaultKey = DefaultKey
  NoBlob = NoBlob
  Outputs = {"o1", "o2"}
  Inputs = {"a", "b", "c", "d", "e"}
  Deps <- MC_Deps
  Mapping <- MC_Mapping
  Sessions <- MC_TwoSessions
SPECIFICATION Spec
INVARIANT ReadyImpliesInputs
