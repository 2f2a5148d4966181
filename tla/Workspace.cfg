SPECIFICATION BothSpec
CONSTANTS
  Nobody = Nobody
  Callers = {c1, c2, c3}
  Sources = {src}
  Assets = {asset}
  Extras = {extra}
  KeepTemp = {TRUE, FALSE}
  Stubborn = {"snapshot", "scratch", "session", "probe"}
SYMMETRY CallerSymmetry
INVARIANTS
  SessionBuiltFromManifest
  NoChildSeesInstrumentation
  NothingRemovedUnderACall
  PreparedAtMostOnce
  CloseIsFinal
