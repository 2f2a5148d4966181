SPECIFICATION FairSpec
CONSTANTS
  Nobody = Nobody
  Callers = {c1, c2}
  Sources = {src}
  Assets = {}
  Extras = {}
  KeepTemp = {TRUE, FALSE}
  Stubborn = {"snapshot"}
PROPERTIES
  CallsReturn
