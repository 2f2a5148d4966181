SPECIFICATION LockedSpec
CONSTANTS
  t1 = t1
  t2 = t2
  k1 = k1
  k2 = k2
  None = None
  Runs = {r1, r2}
  Targets = {t1}
  Packages = {k1, k2}
  PackageOf <- Together
  Selections <- Every
  Skipping = {}
  Mutants = {m1}
  Catalogs = {c1}
PROPERTIES
  OnlyChangeDiscards
CHECK_DEADLOCK FALSE
