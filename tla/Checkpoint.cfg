SPECIFICATION EachSpec
CONSTANTS
  t1 = t1
  t2 = t2
  k1 = k1
  k2 = k2
  None = None
  Runs = {r1, r2, r3}
  Targets = {t1, t2}
  Packages = {k1}
  PackageOf <- Together
  Selections <- AnyOfThem
  Skipping = {t2}
  Mutants = {m1}
  Catalogs = {c1, c2}
SYMMETRY Symmetric
INVARIANTS
  JournalIsKept ReuseIsSound
CHECK_DEADLOCK FALSE
