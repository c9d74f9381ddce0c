SPECIFICATION ClassesSpec
CONSTANTS
  Objs = {"x", "y"}
  Functions = {"f", "g"}
  Pure = {"g"}
  Overridden <- Overrides
  Size = 2
  Threads = {t1, t2}
  MaxDepth = 2
  Handles = {a, b, c}
  CppTypes = {"A", "B", "E"}
  Enums = {"E"}
  Base <- Bases
  Flags <- Asked
  Libs = {m1, m2}
  Importers = {i1, i2}
  MaxClasses = 3
SYMMETRY Alike
INVARIANTS OverridesCalled DestroyedOnce TypesRegistered
CHECK_DEADLOCK FALSE
