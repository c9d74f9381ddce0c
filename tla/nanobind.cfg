SPECIFICATION NbSpec
CONSTANTS
  Threads = {"t1", "t2", "t3"}
  MaxRefs = 3
  Insts = {i1, i2}
  Addrs = {"a1", "a2"}
  CppAddrs = {"a1"}
  Made = {"Sub", "Whole"}
  Constructible = {"Whole"}
  MaxHeld = 1
  MaxKept = 1
  Arrays = {"a"}
  Copies = {"c"}
  Owners = {"w"}
  Selves = {"x"}
  Handles = {"h1", "h2"}
  Tensors = {"t1", "t2"}
  MaxUses = 3
  Offers <- ArrayOffers
  Values = {"v1", "v2", "v3"}
  Slots = {"p", "q"}
  Exceptions = {"custom", "derived", "std", "foreign"}
  Translators = {"t1", "t2"}
  Catches <- ErrorCatches
  Buffer = 2
  MaxLength = 3
SYMMETRY Interchangeable
INVARIANTS
  Counted
  CallsDispatched
  ArraysShared
  InstancesOwned
  KeysFound
  ContainersKept
  ErrorsArrive
  ValuesKept
CHECK_DEADLOCK FALSE
