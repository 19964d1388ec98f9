SPECIFICATION Spec
CONSTANTS
  Providers = {default, p1, p2}
  DefaultProvider = default
  Owners = {o1, o2}
  Blocks = {b1, b2}
  Null = null
  Uses = {"transfer"}
INVARIANT
  PairedDeallocation
