SPECIFICATION Spec
CONSTANTS
  Plain = {d}
  Metadata = {m1}
  Handle = {h}
  Cap = 2
  MaxTime = 3
INVARIANT LogIsCurrent
