\* Three slots and one pointer more than fits, so that the ring wraps, fills
\* and drops; vectors up to four ask for more than is there.
SPECIFICATION Spec
CONSTANTS
  Pointers = {p1, p2, p3, p4}
  NULL = NULL
  end = 3
  MaxVector = 4
SYMMETRY Symmetry
INVARIANTS
  OwnsItsEntries
PROPERTIES
  ImplementsFifo
