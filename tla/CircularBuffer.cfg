SPECIFICATION Spec
CONSTANTS
  Byte = {0, 1}
  Zero = 0
  Capacity = 6
  MaxWrite = 3
INVARIANTS
  TypeOK
  RegionsApart
PROPERTIES
  ImplementsFifo
  StoredBytesStay
