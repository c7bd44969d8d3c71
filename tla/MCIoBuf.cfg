SPECIFICATION Spec
CONSTANTS
  Byte = {0, 1}
  Zero = 0
  PrependSize = 1
  InitSize = 3
  ExtSize = 2
  MaxLen = 3
  MaxSize = 7
INVARIANTS TypeOK AssertsHold
PROPERTIES ImplementsByteQueue
