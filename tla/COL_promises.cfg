SPECIFICATION Either
CONSTANTS
  Junk = "junk"
  Null = Null
  InitialCapacity = 1
  InitialStackCapacity = 1
  InitialBufferCapacity = 1
  MaxNumberDigits = 2
  NBuckets = 2
  hashCode <- MCHash
  WordBits = 2
  NWords = 2
  Orders = {"natural", "folded"}
  Rank <- MCRank
  Values = {"x", "y"}
  MapValues <- MCMapValues
  Keys = {1, 2, 3}
  Characters <- MCCharacters
  Conversions <- MCConversions
  Arrays <- MCArrays
  MaxCount = 3
  Priorities = {0, 1}
  InitialHeapCapacity = 2
  PQCalls = {"enqueue", "dequeue", "peek", "peekPriority", "clear", "clone"}
  MaxSequence = 5
INVARIANTS TypeOK HeapOrder BackInUse
PROPERTIES KeepsPromises ServesInOrder
VIEW MCView
CHECK_DEADLOCK FALSE
