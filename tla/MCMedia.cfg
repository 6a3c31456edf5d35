\* Two handlers, two sensor chunks and an observer's, a queue and a cache too
\* small for all of them, windows that pass, and restarts; frames of a sensor
\* and an observer; words of two kinds in chunks of two segments.
CONSTANTS
  sensor = sensor
  observer = observer
  a1 = a1
  a2 = a2
  b1 = b1
  FrMembers = {sensor, observer}
  Observers = {observer}
  Helpers = {w1}
  Scores = {1, 2}
  Dull = 1
  Times = {0, 1, 3}
  FrMaxQueue = 3
  MaxDepth = 2
  MaxPuts = 4
  Words = {"a", "b"}
  MinOverlap = 2
  MaxOverlap = 3
  DropAfter = 2
  Recent = 3
  MaxWords = 3
  MaxChunk = 2
  Handlers = {h1, h2}
  NoChunk = NoChunk
  Sender <- MCSender
  Priority <- MCPriority
  Chunks = {a1, a2, b1}
  MaxQueue = 2
  MaxCache = 1
  MaxSequence = 3
  MayExpire = TRUE
  MayRestart = TRUE
SPECIFICATION AllSpec
SYMMETRY Symmetry
INVARIANTS Accounted StopDrains 
PROPERTIES OnceInFirstWindow KeepsTheBest
CHECK_DEADLOCK FALSE
