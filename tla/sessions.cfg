SPECIFICATION Spec
CONSTANTS
  Calls = {c1, c2}
  MaxRedirects = 1
  MaxChunks = 3
  MaxSize = 4
  MaxNow = 2
  MaxAge = 1
  Lifetime = 2
CHECK_DEADLOCK FALSE
SYMMETRY Symmetry
INVARIANTS EndedStaysEnded JarIsOneSession
