CONSTANTS
  Idents = {"main", "x", "y", "z", "u", "f", "yield"}
  Literals = {0, 1, 2, 3, 5, 7, 63, 64}
  WORD = 8
  Sources <- MCSources
  AVAILABLE_REGISTERS = {"r4", "r5", "r6", "r7", "r8", "r9", "r10", "r11"}
  Orders <- MCOrders
  Results = {0}
  Junk = 77
  Rounds = 12
  Alphabet = {"x", "y", "=", "(", ")", ";", "{", "}", "int"}
  MaxBody = 4
SPECIFICATION Spec
INVARIANT FrontEndRight
PROPERTY CompiledMeansSource
