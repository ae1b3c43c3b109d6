CONSTANTS
  Files = {"a", "b"}
  Rings = {"ring"}
  Setups <- Working
  N = 2
  MaxWrites = 5
  MaxLines = 2
  Lengths = {0, 1, 2}
  Alphabet = {"-", "+", ".", "0", "1", "7", "9", "a", "b", "x", "k", "i", "SP", "z"}
  MaxText = 4
  Size = 4096
  DescrAlphabet = {":", ",", "=", "a"}
  MaxDescr = 6
  Defs <- SomeDefs
  Arguments <- SomeArguments
  MaxArgs = 3
  ListSize = 2
SPECIFICATION MCSpec
INVARIANTS EveryOutputComplete NeverFails NumberAsWritten DescrLossless VariablesAsGiven
PROPERTIES MergesInputs OverrunIsReal AllFilesWritten
CHECK_DEADLOCK FALSE
