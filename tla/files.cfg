SPECIFICATION Spec
CONSTANTS
  c1 = c1
  c2 = c2
  c3 = c3
  c4 = c4
  Missing = Missing
  Directory = Directory
  Calls = {c1, c2, c3, c4}
  Symbols = {"a", "b", "c", "z", "lf", "crlf", "bad", "replacement"}
  Tool <- EditsAndWrite
  Starts <- AnyStart
  Overlap = FALSE
  Mortal = {c1, c3}
INVARIANTS
  TypeOK
PROPERTIES
  CallsExact
