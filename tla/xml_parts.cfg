SPECIFICATION MCSpec
CONSTANTS
  Element = {e1, e2}
  Attr = {a1, a2, a3}
  Text = {"", "p", "q"}
  Empty = ""
  NULL = NULL
  Str = {s, t}
  Buffer = {b1, b2, b3}
  nullrep = nullrep
  Char = {"a", "b", "x"}
  Literal <- MCLiteral
  Offset = {0, 1}
  Room = {28}
  Garbage = "x"
  MaxLength = 4
SYMMETRY MCSymmetry
CHECK_DEADLOCK FALSE
INVARIANTS
  IInv
  LookupsAgree
  BuffersOwned
PROPERTIES
  ListsImplementContract
  ImplementsContract
