SPECIFICATION Spec
CONSTANTS
  Alphabet <- SortedNames
  Strings <- QuotedTexts
  Blocks <- BlockTexts
  Ints = {"1", "2", "3"}
  WideInts = {"99"}
  Floats = {"1.5"}
  Meta <- Meta1
  MetaReading <- MetaReading1
  Reading <- Readings
  Renamings <- NewNames
  MaxTexts = 3
INVARIANTS
  SchemaInv
  ResolvedIsComplete
  PartsAndWhole
  TextRoundTrip
  VisitorSeesDefaults
  AddedTypeIsComplete
  IntrospectionRoundTrip
CHECK_DEADLOCK FALSE
