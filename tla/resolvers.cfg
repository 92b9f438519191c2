SPECIFICATION Spec
CONSTANTS
  g1 = g1
  g2 = g2
  mu = mu
  Callers = {g1, g2}
  Nobody = mu
  Caches = {"method", "field"}
  Keys <- AllKeys
  CacheOf <- KeyCache
  Created <- FoundFor
  Declared <- DeclaredTypes
  BadTags = {}
  Bare <- BareNames
  CastName <- CastNames
  SameField <- Fields
  Unmarshalers <- Tokens
  MaxInt32 = 3
  MaxExact = 4
  Requests <- RequestsAsked
  Values <- MetValues
  TypeNames = {"Cat", "Dog"}
  Parents <- ParentTypes
  ListBefore <- MCBefore
  ListAfter <- MCAfter
  Before <- ResolveBefore
  After <- ResolveAfter
  Metadata <- MetadataResolver
  Method <- MethodResolver
  Field <- FieldResolver
  Map <- MapResolver
  NamesType <- AsksTypeName
  Result <- RunResolution
  Dereferenced <- Dereference
  CastsTo <- CanCast
  MaxAsked = 2
INVARIANTS
  AnsweredAsAlone
  ResolvedAsInGo
  PackedAsGiven
PROPERTIES
  CachedStays
