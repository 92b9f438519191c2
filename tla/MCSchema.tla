------------------------------ MODULE MCSchema ------------------------------
(***************************************************************************)
(* A catalogue of texts for TLC: types that refer to each other and are    *)
(* declared apart, and each way in which a later text meets them.          *)
(***************************************************************************)
EXTENDS Introspection

SortedNames ==
  <<"A", "B", "E", "ENUM", "ENUM_VALUE", "FIELD_DEFINITION", "I", "Int", "J", "N",
    "OBJECT", "R", "S", "String", "U", "X", "Y", "__Schema", "a", "alter", "b", "c",
    "deep", "deprecated", "directive", "e", "enum", "graphql", "if", "implements",
    "in", "input", "interface", "k", "last", "m", "more", "mutation", "n", "name",
    "on", "p", "q", "query", "reason", "scalar", "schema", "subscription", "type",
    "union", "x", "z">>

QuotedTexts ==
  [q \in {"'gone'", "'old'", "'d'", "'e'", "'v'", "'s'", "'d+e'", "'d+e+e'", "'e+e'", "'e+e+e'",
          "'add'", "'drop'", "'missing'", "'rename'"} |->
     CASE q = "'gone'" -> "gone" [] q = "'old'" -> "old" [] q = "'d'" -> "d" [] q = "'e'" -> "e"
       [] q = "'v'" -> "v" [] q = "'s'" -> "s" [] q = "'d+e'" -> "d\ne" [] q = "'d+e+e'" -> "d\ne\ne"
       [] q = "'e+e'" -> "e\ne" [] q = "'e+e+e'" -> "e\ne\ne" [] q = "'add'" -> "add"
       [] q = "'drop'" -> "drop" [] q = "'missing'" -> "missing" [] q = "'rename'" -> "rename"]

BlockTexts == [b \in {"\"\"\"b\"\"\""} |-> "b"]

\* What every schema has: some of src/internal/assets/meta.graphql.
MetaText ==
  <<"scalar", "Int", "scalar", "String", "directive", "@", "deprecated", "(", "reason",
    ":", "String", "=", "'gone'", ")", "on", "FIELD_DEFINITION", "|", "ENUM_VALUE",
    "type", "__Schema", "{", "name", ":", "String", "}">>

\* Entry points and a directive, one of whose arguments has no default.
Roots ==
  <<"schema", "@", "k", "{", "query", ":", "A", "mutation", ":", "B", "}", "directive",
    "@", "k", "(", "n", ":", "Int", "m", ":", "Int", "=", "1", ")", "on", "OBJECT",
    "|", "FIELD_DEFINITION", "|", "ENUM">>

\* An interface and an object that implements it and refers to a type that comes later.
Character ==
  <<"interface", "I", "{", "x", ":", "String", "}", "'d'", "type", "A", "implements",
    "I", "@", "k", "(", "n", ":", "-", "1", ")", "{", "x", ":", "String", "b", "(",
    "last", ":", "Int", "=", "1", "in", ":", "N", "=", "{", "q", ":", "[", "1", "]",
    "p", ":", "2", "}", ")", ":", "[", "B", "!", "]", "!", "@", "deprecated", "}">>

\* The types the object refers to.
Others ==
  <<"type", "B", "{", "a", ":", "A", "e", ":", "E", "@", "k", "(", "n", ":", "3", ")",
    "}", "enum", "E", "@", "k", "{", "'v'", "Y", "X", "@", "deprecated", "(", "reason",
    ":", "'old'", ")", "}", "input", "N", "{", "p", ":", "Int", "=", "1", "@", "k",
    "q", ":", "[", "Int", "]", "}">>

\* A union of the two objects, and an interface.
Unions ==
  <<"union", "U", "=", "B", "|", "A", "'s'", "scalar", "S", "interface", "J", "{", "z",
    ":", "S", "}">>

\* An interface and a field are added, with a directive that leaves an argument out.
AddToA ==
  <<"'e'", "type", "A", "implements", "J", "@", "graphql", "(", "alter", ":", "'add'",
    ")", "{", "c", "(", "in", ":", "[", "[", "N", "!", "]", "]", ")", ":", "U", "@",
    "k", "}">>

\* A field and the interface are taken away.
DropFromA ==
  <<"type", "A", "implements", "I", "@", "graphql", "(", "alter", ":", "'drop'", ")",
    "{", "b", ":", "Int", "}">>

\* An interface that is none: the object is left with a nil interface.
AddScalarToA ==
  <<"type", "A", "implements", "S", "@", "graphql", "(", "alter", ":", "'add'", ")", "{", "}">>

\* A type for the case that there is none of its name.
MissingB ==
  <<"type", "B", "@", "graphql", "(", "if", ":", "'missing'", ")", "{", "z", ":", "S",
    "}">>

\* A type that replaces the one before.
RedeclaredB ==
  <<"type", "B", "{", "a", ":", "A", "}">>

\* A built-in type is altered.
AddToMeta ==
  <<"type", "__Schema", "@", "graphql", "(", "alter", ":", "'add'", ")", "{", "more",
    ":", "String", "}">>

\* A type with one list more than the introspection query follows.
DeepB ==
  <<"type", "B", "@", "graphql", "(", "alter", ":", "'add'", ")", "{", "deep", ":",
    "[", "[", "[", "[", "[", "[", "[", "[", "Int", "]", "]", "]", "]", "]", "]", "]",
    "]", "}">>

\* A syntax error after two entry points.
BadSchema ==
  <<"scalar", "S", "schema", "{", "query", ":", "A", "subscription", ":", "B",
    "mutation", "}">>

\* A syntax error in the directives: those of before stay.
CutSchema ==
  <<"scalar", "S", "schema", "@", "k", "@", "{", "query", ":", "A", "}">>

\* A union of a type that is no object.
WrongKind ==
  <<"union", "U", "=", "A", "|", "I">>

\* A mode of @graphql that there is not.
BadMode ==
  <<"scalar", "S", "type", "A", "@", "graphql", "(", "alter", ":", "'rename'", ")",
    "{", "b", ":", "Int", "}">>

\* The only world it makes, read once: the constant Meta refers to it.
Only(worlds) == CHOOSE w \in worlds : worlds = {w} /\ w.end = "ok"
MetaWorld == Only(Load(World(<<>>, NoTypes), MetaText))
Meta1 == LET w == MetaWorld IN w
MetaReading1 == Declarations(MetaText)

\* All of them, in one text.
Whole == Unions \o Others \o Character \o Roots

AllTexts == {Whole, DeepB, Roots, Character, Others, Unions, AddToA, AddScalarToA, DropFromA, MissingB,
             RedeclaredB, AddToMeta, BadSchema, CutSchema, WrongKind, BadMode}

Readings == [text \in AllTexts |-> Declarations(text)]

NewNames == {"A" :> "R", "A" :> "R" @@ "B" :> "R"}
=============================================================================
