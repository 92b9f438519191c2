---------------------------- MODULE MCDocuments ----------------------------
(***************************************************************************)
(* The requests for TLC: every operation of two selections of a pool, with *)
(* every pair of fragments, and texts for what these do not reach.         *)
(***************************************************************************)
EXTENDS Documents

SortedNames2 ==
  <<"A", "B", "Boolean", "E", "F", "FIELD", "FRAGMENT_SPREAD", "G", "H", "ID",
    "INLINE_FRAGMENT", "Int", "N", "P", "Q", "R", "String", "U", "X", "Y", "Z", "__Schema",
    "__Type", "__schema", "__type", "__typename", "a", "b", "c", "directive", "e", "enum", "false",
    "fragment", "i", "id", "if", "implements", "in", "include", "input", "interface", "k", "l",
    "m", "mutation", "n", "name", "null", "o", "of", "on", "p", "query", "scalar", "schema",
    "skip", "subscription", "true", "type", "u", "union", "v", "w", "x", "y", "z", "zz">>

Quoted2 == [q \in {"'s'"} |-> "s"]
NoBlocks == [q \in {} |-> ""]
Vars2 == "b" :> BasicLit("Ident", <<"true">>)

\* What every schema has: some of src/internal/assets/meta.graphql.
MetaText ==
  <<"scalar", "Int", "scalar", "String", "scalar", "Boolean", "scalar", "ID", "directive", "@",
    "skip", "(", "if", ":", "Boolean", "!", ")", "on", "FIELD", "|", "FRAGMENT_SPREAD", "|",
    "INLINE_FRAGMENT", "directive", "@", "include", "(", "if", ":", "Boolean", "!", ")", "on",
    "FIELD", "|", "FRAGMENT_SPREAD", "|", "INLINE_FRAGMENT", "type", "__Schema", "{", "name",
    ":", "String", "}", "type", "__Type", "{", "name", ":", "String", "}">>

\* The schema of the requests.
SchemaText2 ==
  <<"schema", "{", "query", ":", "Q", "}", "type", "Q", "{", "i", "(", "in", ":", "Int", ")",
    ":", "Int", "id", "(", "of", ":", "ID", ")", ":", "Int", "o", "(", "v", ":", "N", "e", ":",
    "E", ")", ":", "Int", "a", ":", "A", "p", ":", "P", "u", ":", "U", "}", "interface", "P",
    "{", "x", ":", "Int", "a", ":", "A", "}", "type", "A", "implements", "P", "{", "x", "(",
    "in", ":", "Int", ")", ":", "Int", "y", ":", "Int", "z", "(", "of", ":", "ID", ")", ":", "Int",
    "a", ":", "A", "}", "type", "B", "implements", "P", "{", "x", ":", "Int", "y", ":", "String", "!", "a", ":",
    "A", "}", "union", "U", "=", "A", "|", "B", "enum", "E", "{", "X", "}", "input", "N", "{",
    "k", ":", "[", "Int", "!", "]", "m", ":", "Int", "!", "}">>

\* The only worlds they make, read once: the constants Meta and W refer to them.
Only(worlds) == CHOOSE w \in worlds : worlds = {w} /\ w.end = "ok"
MetaWorld == Only(Load(World(<<>>, NoTypes), MetaText))
SchemaWorld == Only(Load(World(Meta.h, NewSchema), SchemaText2))
Meta2 == LET w == MetaWorld IN w
Schema2 == LET w == SchemaWorld IN w

\* Selections of the operation, in twos.
Selections2 ==
  {<<"i">>,
   <<"n", ":", "i", "(", "in", ":", "1", ")">>,
   <<"n", ":", "i", "(", "in", ":", "$", "v", ")">>,
   <<"n", ":", "id", "(", "of", ":", "99", ")">>,
   <<"a", "{", "x", "y", "z", "}">>,
   <<"a", "{", "a", "{", "a", "{", "x", "}", "}", "}">>,
   <<"a", "{", ".", ".", ".", "F", "}">>,
   <<"a", "{", ".", ".", ".", "F", "a", "{", "l", ":", "x", "}", "}">>,
   <<"b", ":", "a", "{", "a", "{", ".", ".", ".", "F", "}", "y", "}">>,
   <<"p", "{", "x", ".", ".", ".", "F", "}">>,
   <<"p", "{", "n", ":", "x", ".", ".", ".", "on", "A", "{", "n", ":", "y", "}", "}">>,
   <<"p", "{", "n", ":", "a", "{", "n", ":", "x", "}", ".", ".", ".", "on", "B", "{", "n", ":",
     "y", "}", "}">>,
   <<"u", "{", ".", ".", ".", "F", "__typename", "}">>,
   <<"u", "{", ".", ".", ".", "on", "A", "{", "l", ":", "y", "}", ".", ".", ".", "on", "B",
     "{", "l", ":", "x", "}", "}">>,
   <<".", ".", ".", "G">>,
   <<".", ".", ".", "G", "@", "include", "(", "if", ":", "$", "b", ")">>,
   <<".", ".", ".", "on", "Q", "{", "a", "{", ".", ".", ".", "F", "m", ":", "y", "}", "}">>,
   <<".", ".", ".", "F">>}

FragmentsF ==
  {<<"fragment", "F", "on", "A", "{", "a", "{", "x", "y", "z", "}", "}">>,
   <<"fragment", "F", "on", "A", "{", "x", "l", ":", "y", "}">>,
   <<"fragment", "F", "on", "P", "{", "x", "a", "{", "l", ":", "x", "}", "}">>,
   <<"fragment", "F", "on", "A", "{", "a", "{", "x", ".", ".", ".", "F", "}", "}">>,
   <<"fragment", "F", "on", "Q", "{", "i", "(", "in", ":", "$", "v", ")", ".", ".", ".", "G",
     "}">>}

FragmentsG ==
  {<<"fragment", "G", "on", "Q", "{", "a", "{", ".", ".", ".", "F", "m", ":", "x", "}", "}">>,
   <<"fragment", "G", "on", "Q", "{", "n", ":", "i", "(", "in", ":", "$", "v", ")", "}">>,
   <<"fragment", "G", "on", "Q", "{", ".", ".", ".", "F", "}">>,
   <<"fragment", "G", "on", "Int", "{", "x", "}">>}

\* What the families above do not have.
Special ==
  {<<"{", "a", "i", "}">>,
   <<"{", "i", "a", "{", "x", "l", ":", "z", "(", "of", ":", "99", ")", "}", "n", ":", "i", "}">>,
   <<"query", "Q", "(", "$", "c", ":", "Boolean", "!", ")", "{", "i", "@", "skip", "(", "if",
     ":", "$", "c", ")", "a", "{", "y", "@", "include", "(", "if", ":", "$", "c", ")", "x", "}",
     "}">>,
   <<"{", "a", "{", "x", "@", "skip", "(", "if", ":", "false", ")", "@", "include", "(", "if",
     ":", "false", ")", "y", "}", "n", ":", "i", "@", "include", "(", "if", ":", "true", ")",
     "@", "skip", "(", "if", ":", "true", ")", "}">>,
   <<"query", "Q", "(", "$", "c", ":", "Boolean", "!", ")", "{", "a", "{", "x", ".", ".", ".",
     "F", "@", "skip", "(", "if", ":", "$", "c", ")", "z", "@", "include", "(", "if", ":",
     "false", ")", "}", "}", "fragment", "F", "on", "A", "{", "y", "@", "skip", "(", "if", ":",
     "false", ")", "}">>,
   <<"{", "i", "{", "x", "}", "}">>,
   <<"{", "o", "(", "v", ":", "{", "m", ":", "$", "z", "}", ")", "}">>,
   <<"{", "i", "}", "fragment", "F", "on", "Q", "{", "a", "{", ".", ".", ".", "G", "}", "}",
     "fragment", "G", "on", "A", "{", "a", "{", ".", ".", ".", "G", "}", "}">>,
   <<"{", "a", "{", "a", "{", "a", "{", "a", "{", "x", "}", "}", "}", "}", "}">>,
   <<"{", "a", "{", "a", "{", "a", "{", ".", ".", ".", "F", "}", "}", "}", "}", "fragment",
     "F", "on", "A", "{", "x", "a", "{", "x", "}", "}">>,
   <<"query", "Q", "(", "$", "v", ":", "[", "Int", "]", ")", "{", "i", "(", "in", ":", "$",
     "v", ")", "}">>,
   <<"{", "b", ":", "a", "{", "k", ":", "a", "{", ".", ".", ".", "F", "a", "{", "l", ":", "x",
     "}", "}", ".", ".", ".", "F", "a", "{", "m", ":", "x", "}", "}", "}", "fragment", "F",
     "on", "A", "{", "a", "{", "x", "y", "z", "}", "}">>,
   <<"{", ".", ".", ".", "F", "b", ":", "a", "{", "a", "{", "m", ":", "x", "}", ".", ".", ".",
     "H", "}", "a", "{", "a", "{", "l", ":", "x", "}", "}", "}", "fragment", "F", "on", "Q",
     "{", "a", "{", "a", "{", "x", "}", "}", "}", "fragment", "H", "on", "A", "{", "a", "{",
     "x", "}", "}">>,
   <<"query", "Q", "{", ".", ".", ".", "F", "a", "{", ".", ".", ".", "H", "}", "i", "}",
     "query", "R", "(", "$", "v", ":", "Int", ")", "{", ".", ".", ".", "F", "}", "fragment",
     "F", "on", "Q", "{", "i", ".", ".", ".", "G", "}", "fragment", "G", "on", "Q", "{", "n",
     ":", "i", "(", "in", ":", "$", "v", ")", "}", "fragment", "H", "on", "A", "{", "x", "}">>,
   <<"query", "Q", "{", ".", ".", ".", "F", ".", ".", ".", "on", "Q", "{", ".", ".", ".", "F",
     ".", ".", ".", "G", "}", "}", "query", "R", "(", "$", "v", ":", "Int", ")", "{", ".", ".",
     ".", "G", "}", "fragment", "F", "on", "Q", "{", "i", "}", "fragment", "G", "on", "Q", "{",
     "n", ":", "i", "(", "in", ":", "$", "v", ")", "}">>,
   <<"{", "i", "}", "query", "Q", "{", "i", "}">>,
   <<"query", "Q", "{", "i", "}", "query", "Q", "{", "i", "}">>,
   <<"mutation", "Q", "{", "i", "a", "{", "x", "}", "}">>,
   <<"subscription", "Q", "@", "skip", "(", "if", ":", "true", ")", "{", "i", "}">>,
   <<"query", "Q", "@", "skip", "(", "if", ":", "true", ")">>,
   <<"query", "Q", "(", "$", "v", ":", "Int", ")", "@", "skip", "(", "if", ":", "true", ")",
     "{", "i", "}">>,
   <<"query", "Q", "{", "i">>,
   <<"fragment", "F", "on", "Q">>,
   <<"x", "{", "i", "}">>,
   <<"{", "}">>,
   <<"query", "Q", "(", "$", "v", ":", "Int", "$", "w", ":", "N", "=", "{", "m", ":", "1", "}",
     "$", "b", ":", "Boolean", "!", ")", "{", "o", "(", "v", ":", "{", "k", ":", "[", "1", "$",
     "v", "]", "m", ":", "$", "v", "}", ")", "a", ":", "o", "(", "v", ":", "$", "w", ")", "i",
     "@", "include", "(", "if", ":", "$", "b", ")", "}">>,
   <<"query", "Q", "(", "$", "v", ":", "Int", "!", "=", "1", "$", "v", ":", "A", "$", "x", ":",
     "Z", "$", "e", ":", "E", "=", "Y", ")", "{", "i", "(", "in", ":", "1", "in", ":", "'s'",
     ")", "o", "(", "v", ":", "{", "m", ":", "null", "m", ":", "1", "z", ":", "[", "1", "]",
     "}", "e", ":", "X", ")", "l", ":", "o", "(", "e", ":", "$", "e", ")", "}">>,
   <<"query", "Q", "(", "$", "v", ":", "Int", "=", "1", ")", "{", "o", "(", "v", ":", "{", "k",
     ":", "[", "1", "null", "]", "m", ":", "2", "}", "e", ":", "Y", ")", "m", ":", "o", "(",
     "v", ":", "1", ")", "l", ":", "i", "(", "in", ":", "99", ")", "l", ":", "i", "(", "in",
     ":", "99", ")", "}">>,
   <<"{", "o", "(", "v", ":", "{", "k", ":", "1", "m", ":", "2", "}", "e", ":", "X", ")", "i",
     "@", "skip", "(", "if", ":", "false", ")", "@", "include", "(", "if", ":", "false", ")",
     "n", ":", "i", "@", "include", "(", "if", ":", "true", ")", "@", "skip", "(", "if", ":",
     "true", ")", "}">>,
   <<"{", "i", "@", "skip", "i", "(", "in", ":", "-", "1", ")", "@", "k", "@", "skip", "(",
     "if", ":", "true", "if", ":", "false", ")", "zz", "a", "{", "}", "p", "{", "__typename",
     ".", ".", ".", "on", "Int", "{", "x", "}", "}", "}">>,
   <<"{", "i", "(", "in", ":", "$", "b", ")", "n", ":", "i", "(", "in", ":", "null", ")", "l",
     ":", "i", "}">>,
   <<"{", "u", "{", ".", ".", ".", "on", "A", "{", "x", "}", ".", ".", ".", "on", "B", "{",
     "x", "}", "}", "a", "{", ".", ".", ".", "on", "P", "{", "x", ".", ".", ".", "on", "B",
     "{", "y", "}", "}", ".", ".", ".", "on", "Z", "{", "x", "}", "}", "}">>,
   <<"{", "a", "{", ".", ".", ".", "F", "}", "p", "{", ".", ".", ".", "F", "}", "}",
     "fragment", "F", "on", "A", "@", "skip", "(", "if", ":", "true", ")", "{", "n", ":", "x",
     "l", ":", "a", "{", "y", "}", "}">>,
   <<"{", ".", ".", ".", "F", ".", ".", ".", "F", "i", "}", "fragment", "F", "on", "Z", "{",
     "i", "}", "fragment", "F", "on", "Q", "{", "i", "}">>,
   <<"query", "Q", "(", "$", "b", ":", "Boolean", "=", "true", ")", "{", "u", "{", ".", ".",
     ".", "on", "A", "@", "include", "(", "if", ":", "$", "b", ")", "{", "y", "}", ".", ".",
     ".", "on", "B", "{", "n", ":", "y", "}", "}", "__schema", "{", "name", "}", "__type", "(",
     "name", ":", "'s'", ")", "{", "name", "}", "}">>,
   <<"{", ".", ".", ".", "F", "}", "fragment", "F", "on", "Q", "{", ".", ".", ".", "on", "Q",
     "{", ".", ".", ".", "F", "}", "}">>,
   <<"{", ".", ".", ".", "F", "}", "fragment", "F", "on", "Q", "{", "a", "{", ".", ".", ".",
     "G", "}", "}", "fragment", "G", "on", "A", "{", "a", "{", ".", ".", ".", "G", "}", "}">>}

Mentions(ts, a, b) == \E k \in 2 .. Len(ts) : ts[k - 1] = a /\ ts[k] = b

\* The variables that a text uses.
Variables2(ts) ==
  LET v == IF Mentions(ts, "$", "v") THEN <<"$", "v", ":", "Int", "=", "1">> ELSE <<>>
      b == IF Mentions(ts, "$", "b") THEN <<"$", "b", ":", "Boolean", "!">> ELSE <<>>
  IN IF v \o b = <<>> THEN <<>> ELSE <<"(">> \o v \o b \o <<")">>

\* Two selections, and the fragments that are spread.
Family ==
  LET bodies == {<<"{">> \o s \o t \o <<"}">> \o f \o g :
                   s \in Selections2, t \in Selections2,
                   f \in FragmentsF \union {<<>>}, g \in FragmentsG \union {<<>>}}
      Complete(ts) == \A n \in {"F", "G"} : Mentions(ts, ".", n) <=> Mentions(ts, "fragment", n)
  IN {<<"query", "Q">> \o Variables2(ts) \o ts : ts \in {b \in bodies : Complete(b)}}

AllRequests ==
  {[query |-> q, operation |-> n] : q \in Special, n \in {"", "Q"}}
    \union {[query |-> q, operation |-> ""] : q \in Family}
=============================================================================
