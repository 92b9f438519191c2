----------------------------- MODULE SyntaxTree -----------------------------
(* What texts are read into: names and lists of named things, literals, type *)
(* references, the types of a schema and its directives.                    *)
EXTENDS Integers, FiniteSets, SequencesExt

CONSTANTS
  Alphabet,   \* every name of the texts, in the order sort.Slice gives them
  Strings,    \* a quoted token -> the text that strconv.Unquote makes of it
  Blocks      \* a block string token -> its text

ASSUME AlphabetAssumption == Alphabet \in Seq(ToSet(Alphabet))

NoDescription == [show |-> "No", text |-> ""]

-----------------------------------------------------------------------------
(* Maps, which a program assigns to key by key. *)

Put(map, key, value) ==
  [k \in DOMAIN map \union {key} |-> IF k = key THEN value ELSE map[k]]

Over(new, map) ==
  [k \in DOMAIN new \union DOMAIN map |-> IF k \in DOMAIN new THEN new[k] ELSE map[k]]

-----------------------------------------------------------------------------
(* Lists of named things: the first one of a name counts, sort.Slice orders *)
(* them by name and leaves those of one name as they were.                  *)

IsList(s) == s \in Seq(ToSet(s))

Ranks == [n \in ToSet(Alphabet) |-> CHOOSE i \in DOMAIN Alphabet : Alphabet[i] = n]

Rank(n) == IF n \in DOMAIN Ranks THEN Ranks[n] ELSE 0

(* The members of a finite set in an order, a set of pairs.                 *)
Before(S, order, x) == {y \in S : <<y, x>> \in order}

Listed(S, order) ==
  [k \in 1 .. Cardinality(S) |-> CHOOSE x \in S : Cardinality(Before(S, order, x)) = k - 1]

(* The elements of s at the positions of I.                                 *)
Kept(s, I) ==
  LET kept == Listed(I, {p \in I \X I : p[1] < p[2]})
  IN [k \in DOMAIN kept |-> s[kept[k]]]

Sorted(s, rank) ==
  LET D     == DOMAIN s
      order == {p \in D \X D : \/ rank[p[1]] < rank[p[2]]
                               \/ (rank[p[1]] = rank[p[2]] /\ p[1] < p[2])}
  IN [k \in D |-> s[Listed(D, order)[k]]]

SortByName(s) == Sorted(s, [i \in DOMAIN s |-> Rank(s[i].name)])

SortNames(s) == Sorted(s, [i \in DOMAIN s |-> Rank(s[i])])

Names(s) == {x.name : x \in ToSet(s)}

Has(s, n) == \E i \in DOMAIN s : s[i].name = n

Get(s, n) == s[CHOOSE i \in DOMAIN s : s[i].name = n /\ \A j \in 1 .. i - 1 : s[j].name # n]

-----------------------------------------------------------------------------
(* Literals. *)

Lit(lit, kind, text, es) == [lit |-> lit, kind |-> kind, text |-> text, es |-> es]
NoLit   == Lit("None", "", <<>>, <<>>)
NullLit == Lit("Null", "", <<>>, <<>>)
BasicLit(kind, text) == Lit("Basic", kind, text, <<>>)
Variable(n) == Lit("Variable", "", <<n>>, <<>>)

\* The literal evaluates to a text, quoted or not.
Says(l, text) ==
  /\ l.lit = "Basic"
  /\ \/ l.kind = "String" /\ Strings[l.text[1]] = text
     \/ l.kind = "BlockString" /\ Blocks[l.text[1]] = text
     \/ l.kind = "Ident" /\ l.text = <<text>>

SortDirectives(ds) ==
  SortByName([i \in DOMAIN ds |-> [ds[i] EXCEPT !.args = SortByName(@)]])

-----------------------------------------------------------------------------
(* Type references: the List and NonNull wrappers, outermost first, a name, *)
(* and the address of the type it was resolved to, 0 before that.           *)

TypeName(n) == [wrap |-> <<>>, name |-> n, to |-> 0]
Wrapped(w, t) == [t EXCEPT !.wrap = <<w>> \o @]
OfType(t)     == [t EXCEPT !.wrap = Tail(@)]
IsWrapped(t, w) == t.wrap # <<>> /\ Head(t.wrap) = w

-----------------------------------------------------------------------------
(* The types of a schema. *)

Kinds == {"SCALAR", "OBJECT", "INTERFACE", "UNION", "ENUM", "INPUT_OBJECT"}

(* A type of any kind.  items are the fields of an object, interface or     *)
(* input object and the values of an enum; names are the InterfaceNames of  *)
(* an object and the TypeNames of a union; interfaces (of an object) and    *)
(* possible (of an interface or a union) are addresses of other types.      *)
NamedType(kind, name, dirs, items, names) ==
  [kind |-> kind, name |-> name, desc |-> NoDescription, dirs |-> dirs,
   items |-> items, names |-> names, interfaces |-> <<>>, possible |-> <<>>]

DirectiveDecl(name, args, locs) ==
  [name |-> name, desc |-> NoDescription, locs |-> locs, args |-> args]
=============================================================================
