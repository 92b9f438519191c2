----------------------------- MODULE MCResolvers -----------------------------
(***************************************************************************)
(* Go types with the embeddings, methods and casts that matter, and two    *)
(* goroutines that resolve fields of their values.                         *)
(***************************************************************************)
EXTENDS Resolvers, FiniteSetsExt

CONSTANTS g1, g2, mu

\* Descriptions of types.
Struct(fields, methods) == [kind |-> "struct", fields |-> fields, methods |-> methods]
Ptr(to, methods) == [kind |-> "ptr", elem |-> to, methods |-> methods]

F(name, type, json) ==
  [name |-> name, type |-> type, json |-> json, exported |-> TRUE, anonymous |-> FALSE]
Hidden(name, type) == [F(name, type, "") EXCEPT !.exported = FALSE]
Embed(type) == [F(type, type, "") EXCEPT !.anonymous = TRUE]
M(name, lower, in, out) == [name |-> name, lower |-> lower, in |-> in, out |-> out]

NameOfDog == M("FullName", "fullname", <<"context.Context", "Sizes">>, <<"string", "error">>)

Types ==
  "*int32" :> Ptr("int32", <<>>) @@ "*float64" :> Ptr("float64", <<>>)
  @@ "[]int32" :> [kind |-> "slice", elem |-> "int32", methods |-> <<>>]
  @@ "map" :> [kind |-> "map", key |-> "string", methods |-> <<>>]
  @@ "map[Key]" :> [kind |-> "map", key |-> "Key", methods |-> <<>>]
  @@ "map[int]" :> [kind |-> "map", key |-> "int", methods |-> <<>>]
  @@ "Key" :> [kind |-> "string", methods |-> <<>>]
  \* A field of each depth, with and without a tag, and one that two have.
  @@ "Animal" :> Struct(<<F("name", "string", ""), F("Legs", "int32", "size")>>, <<>>)
  @@ "*Animal" :> Ptr("Animal", <<>>)
  @@ "Sized" :> Struct(<<F("size", "int32", ""), F("Label", "string", "name"),
                         F("full_name", "string", "")>>, <<>>)
  @@ "Dog" :> Struct(<<Embed("*Animal"), Embed("Sized"), Hidden("full_name", "string")>>, <<>>)
  @@ "*Dog" :> Ptr("Dog", <<NameOfDog, M("ToDog", "todog", <<>>, <<"*Dog", "bool">>)>>)
  \* The same struct by two ways, of one length and of two.
  @@ "Left" :> Struct(<<Embed("Sized")>>, <<>>)
  @@ "Right" :> Struct(<<Embed("Sized"), Embed("Animal")>>, <<>>)
  @@ "Both" :> Struct(<<Embed("Left"), Embed("Right")>>, <<>>)
  @@ "First" :> Struct(<<Embed("Left")>>, <<>>)
  @@ "Second" :> Struct(<<Embed("Left")>>, <<>>)
  @@ "Deep" :> Struct(<<Embed("First"), Embed("Second")>>, <<>>)
  @@ "Near" :> Struct(<<Embed("Left"), Embed("Sized")>>,
                      <<M("Size", "size", <<"string">>, <<"int32">>),
                        M("ToCat", "tocat", <<"string">>, <<"Near", "bool">>),
                        M("ToDog", "todog", <<>>, <<"*Dog", "bool">>)>>)
  @@ "*Near" :> Ptr("Near", <<M("Size", "size", <<>>, <<"int32">>),
                              M("ToCat", "tocat", <<>>, <<"Near", "bool">>),
                              M("ToDog", "todog", <<>>, <<"*Dog", "bool">>)>>)
  @@ "Pet" :> [kind |-> "interface", methods |-> <<M("ToDog", "todog", <<>>, <<"*Dog", "bool">>)>>]
  \* Arguments.
  @@ "Sizes" :> Struct(<<F("Max", "int32", ""), F("Min", "*float64", ""), F("All", "[]int32", ""),
                         F("Nick", "string", ""), F("Of", "*Inner", ""), F("Weight", "Grams", ""),
                         F("Token", "Token", "")>>, <<>>)
  @@ "Grams" :> [kind |-> "int32", methods |-> <<>>] @@ "Token" :> Struct(<<>>, <<>>)
  @@ "Inner" :> Struct(<<F("Most", "int", ""), F("Least", "int", "")>>, <<>>)
  @@ "*Inner" :> Ptr("Inner", <<>>)

BareNames ==
  "name" :> "name" @@ "size" :> "size" @@ "full_name" :> "fullname" @@ "__typename" :> "typename"
CastNames == "Dog" :> "todog" @@ "Cat" :> "tocat"
Fields == "max" :> {"Max"} @@ "min" :> {"Min"} @@ "all" :> {"All"} @@ "nick" :> {"Nick"}
          @@ "of" :> {"Of"} @@ "most" :> {"Most"} @@ "least" :> {"Least"}
          @@ "weight" :> {"Weight"} @@ "token" :> {"Token"}
Text(s) == [k |-> "string", s |-> s]
Tokens == "Token" :> [type |-> "ID", refuses |-> {Text("no token")}]

\* Values.
V(type) == [type |-> type, is |-> {}]
Of(type, fields) == [type |-> type, fields |-> fields, is |-> {}]
To(type, v) == [type |-> type, elem |-> <<v>>, is |-> {}]
NilOf(type) == [type |-> type, elem |-> <<>>, is |-> {}]

Sized == Of("Sized", <<V("int32"), V("string"), V("string")>>)
Animal == Of("Animal", <<V("string"), V("int32")>>)
DogWith(animal) == To("*Dog", Of("Dog", <<animal, Sized, V("string")>>))
Both == Of("Both", <<Of("Left", <<Sized>>), Of("Right", <<Sized, Animal>>)>>)
Deep == Of("Deep", <<Of("First", <<Of("Left", <<Sized>>)>>), Of("Second", <<Of("Left", <<Sized>>)>>)>>)
Near == Of("Near", <<Of("Left", <<Sized>>), Sized>>)

\* Requests.
Scalar(name) == [k |-> "Scalar", name |-> name]
NonNull(t) == [k |-> "NonNull", of |-> t]
ListOf(t) == [k |-> "List", of |-> t]
Arg(name, type, default) == [name |-> name, type |-> type, default |-> default]
Int32(n) == [k |-> "int32", n |-> 2 * n]
Double(n) == [k |-> "float64", n |-> n]

Object == [kind |-> "OBJECT", name |-> "Dog", directives |-> <<>>]
Plain == [kind |-> "OBJECT", name |-> "Bird", directives |-> <<[name |-> "auth", args |-> FALSE]>>]
Guarded == [kind |-> "OBJECT", name |-> "Cat", directives |-> <<[name |-> "auth", args |-> TRUE]>>]
AnyPet == [kind |-> "UNION", name |-> "Pet", directives |-> <<>>, possible |-> <<"Cat", "Dog">>]

SizeArgs ==
  <<Arg("max", Scalar("Int"), <<Int32(3)>>), Arg("min", Scalar("Float"), <<>>),
    Arg("all", NonNull(ListOf(NonNull(Scalar("Int")))), <<>>), Arg("nick", NonNull(Scalar("ID")), <<>>),
    Arg("of", [k |-> "InputObject", name |-> "In",
               fields |-> <<Arg("most", NonNull(Scalar("Int")), <<>>),
                            Arg("least", Scalar("Int"), <<Int32(1)>>)>>], <<>>)>>

\* A default of null: with others before and after it, and in an input object.
LostArgs ==
  <<Arg("max", Scalar("Int"), <<Int32(3)>>), Arg("nick", Scalar("ID"), <<nil>>),
    Arg("all", ListOf(NonNull(Scalar("Int"))), <<[k |-> "list", of |-> <<Int32(2)>>]>>)>>
NestedArgs ==
  <<Arg("of", [k |-> "InputObject", name |-> "In", fields |-> <<Arg("most", Scalar("Int"), <<nil>>)>>], <<>>)>>

\* An int32 of another name, which is given or by default, and a type that
\* unmarshals.
NamedArgs == <<Arg("weight", NonNull(Scalar("Int")), <<>>)>>
NamedDefault == <<Arg("weight", Scalar("Int"), <<Double(2)>>)>>
TokenArgs == <<Arg("token", NonNull(Scalar("ID")), <<>>)>>

R(parent, type, name) ==
  [parent |-> parent, parentType |-> type, args |-> <<>>,
   field |-> [name |-> name, args |-> <<>>, directives |-> <<>>]]
Call(values, args) ==
  [R(DogWith(NilOf("*Animal")), Object, "full_name") EXCEPT !.args = args, !.field.args = values]

\* What the variables of a request and the literals of a document give.
Numbers32 == {Int32(MaxInt32), Double(2 * MaxInt32), Double(2 * MaxInt32 + 2), Double(3), Double(-1),
              Double(-2 * MaxInt32 - 2), Double(-2 * MaxInt32 - 4), [k |-> "int", n |-> 2 * MaxInt32 + 2],
              [k |-> "int", n |-> 2 * MaxExact + 2]}
Arguments ==
  {"all" :> Int32(1) @@ "nick" :> v @@ "max" :> n :
     n \in Numbers32, v \in {Text("x")}}
  \union {"all" :> [k |-> "list", of |-> <<Int32(1), n>>] @@ "nick" :> Int32(4) @@ "min" :> n
          @@ "of" :> [k |-> "map", of |-> "most" :> n] : n \in Numbers32}
  \union {"all" :> nil @@ "nick" :> nil @@ "min" :> nil @@ "of" :> nil,
          "all" :> Int32(1) @@ "nick" :> Text("x") @@ "min" :> [k |-> "int", n |-> 2 * MaxExact + 2],
          "all" :> Int32(1) @@ "nick" :> Text("x") @@ "of" :> Int32(1)}
NothingGiven == [n \in {} |-> nil]

MCRequests ==
  {R(DogWith(a), Object, n) : a \in {To("*Animal", Animal), NilOf("*Animal")},
                              n \in {"name", "size", "full_name"}}
  \union {R(v, Plain, n) : v \in {Both, Deep, Near, To("*Near", Near)}, n \in {"name", "size"}}
  \union {R(Near, Guarded, n) : n \in {"name", "size"}}
  \union {R([type |-> "map", entries |-> "name" :> V("string"), is |-> {}], NoType, n) : n \in {"name", "size"}}
  \union {R([type |-> t, entries |-> <<>>, is |-> {}], NoType, "name") : t \in {"map[Key]", "map[int]"}}
  \union {R(v, AnyPet, "__typename") :
            v \in {[DogWith(NilOf("*Animal")) EXCEPT !.is = {"Dog"}], [To("*Near", Near) EXCEPT !.is = {"Cat", "Dog"}],
                   [Near EXCEPT !.is = {"Cat", "Dog"}], To("Pet", [DogWith(NilOf("*Animal")) EXCEPT !.is = {"Dog"}]),
                   NilOf("*Dog"), V("string")}}
  \union {R(Invalid, Object, "__typename"), R(Invalid, Object, "name")}
  \union {Call(SizeArgs, args) : args \in Arguments}
  \union {Call(LostArgs, args) : args \in {NothingGiven, "nick" :> Text("x")}}
  \union {Call(values, NothingGiven) : values \in {NestedArgs, NamedDefault}}
  \union {Call(NamedArgs, "weight" :> v) : v \in {Int32(1), Double(2)}}
  \union {Call(TokenArgs, "token" :> v) : v \in {Text("x"), Text("no token"), Int32(1)}}

\* A list with a resolver of each sort.
MCBefore == <<[k |-> "typeAndField", of |-> <<"Cat", "name">> :> "given"]>>
MCAfter ==
  <<[k |-> "directive", name |-> "auth", id |-> "checked"], [k |-> "sniff"],
    [k |-> "type", of |-> "Dog" :> [k |-> "mapValue"]]>>

\* What the parents lead to.
RECURSIVE Reached(_)
Reached(v) == {v} \union IF Points(v) THEN Reached(Elem(v)) ELSE {}
ValuesMet == UNION {Reached(r.parent) : r \in MCRequests}

ParentTypes == {"*Dog", "Dog", "Both", "Deep", "Near", "*Near", "Pet", "map", "map[Key]", "map[int]", "string"}

\* What the constants stand for, evaluated once: they only refer to it.
CacheOfKeys == [k \in AllKeys |-> k.cache]
FoundOfKeys == Found
NumberedRequests == FoldSet(LAMBDA q, list : Append(list, q), <<>>, MCRequests)
KeyCache == LET c == CacheOfKeys IN c
FoundFor == LET f == FoundOfKeys IN f
DeclaredTypes == LET t == Types IN t
RequestsAsked == LET r == NumberedRequests IN r
MetValues == LET v == ValuesMet IN v
=============================================================================
