----------------------------- MODULE SchemaText -----------------------------
(* The schema language: what each declaration of a text reads as, and how   *)
(* the parts of a schema are written back.  What a declaration does to the  *)
(* schema it is parsed into is in module SchemaLoad.                        *)
EXTENDS Syntax

OperationTypes == {"query", "mutation", "subscription"}

-----------------------------------------------------------------------------
(* Reading. *)

RECURSIVE parseFieldsDef(_)
parseFieldsDef(ts) ==
  IF Peek(ts) = "}" \/ ts = Bad THEN Read(<<>>, ts)
  ELSE Then(ConsumeDescription(ts), LAMBDA d, r1 :
       Then(ConsumeIdent(r1), LAMBDA n, r2 :
       Then(OptionalInputValues(r2), LAMBDA args, r3 :
       Then(ParseType(ConsumeToken(":", r3)), LAMBDA t, r4 :
       Then(ParseDirectives(r4), LAMBDA ds, r5 :
       Then(parseFieldsDef(r5), LAMBDA more, rest :
         Read(<<[name |-> n, args |-> args, type |-> t, dirs |-> ds, desc |-> d]>> \o more, rest)))))))

RECURSIVE parseEnumValues(_)
parseEnumValues(ts) ==
  IF Peek(ts) = "}" \/ ts = Bad THEN Read(<<>>, ts)
  ELSE Then(ConsumeDescription(ts), LAMBDA d, r1 :
       Then(ConsumeIdent(r1), LAMBDA n, r2 :
       Then(ParseDirectives(r2), LAMBDA ds, r3 :
       Then(parseEnumValues(r3), LAMBDA more, rest :
         Read(<<[name |-> n, dirs |-> ds, desc |-> d]>> \o more, rest)))))

(* The names after "implements": the & between them may be left out.        *)
RECURSIVE parseInterfaceNames(_)
parseInterfaceNames(ts) ==
  Then(ConsumeIdent(ts), LAMBDA n, r :
    IF Peek(r) \in {"@", "{"} \/ r = Bad THEN Read(<<n>>, r)
    ELSE Then(parseInterfaceNames(IF Peek(r) = "&" THEN Tail(r) ELSE r),
              LAMBDA more, rest : Read(<<n>> \o more, rest)))

RECURSIVE BarSeparated(_)
BarSeparated(ts) ==
  Then(ConsumeIdent(ts), LAMBDA n, r :
    IF Peek(r) # "|" THEN Read(<<n>>, r)
    ELSE Then(BarSeparated(Tail(r)), LAMBDA more, rest : Read(<<n>> \o more, rest)))

parseImplements(ts) ==
  IF Peek(ts) # "implements" THEN Read(<<>>, ts)
  ELSE parseInterfaceNames(IF Peek(Tail(ts)) = "&" THEN Tail(Tail(ts)) ELSE Tail(ts))

parseObjectDef(ts) ==
  Then(ConsumeIdent(ts), LAMBDA n, r1 :
  Then(parseImplements(r1), LAMBDA is, r2 :
  Then(ParseDirectives(r2), LAMBDA ds, r3 :
  Then(Within(parseFieldsDef(ConsumeToken("{", r3)), "}"), LAMBDA fs, rest :
    Read(NamedType("OBJECT", n, ds, fs, is), rest)))))

(* Interfaces, enums and input objects differ in what is between the braces.*)
parseBlockDef(kind, name, dirs, items) ==
  Then(Within(items, "}"), LAMBDA is, rest : Read(NamedType(kind, name, dirs, is, <<>>), rest))

parseInterfaceDef(ts) ==
  Then(ConsumeIdent(ts), LAMBDA n, r1 :
  Then(ParseDirectives(r1), LAMBDA ds, r2 :
    parseBlockDef("INTERFACE", n, ds, parseFieldsDef(ConsumeToken("{", r2)))))

parseEnumDef(ts) ==
  Then(ConsumeIdent(ts), LAMBDA n, r1 :
  Then(ParseDirectives(r1), LAMBDA ds, r2 :
    parseBlockDef("ENUM", n, ds, parseEnumValues(ConsumeToken("{", r2)))))

parseInputDef(ts) ==
  Then(ConsumeIdent(ts), LAMBDA n, r1 :
  Then(ParseDirectives(r1), LAMBDA ds, r2 :
    parseBlockDef("INPUT_OBJECT", n, ds, ParseInputValues(ConsumeToken("{", r2), "}"))))

parseUnionDef(ts) ==
  Then(ConsumeIdent(ts), LAMBDA n, r1 :
  Then(ParseDirectives(r1), LAMBDA ds, r2 :
  Then(BarSeparated(ConsumeToken("=", r2)), LAMBDA ms, rest :
    Read(NamedType("UNION", n, ds, <<>>, ms), rest))))

parseScalarDef(ts) ==
  Then(ConsumeIdent(ts), LAMBDA n, r1 :
  Then(ParseDirectives(r1), LAMBDA ds, rest : Read(NamedType("SCALAR", n, ds, <<>>, <<>>), rest)))

parseDirectiveDef(ts) ==
  Then(ConsumeIdent(ConsumeToken("@", ts)), LAMBDA n, r1 :
  Then(OptionalInputValues(r1), LAMBDA args, r2 :
  Then(BarSeparated(ConsumeKeyword({"on"}, r2).r), LAMBDA locs, rest :
    Read(DirectiveDecl(n, args, locs), rest))))

RECURSIVE parseEntryPoints(_)
parseEntryPoints(ts) ==
  IF Peek(ts) = "}" \/ ts = Bad THEN Read(<<>>, ts)
  ELSE Then(ConsumeKeyword(OperationTypes, ts), LAMBDA op, r1 :
       Then(ConsumeIdent(ConsumeToken(":", r1)), LAMBDA n, r2 :
         IF r2 = Bad THEN Read(<<>>, Bad)
         ELSE Then(parseEntryPoints(r2), LAMBDA more, rest : Read(<<<<op, n>>>> \o more, rest))))

\* begun: the directives were read to their end.
parseSchemaDef(ts) ==
  Then(ParseDirectives(ts), LAMBDA ds, r :
  Then(Within(parseEntryPoints(ConsumeToken("{", r)), "}"), LAMBDA es, rest :
    Read([dirs |-> ds, begun |-> r # Bad, entries |-> es], rest)))

(* One declaration.                                                         *)
ParseBody(word, ts) ==
  CASE word = "schema"    -> parseSchemaDef(ts)
    [] word = "type"      -> parseObjectDef(ts)
    [] word = "interface" -> parseInterfaceDef(ts)
    [] word = "union"     -> parseUnionDef(ts)
    [] word = "enum"      -> parseEnumDef(ts)
    [] word = "input"     -> parseInputDef(ts)
    [] word = "scalar"    -> parseScalarDef(ts)
    [] word = "directive" -> parseDirectiveDef(ts)
    [] OTHER              -> Read([desc |-> NoDescription], Bad)

ParseDeclaration(ts) ==
  Then(ConsumeDescription(ts), LAMBDA d, r :
  Then(ParseBody(Peek(r), Tail(r)), LAMBDA v, rest :
    [word |-> Peek(r), r |-> rest, v |-> IF Peek(r) = "schema" THEN v ELSE [v EXCEPT !.desc = d]]))

-----------------------------------------------------------------------------
(* Writing.  h is the heap of types; 0, the nil address, has no name.       *)

NameAt(h, a) == IF a = 0 THEN Bad ELSE <<h[a].name>>

RECURSIVE Separated(_, _)
Separated(sep, parts) ==
  IF Len(parts) < 2 THEN FlattenSeq(parts)
  ELSE Head(parts) \o <<sep>> \o Separated(sep, Tail(parts))

WriteField(f) ==
  WriteDescription(f.desc) \o <<f.name>> \o WriteInputValues(f.args) \o <<":">>
    \o TypeString(f.type) \o WriteDirectives(f.dirs)

\* Mutated form: the directives are forgotten.
WriteEnumValueBare(v) == WriteDescription(v.desc) \o <<v.name>>

WriteEnumValue(v) == WriteDescription(v.desc) \o <<v.name>> \o WriteDirectives(v.dirs)

(* Only an object writes its directives, and it writes them twice when it   *)
(* implements interfaces.                                                   *)
WriteObject(h, t) ==
  <<"type", t.name>>
    \o (IF t.interfaces = <<>> THEN <<>>
        ELSE <<"implements">>
               \o Separated("&", [i \in DOMAIN t.interfaces |-> NameAt(h, t.interfaces[i])])
               \o WriteDirectives(t.dirs))
    \o WriteDirectives(t.dirs) \o <<"{">> \o Each(WriteField, t.items) \o <<"}">>

WriteType(h, t) ==
  WriteDescription(t.desc) \o
  CASE t.kind = "OBJECT"       -> WriteObject(h, t)
    [] t.kind = "SCALAR"       -> <<"scalar", t.name>>
    [] t.kind = "INTERFACE"    -> <<"interface", t.name, "{">> \o Each(WriteField, t.items) \o <<"}">>
    [] t.kind = "ENUM"         -> <<"enum", t.name, "{">> \o Each(WriteEnumValue, t.items) \o <<"}">>
    [] t.kind = "INPUT_OBJECT" -> <<"input", t.name, "{">> \o Each(WriteInputValue, t.items) \o <<"}">>
    [] t.kind = "UNION"        ->
         <<"union", t.name, "=">>
           \o Separated("|", [i \in DOMAIN t.possible |-> NameAt(h, t.possible[i])])

WriteDirectiveDecl(d) ==
  WriteDescription(d.desc) \o <<"directive", "@", d.name>> \o WriteInputValues(d.args) \o <<"on">>
    \o Separated("|", [i \in DOMAIN d.locs |-> <<d.locs[i]>>])
=============================================================================
