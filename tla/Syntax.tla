------------------------------- MODULE Syntax -------------------------------
(* The part of the grammar that schemas and query documents share: names,   *)
(* descriptions, literals, arguments, directives, type references and input *)
(* values, read from tokens and written back to tokens.                     *)
(*                                                                          *)
(* A text is a sequence of tokens, a token is a string; commas and comments *)
(* are not tokens, for the lexer drops them.  A parser takes the tokens that*)
(* are left and returns [v |-> what it read, r |-> the tokens left].  A     *)
(* syntax error, which the code throws and catches at the top, leaves Bad:  *)
(* the one token of Bad is accepted by nothing, so nothing follows it.      *)
EXTENDS SyntaxTree

CONSTANTS
  Ints,       \* the integer tokens that 32 bits hold
  WideInts,   \* the integer tokens that they do not hold
  Floats      \* the floating point tokens

Punctuation == {"{", "}", "(", ")", "[", "]", ":", "=", "!", "|", "&", "@", "$", ".", "-"}

-----------------------------------------------------------------------------
(* The lexer: one token of lookahead. *)

Bad == <<"<error>">>

Peek(ts) == IF ts = <<>> THEN "EOF" ELSE Head(ts)

TokenKind(t) == CASE t \in Punctuation \union {"EOF", "<error>"} -> t
                  [] t \in DOMAIN Strings      -> "String"
                  [] t \in DOMAIN Blocks       -> "BlockString"
                  [] t \in Ints \union WideInts -> "Int"
                  [] t \in Floats              -> "Float"
                  [] OTHER                     -> "Ident"

ConsumeToken(kind, ts) == IF TokenKind(Peek(ts)) = kind THEN Tail(ts) ELSE Bad

ConsumeIdent(ts) == [v |-> Peek(ts), r |-> ConsumeToken("Ident", ts)]

ConsumeKeyword(words, ts) ==
  [v |-> Peek(ts), r |-> IF Peek(ts) \in words THEN Tail(ts) ELSE Bad]

ConsumeDescription(ts) ==
  CASE TokenKind(Peek(ts)) = "String" ->
         [v |-> [show |-> "String", text |-> Strings[Peek(ts)]], r |-> Tail(ts)]
    [] TokenKind(Peek(ts)) = "BlockString" ->
         [v |-> [show |-> "Block", text |-> Blocks[Peek(ts)]], r |-> Tail(ts)]
    [] OTHER -> [v |-> NoDescription, r |-> ts]

\* What was read, and nothing: a parser that goes on from what another one read.
Read(v, ts) == [v |-> v, r |-> ts]
Then(read, Parse(_, _)) == Parse(read.v, read.r)
Within(read, close) == Read(read.v, ConsumeToken(close, read.r))

-----------------------------------------------------------------------------
(* Names in order, and what is written for the elements of a list. *)

InOrder(S) == SelectSeq(Alphabet, LAMBDA n : n \in S)

Each(Write(_), s) == FlattenSeq([i \in DOMAIN s |-> Write(s[i])])

-----------------------------------------------------------------------------
(* Literals. *)

ConsumeLiteral(ts) ==
  LET kind == TokenKind(Peek(ts))
  IN IF kind \in {"Int", "Float", "String", "BlockString", "Ident"}
     THEN [v |-> BasicLit(kind, <<Head(ts)>>), r |-> Tail(ts)]
     ELSE [v |-> NoLit, r |-> Bad]

RECURSIVE ParseLiteral(_, _), ParseEntries(_, _), ParseMembers(_, _)

ParseLiteral(ts, constOnly) ==
  CASE Peek(ts) = "$" ->
         Then(ConsumeIdent(Tail(ts)), LAMBDA n, r : Read(Variable(n), IF constOnly THEN Bad ELSE r))
    [] Peek(ts) = "null" -> Read(NullLit, Tail(ts))
    [] Peek(ts) = "-"    -> [ConsumeLiteral(Tail(ts)) EXCEPT !.v.text = <<"-">> \o @]
    [] Peek(ts) = "["    ->
         Then(Within(ParseEntries(Tail(ts), constOnly), "]"),
              LAMBDA es, r : Read(Lit("List", "", <<>>, es), r))
    [] Peek(ts) = "{"    ->
         Then(Within(ParseMembers(Tail(ts), constOnly), "}"),
              LAMBDA es, r : Read(Lit("Object", "", <<>>, SortByName(es)), r))
    [] OTHER -> ConsumeLiteral(ts)

ParseEntries(ts, constOnly) ==
  IF Peek(ts) = "]" \/ ts = Bad THEN Read(<<>>, ts)
  ELSE Then(ParseLiteral(ts, constOnly), LAMBDA e, r :
       Then(ParseEntries(r, constOnly),  LAMBDA more, rest :
         Read(<<e>> \o more, rest)))

ParseMembers(ts, constOnly) ==
  IF Peek(ts) = "}" \/ ts = Bad THEN Read(<<>>, ts)
  ELSE Then(ConsumeIdent(ts), LAMBDA n, r1 :
       Then(ParseLiteral(ConsumeToken(":", r1), constOnly), LAMBDA e, r2 :
         IF r2 = Bad THEN Read(<<>>, Bad)
         ELSE Then(ParseMembers(r2, constOnly), LAMBDA more, rest :
                Read(<<[name |-> n, value |-> e]>> \o more, rest))))

RECURSIVE WriteLiteral(_)
WriteLiteral(l) ==
  CASE l.lit = "Basic"    -> l.text
    [] l.lit = "Variable" -> <<"$">> \o l.text
    [] l.lit = "Null"     -> <<"null">>
    [] l.lit = "None"     -> Bad   \* a nil literal: writing it panics
    [] l.lit = "List"     -> <<"[">> \o Each(WriteLiteral, l.es) \o <<"]">>
    [] l.lit = "Object"   ->
         <<"{">> \o Each(LAMBDA f : <<f.name, ":">> \o WriteLiteral(f.value), l.es) \o <<"}">>

(* What a literal evaluates to: a value is written as the literal that has  *)
(* it, a string by its text.  An integer that 32 bits do not hold panics.   *)
Panic == Lit("Panic", "", <<>>, <<>>)

RECURSIVE Evaluate(_, _)
Evaluate(l, vars) ==
  CASE l.lit = "Variable" -> IF l.text[1] \in DOMAIN vars THEN vars[l.text[1]] ELSE NullLit
    [] l.lit = "Basic" /\ l.kind = "Int" /\ l.text[Len(l.text)] \in WideInts -> Panic
    [] l.lit = "Basic" /\ l.kind = "String"      -> BasicLit("Text", <<Strings[l.text[1]]>>)
    [] l.lit = "Basic" /\ l.kind = "BlockString" -> BasicLit("Text", <<Blocks[l.text[1]]>>)
    [] l.lit = "Basic" /\ l.kind = "Ident" /\ l.text \notin {<<"true">>, <<"false">>} ->
         BasicLit("Text", l.text)
    [] l.lit = "List"   -> [l EXCEPT !.es = [i \in DOMAIN @ |-> Evaluate(@[i], vars)]]
    [] l.lit = "Object" ->
         [l EXCEPT !.es = [i \in DOMAIN @ |-> [@[i] EXCEPT !.value = Evaluate(@, vars)]]]
    [] OTHER -> l

-----------------------------------------------------------------------------
(* Arguments and directives. *)

RECURSIVE ParseArgumentsLeft(_), ParseDirectives(_)

ParseArgumentsLeft(ts) ==
  IF Peek(ts) = ")" \/ ts = Bad THEN Read(<<>>, ts)
  ELSE Then(ConsumeIdent(ts), LAMBDA n, r1 :
       Then(ParseLiteral(ConsumeToken(":", r1), FALSE), LAMBDA l, r2 :
       Then(ParseArgumentsLeft(r2), LAMBDA more, rest :
         Read(<<[name |-> n, value |-> l]>> \o more, rest))))

ParseArguments(ts) == Within(ParseArgumentsLeft(ConsumeToken("(", ts)), ")")

OptionalArguments(ts) == IF Peek(ts) = "(" THEN ParseArguments(ts) ELSE Read(<<>>, ts)

ParseDirectives(ts) ==
  IF Peek(ts) # "@" THEN Read(<<>>, ts)
  ELSE Then(ConsumeIdent(Tail(ts)), LAMBDA n, r1 :
       Then(OptionalArguments(r1), LAMBDA args, r2 :
       Then(ParseDirectives(r2), LAMBDA more, rest :
         Read(<<[name |-> n, args |-> args]>> \o more, rest))))

WriteArguments(args) ==
  IF args = <<>> THEN <<>>
  ELSE <<"(">> \o Each(LAMBDA a : <<a.name, ":">> \o WriteLiteral(a.value), args) \o <<")">>

WriteDirectives(ds) == Each(LAMBDA d : <<"@", d.name>> \o WriteArguments(d.args), ds)

-----------------------------------------------------------------------------
(* Type references. *)

RECURSIVE ParseType(_)
ParseType(ts) ==
  Then(IF Peek(ts) = "["
       THEN Then(Within(ParseType(Tail(ts)), "]"), LAMBDA t, r : Read(Wrapped("LIST", t), r))
       ELSE Then(ConsumeIdent(ts), LAMBDA n, r : Read(TypeName(n), r)),
       LAMBDA t, r : IF Peek(r) = "!" THEN Read(Wrapped("NON_NULL", t), Tail(r)) ELSE Read(t, r))

RECURSIVE TypeString(_)
TypeString(t) ==
  CASE IsWrapped(t, "LIST")     -> <<"[">> \o TypeString(OfType(t)) \o <<"]">>
    [] IsWrapped(t, "NON_NULL") -> TypeString(OfType(t)) \o <<"!">>
    [] OTHER                    -> <<t.name>>

-----------------------------------------------------------------------------
(* Input values: arguments of fields and directives, fields of input        *)
(* objects, variables of operations.                                        *)

ParseInputValue(ts) ==
  Then(ConsumeDescription(ts), LAMBDA d, r1 :
  Then(ConsumeIdent(r1), LAMBDA n, r2 :
  Then(ParseType(ConsumeToken(":", r2)), LAMBDA t, r3 :
  Then(IF Peek(r3) = "=" THEN ParseLiteral(Tail(r3), TRUE) ELSE Read(NoLit, r3), LAMBDA def, r4 :
  Then(ParseDirectives(r4), LAMBDA ds, rest :
    Read([name |-> n, type |-> t, default |-> def, desc |-> d, dirs |-> ds], rest))))))

RECURSIVE ParseInputValues(_, _)
ParseInputValues(ts, close) ==
  IF Peek(ts) = close \/ ts = Bad THEN Read(<<>>, ts)
  ELSE Then(ParseInputValue(ts), LAMBDA v, r :
       Then(ParseInputValues(r, close), LAMBDA more, rest : Read(<<v>> \o more, rest)))

OptionalInputValues(ts) ==
  IF Peek(ts) # "(" THEN Read(<<>>, ts)
  ELSE Within(ParseInputValues(Tail(ts), ")"), ")")

TokenOf(tokens, text) == CHOOSE t \in DOMAIN tokens : tokens[t] = text

WriteDescription(d) ==
  CASE d.show = "No" \/ d.text = "" -> <<>>
    [] d.show = "Block"             -> <<TokenOf(Blocks, d.text)>>
    [] OTHER                        -> <<TokenOf(Strings, d.text)>>

WriteInputValue(v) ==
  WriteDescription(v.desc) \o <<v.name, ":">> \o TypeString(v.type)
    \o (IF v.default = NoLit THEN <<>> ELSE <<"=">> \o WriteLiteral(v.default))

WriteInputValues(vs) ==
  IF vs = <<>> THEN <<>> ELSE <<"(">> \o Each(WriteInputValue, vs) \o <<")">>
=============================================================================
