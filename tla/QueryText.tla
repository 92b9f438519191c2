------------------------------ MODULE QueryText ------------------------------
(* Query documents: how they are read and written back.                     *)
(*                                                                          *)
(* The program tells selections, operations and fragments apart by pointer; *)
(* here each carries as id the number of tokens that were left where it     *)
(* begins, which no other of the document has.                              *)
EXTENDS Syntax

NoDocument == [ops |-> <<>>, frags |-> <<>>]

(* A field has an alias, a name, arguments and selections; an inline        *)
(* fragment a type condition on ("" for none) and selections; a spread has  *)
(* the name of a fragment.                                                  *)
Selection(sel, id, alias, name, args, on, dirs, sels) ==
  [sel |-> sel, id |-> id, alias |-> alias, name |-> name, args |-> args, on |-> on,
   dirs |-> dirs, sels |-> sels]

-----------------------------------------------------------------------------
(* Reading. *)

RECURSIVE parseSelections(_)

parseSelectionSet(ts) == Within(parseSelections(ConsumeToken("{", ts)), "}")

parseField(ts) ==
  Then(ConsumeIdent(ts), LAMBDA alias, r1 :
  Then(IF Peek(r1) = ":" THEN ConsumeIdent(Tail(r1)) ELSE Read(alias, r1), LAMBDA name, r2 :
  Then(OptionalArguments(r2), LAMBDA args, r3 :
  Then(ParseDirectives(r3), LAMBDA ds, r4 :
  Then(IF Peek(r4) = "{" THEN parseSelectionSet(r4) ELSE Read(<<>>, r4), LAMBDA ss, rest :
    Read(Selection("field", Len(ts), alias, name, args, "", ds, ss), rest))))))

parseInline(id, ts) ==
  Then(IF TokenKind(Peek(ts)) = "Ident" THEN ConsumeIdent(Tail(ts)) ELSE Read("", ts), LAMBDA on, r1 :
  Then(ParseDirectives(r1), LAMBDA ds, r2 :
  Then(parseSelectionSet(r2), LAMBDA ss, rest :
    Read(Selection("inline", id, "", "", <<>>, on, ds, ss), rest))))

(* After the dots: a name other than "on" is that of a fragment.            *)
parseSpread(ts) ==
  Then(Read("", ConsumeToken(".", ConsumeToken(".", ConsumeToken(".", ts)))), LAMBDA dots, r :
    IF TokenKind(Peek(r)) = "Ident" /\ Head(r) # "on"
    THEN Then(ParseDirectives(Tail(r)), LAMBDA ds, rest :
           Read(Selection("spread", Len(ts), "", Head(r), <<>>, "", ds, <<>>), rest))
    ELSE parseInline(Len(ts), r))

parseSelection(ts) == IF Peek(ts) = "." THEN parseSpread(ts) ELSE parseField(ts)

parseSelections(ts) ==
  IF Peek(ts) = "}" \/ ts = Bad THEN Read(<<>>, ts)
  ELSE Then(parseSelection(ts), LAMBDA s, r :
       Then(parseSelections(r), LAMBDA more, rest : Read(<<s>> \o more, rest)))

(* The variables of an operation, each after a $; descriptions are skipped. *)
RECURSIVE parseVariables(_)
parseVariables(ts) ==
  IF Peek(ts) = ")" \/ ts = Bad THEN Read(<<>>, ts)
  ELSE Then(ParseInputValue(ConsumeToken("$", ts)), LAMBDA v, r :
       Then(parseVariables(r), LAMBDA more, rest :
         Read(<<[v EXCEPT !.desc = NoDescription]>> \o more, rest)))

(* The directives of an operation come before its variables.                *)
parseOperation(type, ts) ==
  Then(IF TokenKind(Peek(ts)) = "Ident" THEN ConsumeIdent(ts) ELSE Read("", ts), LAMBDA name, r1 :
  Then(ParseDirectives(r1), LAMBDA ds, r2 :
  Then(IF Peek(r2) = "(" THEN Within(parseVariables(Tail(r2)), ")") ELSE Read(<<>>, r2), LAMBDA vs, r3 :
  Then(parseSelectionSet(r3), LAMBDA ss, rest :
    Read([id |-> Len(ts), type |-> type, name |-> name, vars |-> vs, dirs |-> ds, sels |-> ss], rest)))))

parseFragment(ts) ==
  Then(ConsumeIdent(ts), LAMBDA name, r1 :
  Then(ConsumeIdent(ConsumeKeyword({"on"}, r1).r), LAMBDA on, r2 :
  Then(ParseDirectives(r2), LAMBDA ds, r3 :
  Then(parseSelectionSet(r3), LAMBDA ss, rest :
    Read([id |-> Len(ts), name |-> name, on |-> on, dirs |-> ds, sels |-> ss], rest)))))

(* The documents that may be left: [ok, doc].  A part that does not parse   *)
(* leaves the parts before it.                                              *)
RECURSIVE parseDocument(_, _)
parseDocument(doc, ts) ==
  LET With(list, part) == [doc EXCEPT ![list] = Append(@, part)]
      Follow(list, part, r) ==
        IF r = Bad THEN [ok |-> FALSE, doc |-> doc] ELSE parseDocument(With(list, part), r)
  IN CASE ts = <<>>       -> [ok |-> TRUE, doc |-> doc]
       [] Peek(ts) = "{"  -> Then(parseOperation("query", ts), LAMBDA op, r : Follow("ops", op, r))
       [] Peek(ts) \in {"query", "mutation", "subscription"} ->
            Then(parseOperation(Peek(ts), Tail(ts)), LAMBDA op, r : Follow("ops", op, r))
       [] Peek(ts) = "fragment" -> Then(parseFragment(Tail(ts)), LAMBDA f, r : Follow("frags", f, r))
       [] OTHER                 -> [ok |-> FALSE, doc |-> doc]

NoOperation == [id |-> 0, type |-> "", name |-> "", vars |-> <<>>, dirs |-> <<>>, sels |-> <<>>]

(* Without a name there must be one operation; NoOperation is the error.    *)
GetOperation(doc, name) ==
  CASE name = ""                -> IF Len(doc.ops) = 1 THEN doc.ops[1] ELSE NoOperation
    [] Has(doc.ops, name)       -> Get(doc.ops, name)
    [] OTHER                    -> NoOperation

-----------------------------------------------------------------------------
(* Writing: an empty list of selections is not written, and an inline       *)
(* fragment without a type condition keeps the word "on".                   *)

RECURSIVE WriteSelections(_)

\* Mutated form: the alias is not written.
WriteSelectionBare(s) ==
  CASE s.sel = "field" ->
         <<s.name>> \o WriteArguments(s.args) \o WriteDirectives(s.dirs) \o WriteSelections(s.sels)
    [] s.sel = "spread" -> <<".", ".", ".", s.name>> \o WriteDirectives(s.dirs)
    [] s.sel = "inline" ->
         <<".", ".", ".", "on", s.on>> \o WriteDirectives(s.dirs) \o WriteSelections(s.sels)

WriteSelection(s) ==
  CASE s.sel = "field" ->
         (IF s.name = s.alias THEN <<s.name>> ELSE <<s.alias, ":", s.name>>)
           \o WriteArguments(s.args) \o WriteDirectives(s.dirs) \o WriteSelections(s.sels)
    [] s.sel = "spread" -> <<".", ".", ".", s.name>> \o WriteDirectives(s.dirs)
    [] s.sel = "inline" ->
         <<".", ".", ".", "on">> \o (IF s.on = "" THEN <<>> ELSE <<s.on>>)
           \o WriteDirectives(s.dirs) \o WriteSelections(s.sels)

WriteSelections(ss) ==
  IF ss = <<>> THEN <<>> ELSE <<"{">> \o Each(WriteSelection, ss) \o <<"}">>

WriteVariables(vs) ==
  IF vs = <<>> THEN <<>>
  ELSE <<"(">> \o Each(LAMBDA v : <<"$">> \o WriteInputValue(v), vs) \o <<")">>

WriteOperation(op) ==
  <<op.type>> \o (IF op.name = "" THEN <<>> ELSE <<op.name>>)
    \o WriteDirectives(op.dirs) \o WriteVariables(op.vars) \o WriteSelections(op.sels)

WriteFragment(f) ==
  <<"fragment", f.name, "on", f.on>> \o WriteDirectives(f.dirs) \o WriteSelections(f.sels)

WriteDocument(doc) == Each(WriteOperation, doc.ops) \o Each(WriteFragment, doc.frags)
=============================================================================
