----------------------------- MODULE SchemaLoad -----------------------------
(* Schemas from and to text: Parse of the tokens of a text, and WriteTo.    *)
EXTENDS SchemaTypes, SchemaText

(* The declarations of a text; one that a syntax error cuts short is the    *)
(* last.                                                                    *)
RECURSIVE Declarations(_)
Declarations(ts) ==
  IF ts = <<>> THEN <<>>
  ELSE LET d == ParseDeclaration(ts)
           read == [word |-> d.word, v |-> d.v, whole |-> d.r # Bad]
       IN <<read>> \o (IF d.r = Bad THEN <<>> ELSE Declarations(d.r))

(* Parse: a syntax error or a panic leaves what the text had declared, and  *)
(* ResolveTypes does not run.                                               *)
Load(w, ts) == Unended({parseSchema(w, Declarations(ts))}, ResolveTypes)

-----------------------------------------------------------------------------
(* Writing a schema.  The built-in types are told by their address. *)

isBuiltIn(a) == a \in Addresses(Meta.s)

SortedDomain(f) == InOrder(DOMAIN f)

WriteSchema(w) ==
  LET decls == SelectSeq(SortedDomain(w.s.decls),
                         LAMBDA n : n \notin DOMAIN Meta.s.decls \/ w.s.decls[n] # Meta.s.decls[n])
      types == SelectSeq(SortedDomain(w.s.types), LAMBDA n : ~isBuiltIn(w.s.types[n]))
  IN Each(LAMBDA n : WriteDirectiveDecl(w.s.decls[n]), decls)
       \o Each(LAMBDA n : WriteType(w.h, w.h[w.s.types[n]]), types)
       \o <<"schema", "{">>
       \o Each(LAMBDA op : <<op, ":">> \o NameAt(w.h, w.s.entries[op]), SortedDomain(w.s.entries))
       \o <<"}">>
=============================================================================
