---------------------------- MODULE MCInvocation ----------------------------
(* Small instances of Toolexec, and of the passes of SourcePasses; one or the
   other runs, the other stays idle. *)
EXTENDS Toolexec, SourcePasses, FiniteSetsExt
------------------------------------------------------------------------------
(* Command lines. *)
Copies == [s \in Source |-> IF s = "a.go" THEN "/tmp/1/a.go" ELSE "/tmp/2/b.go"]

Line(own, links, tool, args) == [own |-> own, links |-> links, tool |-> tool, args |-> args]

ChainLists ==
  {<<>>, <<<<"pre2">>>>, <<<<"/bin/pre2", "-x">>>>,
   <<<<"pre2", "-x">>, <<"pre3">>>>, <<<<"pre2">>, <<"pre3", "-x", "-y">>>>}

\* The words of a tool.  The ones of the last two lists look like a chain's.
ToolWords ==
  {<<"-o", "out", "-p", "user", "a.go", "b.go">>, <<"-p", "user", "b.go", "-p", "proven">>,
   <<"-p", "proven", "a.go">>, <<"-o", "out", "a.go">>, <<"-p", "user">>, <<"a.go", "-p">>, <<>>}
LikeAChain ==
  {<<"-p", "user", "/go/link", "a.go">>, <<"-p", "user", "--and-then", "a.go">>}

MCLines ==
  {Line(<<>>, <<>>, tool, args) : tool \in ToolPaths, args \in ToolWords}
  \cup {Line(own, links, tool, args) :
          own \in {<<>>, <<"-v">>}, links \in ChainLists \ {<<>>}, tool \in ToolPaths,
          args \in ToolWords \cup LikeAChain}
  \cup {Line(<<>>, links, Absent, <<>>) : links \in ChainLists}
------------------------------------------------------------------------------
(* Nodes and what they are made of. *)
MCParts(x) == IF "bodies" \in DOMAIN x THEN FlattenSeq(x.bodies) ELSE x.args

RECURSIVE MCDepth(_)
MCDepth(x) ==
  LET depths == {MCDepth(y) : y \in ToSet(MCParts(x))} IN IF depths = {} THEN 0 ELSE 1 + Max(depths)
------------------------------------------------------------------------------
(* Predicate arguments, functions and rules. *)
Node(op, name, args) == [op |-> op, name |-> name, args |-> args]
A == Node("name", "a", <<>>)
B == Node("selector", "b", <<>>)
C == Node("name", "c", <<>>)
Literal == Node("func", "lit", <<>>)
Unknown == Node("unknown selector", "s.ok", <<>>)

Few        == {A, B, Literal}
Pairs(S)   == {<<>>} \cup {<<s>> : s \in S} \cup {<<s, t>> : s \in S, t \in S}
Ops(op, S) == {Node(op, "", args) : args \in Pairs(S)}
Flat       == Few \cup {Unknown, Node("Not", "", <<A>>)}
\* An unknown selector in an Or is refused without a diagnostic.
Combined   == Ops("And", Flat) \cup Ops("Or", Few)
Deep       == Ops("And", {C, Node("Or", "", <<A, B>>), Node("And", "", <<A, B>>), Node("And", "", <<>>)})
              \cup Ops("Or", {C, Node("And", "", <<A, B>>)})
Both       == Node("And", "", <<A, C>>)
Trees      == Flat \cup Combined \cup Deep
MCPredNode == Trees \cup {C, Both}

Contract(fn, subject, args) == [fn |-> fn, subject |-> subject, args |-> args, lit |-> FALSE]
FieldLists == {<<<<"x", "y">>>>, <<<<"_">>, <<"x">>>>, <<<<"y">>, <<"x", "_">>>>, <<<<>>, <<>>>>, <<>>}

ThatCalls  == {Contract("proven.That", v, <<t>>) : v \in {"x", "y", "local", "expression"}, t \in Trees}
CallPairs   == {<<Contract("proven.That", v, <<t, u>>), Contract("proven.That", w, <<C>>)>> :
                 v \in {"x", "y"}, w \in {"x", "y", "local"}, t \in Flat, u \in Deep \cup {A}}
OnlyOrs(t) == LET r == ResolveAndFlat[t] IN r.ok /\ r.leaves = {} /\ r.ors # {}
ReturnCalls == {Contract(fn, "v", <<t>>) : fn \in {"proven.Returns", "trust.Returns"},
                                           t \in {u \in Trees : ~OnlyOrs(u)}}

\* A function with only a disjunctive postcondition, which is dropped, and
\* function literals with contracts of their own are left out.
MCFunctions ==
  {[params |-> ps, calls |-> cs] :
     ps \in FieldLists,
     cs \in {<<c>> : c \in ThatCalls \cup ReturnCalls} \cup CallPairs
            \cup {<<Contract("proven.That", "x", <<t>>), Contract("proven.Returns", "v", <<u>>)>> :
                    t \in Deep, u \in {A, Both}}}

RuleArgs == {<<>>} \cup {<<t>> : t \in Flat \cup Combined} \cup {<<C, t>> : t \in Deep}
MCRules  ==
  {[pkg |-> pkg, form |-> form, from |-> from, given |-> <<>>, to |-> to] :
     pkg \in {"infer"}, form \in {"From"}, from \in RuleArgs, to \in RuleArgs}
  \cup {[pkg |-> pkg, form |-> form, from |-> from, given |-> <<>>, to |-> <<C>>] :
     pkg \in {"infer", "other"}, form \in {"From", "Build"}, from \in RuleArgs}
  \cup {[pkg |-> pkg, form |-> "Given", from |-> from, given |-> given, to |-> to] :
     pkg \in {"infer", "other"}, from \in {<<>>, <<A>>, <<Literal>>, <<A, B>>}, given \in RuleArgs,
     to \in {<<>>, <<C>>, <<Both>>}}
------------------------------------------------------------------------------
(* Calls. *)
Import(path, name) == [path |-> path, name |-> name]
CallAt(at, fn, args) == [at |-> at, fn |-> fn, args |-> args]
Statement(kind, calls, bodies) == [kind |-> kind, calls |-> calls, bodies |-> bodies]

Segments == [path \in {"a/lib", "b/lib", "c/v2"} |-> IF path = "c/v2" THEN "v2" ELSE "lib"]
Clauses  == [path \in {"a/lib", "b/lib", "c/v2"} |-> IF path = "c/v2" THEN "lib2" ELSE "lib"]
MCContracted == {<<"own", "F">>, <<"a/lib", "F">>, <<"c/v2", "F">>}

\* A package that is not named like its path has an explicit name, as the
\* scanner asks for; dot imports are left out.
MCImports == {Import("a/lib", ""), Import("a/lib", "b"), Import("a/lib", "_"), Import("b/lib", ""),
              Import("b/lib", "lib2"), Import("c/v2", "lib2"), Import("c/v2", "lib")}
ImportLists ==
  {<<>>} \cup {<<i>> : i \in MCImports}
  \cup {<<ij[1], ij[2]>> : ij \in {xy \in MCImports \X MCImports : AliasOf(xy[1]) # AliasOf(xy[2])}}

FnNames == {<<"F">>, <<"G">>, <<"lib", "F">>, <<"lib2", "F">>, <<"b", "F">>, <<"lib", "G">>}
Direct(at) == {CallAt(at, fn, <<>>) : fn \in {<<"F">>, <<"lib", "F">>}}
Nested  == {CallAt(1, fn, <<CallAt(2, gn, <<>>)>>) : fn \in FnNames, gn \in FnNames}
           \cup {CallAt(1, <<"G">>, <<c, CallAt(3, <<"G">>, <<d>>)>>) : c \in Direct(2), d \in Direct(4)}

OneCall(at) == {Statement(kind, {c}, <<>>) : kind \in Simple, c \in Direct(at)}
InBody(at) == {Statement(kind, {}, <<<<s>>>>) : kind \in Compound, s \in OneCall(at)}
\* Calls in headers, and statements of other kinds, are left out.
Walked ==
  {Statement("expr", {c}, <<>>) : c \in Nested}
  \cup {Statement(kind, {}, <<<<s, t>>>>) : kind \in Compound, s \in OneCall(1), t \in InBody(2)}
  \cup {Statement(kind, {}, <<<<s>>, <<t>>>>) : kind \in {"if", "switch"}, s \in OneCall(1), t \in InBody(2)}

MCBodies == {[imports |-> l, body |-> <<s>>] :
               l \in ImportLists, s \in {Statement("expr", {c}, <<>>) : c \in Nested}}
            \cup {[imports |-> <<Import("a/lib", "")>>, body |-> <<s>>] : s \in Walked}

\* if F(x) {}
MCHeaders == {[imports |-> <<>>, body |-> <<Statement("if", {CallAt(1, <<"F">>, <<>>)}, <<<<>>>>)>>]}

Calling    == {Statement("expr", {c}, <<>>) : c \in Nested}
MCStmtNode == Calling \cup Walked \cup OneCall(1) \cup OneCall(2) \cup InBody(2)
HeaderNode == {b.body[1] : b \in MCHeaders}
MCCallNode == Nested \cup Direct(1) \cup {CallAt(2, gn, <<>>) : gn \in FnNames}
              \cup {CallAt(3, <<"G">>, <<d>>) : d \in Direct(4)} \cup Direct(4)
------------------------------------------------------------------------------
(* Expressions. *)
E0(op, fact)   == [op |-> op, fact |-> fact, args |-> <<>>]
E1(op, e)      == [op |-> op, fact |-> <<>>, args |-> <<e>>]
E2(op, e1, e2) == [op |-> op, fact |-> <<>>, args |-> <<e1, e2>>]

Atoms == {E0("pred", <<"P", v>>) : v \in Subjects} \cup {E0("!=", <<"Nil", v>>) : v \in Subjects}
         \cup {E0("==", <<"Nil", "x">>), E0("call", <<>>)}
MustX == E0("prove.Must", <<"P", "x">>)

Small   == Atoms \cup {E1("!", e) : e \in Atoms} \cup {E2(op, e, f) : op \in {"&&", "||"}, e \in Atoms, f \in Atoms}
\* A call of prove.Must that && or || may skip, or in a function literal that
\* has not run, is left out.
Proving == {MustX, E1("!", MustX), E1("call", MustX), E1("()", E1("call", MustX))}
MCExprs ==
  Small \cup {E1("!", e) : e \in Small} \cup {E1("!", E1("()", e)) : e \in Small}
  \cup {E2(op, e, f) : op \in {"&&", "||"}, e \in Small, f \in Atoms \cup {E1("!", a) : a \in Atoms}}
  \cup {E2(op, m, e) : op \in {"&&", "||"}, m \in Proving, e \in Atoms} \cup Proving
  \cup {E0("prove.That", <<"P", "x">>), E1("call", E0("prove.That", <<"P", "x">>))}
  \cup {E2("&&", E2("||", m, e), f) : m \in Proving, e \in Atoms, f \in Atoms}
MCExprNode ==
  MCExprs \cup {E1("()", e) : e \in Small}
  \cup {E2("||", m, e) : m \in Proving, e \in Atoms}
------------------------------------------------------------------------------
(* Literals: int64 is a number of 4 bits, a float's step half. *)
Arg(shape, mag, neg) == [shape |-> shape, mag |-> mag, neg |-> neg]
MCLitArgs ==
  {Arg("INT", m, neg) : m \in 0..9, neg \in 0..2} \cup {Arg("FLOAT", m, neg) : m \in 0..6, neg \in 0..1}
  \cup {Arg("STRING", m, 0) : m \in 0..2}
  \cup {Arg(shape, 0, 0) : shape \in {"nil", "true", "false", "&X{}", "new", "make", "expr"}}

Type(kind, max, step) == [kind |-> kind, max |-> max, step |-> step]
\* float32, whose steps are coarser than those of the evaluator, and
\* interface types, whose zero value is nil, are left out.
MCParamTypes ==
  {Type("int", 7 * Fraction, Fraction), Type("int", 3 * Fraction, Fraction),
   Type("uint", 15 * Fraction, Fraction), Type("float", 64, 1), Type("string", 0, 1),
   Type("bool", 0, 1), Type("pointer", 0, 1), Type("chan", 0, 1)}

MCDemanded ==
  {[required |-> {p}, ors |-> {}] : p \in LiteralPreds \cup {"Local"}}
  \cup {[required |-> {}, ors |-> {<<p, q>>}] :
          p \in {"Positive", "Zero", "Odd", "Empty", "Nil"}, q \in {"NonPositive", "NonZero", "Even", "NonEmpty"}}
  \cup {[required |-> {"NonZero"}, ors |-> {<<"Negative", "Even">>, <<"Odd", "Positive">>}]}
------------------------------------------------------------------------------
(* Files. *)
Plain   == {"v", "u", "b", "x", "p"}
OfPa    == {"pa.P", "pa.V"}
OfPb    == {"pb.R"}
Proof   == {"proven.Returns(", "proven.That(", "proven.PredicateName"}
Trust   == {"trust.That(", "trust.Returns(", "trust.That[struct{}]"}
Silent  == {"g(", "h(", ",", ":=", "+", "return", ".F", ")", "}", "var _ =", "newline", "blank", "//line"}
MCEnding == Plain \cup OfPa \cup OfPb \cup {"return", ".F", ")", "}", "proven.PredicateName", "trust.That[struct{}]"}
MCPackageOf ==
  [w \in Plain \cup OfPa \cup OfPb \cup Proof \cup Trust \cup Silent |->
     CASE w \in OfPa -> "pa" [] w \in OfPb -> "pb" [] w \in Proof -> "proven"
       [] w \in Trust -> "trust" [] OTHER -> ""]

Call(fn, lead, rest, post) == [fn |-> fn, lead |-> lead, rest |-> rest, post |-> post]
Stmt(head, atom, calls, tail) == [head |-> head, atom |-> atom, calls |-> calls, tail |-> tail]
Return(atom, calls) == Stmt(<<"return">>, atom, calls, <<>>)
Define(atom, calls) == Stmt(<<"x", ":=">>, atom, calls, <<>>)
Argument(atom, calls) == Stmt(<<"g(">>, atom, calls, <<",", "b", ")">>)
Whole(atom, calls)  == Stmt(<<>>, atom, calls, <<>>)

OnOneLine(rests, posts) ==
  {Call(fn, <<>>, rest, post) : fn \in Expressions, rest \in rests, post \in posts}
  \cup {Call("h(", <<>>, <<",", "b">>, post) : post \in posts}
Inner   == OnOneLine({<<",", "pa.P">>, <<",", "p">>}, {<<>>, <<"+", "u">>, <<".F">>})
Outer   == OnOneLine({<<",", "p", ",", "pb.R">>}, {<<>>, <<".F">>})
Broken  == {Call(fn, lead, rest, <<>>) : fn \in Expressions \cup Statements,
              lead \in {<<>>, <<NL>>},
              rest \in {<<",", NL, "pa.P">>, <<",", NL, "p", ",", NL>>}}
Erasing(calls) == {c \in calls : c.fn \in Statements}

CallLists == {<<>>} \cup {<<c>> : c \in Inner \cup Outer} \cup {<<c, d>> : c \in Inner, d \in Outer}
OneLine   ==
  UNION {{Return(atom, cs), Define(atom, cs), Argument(atom, cs)} : atom \in {"v", "pa.V"}, cs \in CallLists}
Asserts   ==
  {Whole("v", <<c>>) : c \in Erasing(Broken) \cup {Call("proven.That(", <<>>, <<",", "pa.P">>, <<>>)}}
  \cup {Whole("v", <<c, d>>) : c \in Inner, d \in Erasing(Broken)}
\* Line breaks that end a statement once words around them are gone are left out.
ManyLines == {Define("v", <<c>>) : c \in Broken \ {d \in Broken : d.fn = "proven.That("}}

SourceFile(stmts, eof) ==
  LET f == [stmts |-> stmts, eof |-> eof, imports |-> {}]
  IN  [f EXCEPT !.imports = {PackageOf[w] : w \in ToSet(FileText(f))} \ {""}]

MCFiles ==
  {SourceFile(<<s>>, <<>>) : s \in OneLine}
  \cup {SourceFile(<<s>>, <<NL>>) : s \in Asserts \cup ManyLines}
  \cup {SourceFile(<<s, t>>, <<NL>>) :
          s \in Asserts, t \in {Return("v", <<>>), Return("pa.V", <<>>)}
                               \cup {Return("v", <<c>>) : c \in Outer}}
------------------------------------------------------------------------------
\* What the theorems of SourcePasses_proofs suppose of the inputs.
ASSUME NothingSkipped
ASSUME OrsKnown /\ \A f \in Functions : PlainContracts(f)
ASSUME Bodies = MCBodies => StatementsKnown /\ \A b \in Bodies : ImportsNamed(b)
ASSUME \A T \in ParamTypes : PlainType(T)
ASSUME \A f \in Files : LinesUnbroken(f)

PassIdle   == pass = "none" /\ input = <<>> /\ answer = <<>> /\ done = TRUE
ToolIdle   ==
  /\ line = Line(<<>>, <<>>, Absent, <<>>) /\ argv = <<>> /\ phase = "exit" /\ code = 1
  /\ plan = NoPlan /\ temp = {} /\ left = {} /\ unread = Absent /\ ran = <<>>

MCInit == (Init /\ PassIdle) \/ (PassInit /\ ToolIdle)
MCNext == (Next /\ UNCHANGED passVars) \/ (PassNext /\ UNCHANGED vars)
MCSpec == MCInit /\ [][MCNext]_<<vars, passVars>>
=============================================================================
