------------------------------ MODULE Rewriter ------------------------------
(***************************************************************************)
(* Erasing the contracts of a file that has been checked (rewriter.go): in *)
(* the text the compiler reads, every call of proven.Returns, trust.That   *)
(* and trust.Returns gives way to its first argument, every statement      *)
(* proven.That or trust.That to nothing, by overwriting with blanks so     *)
(* that what remains stays where it was.                                   *)
(*                                                                         *)
(* A text is a sequence of words, each as wide as one byte.  A statement   *)
(* is head, expression, tail; its expression an atom inside calls.  Where  *)
(* the nodes of the syntax tree start and end follows from that.           *)
(***************************************************************************)
EXTENDS Naturals, Sequences, SequencesExt

CONSTANTS PackageOf, \* of each word, the imported package it names, or ""
          Ending     \* the words that end a statement when a line ends in them

NL      == "newline"
Blank   == "blank"
Comment == "//line"
Brace   == "}"
Declare == "var _ ="

ProvenUse == "proven.PredicateName"
TrustUse  == "trust.That[struct{}]"

Statements  == {"proven.That(", "trust.That("}
Expressions == {"proven.Returns(", "trust.That(", "trust.Returns("}

Words == DOMAIN PackageOf

TextAssumption ==
  /\ {NL, ")", Brace, ProvenUse, TrustUse} \subseteq Words
  /\ PackageOf[NL] = ""
  /\ PackageOf[ProvenUse] = "proven"
  /\ PackageOf[TrustUse] = "trust"
  /\ \A fn \in Statements \cup Expressions : PackageOf[fn] \in {"proven", "trust"}
  /\ {ProvenUse, TrustUse} \subseteq Ending
  /\ \A w \in Words : PackageOf[w] \notin {"", "proven", "trust"} => w \in Ending
  /\ Ending \cap {NL, Blank, Comment, Declare, ";"} = {}
ASSUME TextAssumption

\* A call: fn and what follows up to the first argument, the words from the end
\* of the first argument on, and the operations on the result.
Open(c)      == <<c.fn>> \o c.lead
Close(c)     == c.rest \o <<")">>
Around(t, c) == Open(c) \o t \o Close(c) \o c.post

\* The text of the expression with its innermost k calls.
ExprText(s, k) ==
  LET text[j \in 0..Len(s.calls)] == IF j = 0 THEN <<s.atom>> ELSE Around(text[j - 1], s.calls[j])
  IN  text[k]
StmtText(s)    == s.head \o ExprText(s, Len(s.calls)) \o s.tail \o <<NL>>
Before(f, i)   == FlattenSeq([j \in 1..(i - 1) |-> StmtText(f.stmts[j])])
FileText(f)    == Before(f, Len(f.stmts) + 1) \o <<Brace>> \o f.eof

IsWhole(s) == /\ s.head = <<>> /\ s.tail = <<>> /\ s.calls # <<>>
              /\ Last(s.calls).fn \in Statements /\ Last(s.calls).post = <<>>
IsErased(c) == c.fn \in Expressions

\* What Go asks of a file: it imports what it names; the words before an
\* argument name nothing; only line breaks follow the last brace.
WellFormed(f) ==
  /\ f.stmts \in Seq(ToSet(f.stmts)) /\ f.eof \in Seq({NL})
  /\ \A s \in ToSet(f.stmts) :
       /\ {s.head, <<s.atom>>, s.tail} \subseteq Seq(Words) /\ s.calls \in Seq(ToSet(s.calls))
       /\ \A c \in ToSet(s.calls) : /\ {<<c.fn>>, c.lead, c.rest, c.post} \subseteq Seq(Words)
                                    /\ \A w \in ToSet(c.lead) : PackageOf[w] = ""
  /\ \A w \in ToSet(FileText(f)) : PackageOf[w] \in f.imports \cup {""}
------------------------------------------------------------------------------
\* What stands before the k-th call, the outermost first.
Opened(s, k) == FlattenSeq([j \in 1..(Len(s.calls) - k) |-> Open(s.calls[Len(s.calls) + 1 - j])])

\* Position of the k-th call of statement i.
CallStart(f, i, k) ==
  Len(Before(f, i)) + Len(f.stmts[i].head) + Len(Opened(f.stmts[i], k)) + 1

CallEdit(f, i, k) ==
  LET s      == f.stmts[i]
      start  == CallStart(f, i, k)
      arg    == start + Len(Open(s.calls[k]))
      argEnd == arg + Len(ExprText(s, k - 1))
  IN  [start |-> start, argStart |-> arg, argEnd |-> argEnd,
       end |-> argEnd + Len(Close(s.calls[k]))]

WholeEdit(f, i) ==
  LET e == CallEdit(f, i, Len(f.stmts[i].calls))
  IN  [e EXCEPT !.argStart = e.end, !.argEnd = e.end]

\* The edits of statement i: calls inside a whole statement are not visited.
EditsOf(f, i) ==
  LET s == f.stmts[i]
  IN  IF IsWhole(s) THEN {WholeEdit(f, i)}
      ELSE {CallEdit(f, i, k) : k \in {j \in DOMAIN s.calls : IsErased(s.calls[j])}}

CollectRewrites(f) == UNION {EditsOf(f, i) : i \in DOMAIN f.stmts}

\* Faulty: the first argument of a statement counts as kept.
DeadAfterValue(e) == e.argEnd..(e.end - 1)

\* Where the arguments are that an edit removes.
Dead(e) == IF e.argStart = e.end THEN e.start..(e.end - 1) ELSE e.argEnd..(e.end - 1)

\* collectAliasRefs: third-party packages named in arguments of a text that go.
Named(t, e)          == {PackageOf[t[n]] : n \in Dead(e)} \ {"", "proven", "trust"}
UsedAliases(t, edits) == UNION {Named(t, e) : e \in edits}

\* The name seen first: the outermost call's arguments are walked first.
FirstSeen(t, edits, pkg) ==
  LET E == {x \in edits : pkg \in Named(t, x)}
      e == CHOOSE x \in E : \A y \in E : x.start <= y.start
      N == {n \in Dead(e) : PackageOf[t[n]] = pkg}
  IN  t[CHOOSE n \in N : \A m \in N : n <= m]
------------------------------------------------------------------------------
\* Faulty: the end of the range is overwritten too.
BlankRangeClosed(t, from, to) ==
  [n \in DOMAIN t |-> IF n \in from..to /\ t[n] # NL THEN Blank ELSE t[n]]
\* Faulty: line breaks are overwritten too.
BlankRangeLines(t, from, to) == [n \in DOMAIN t |-> IF n \in from..(to - 1) THEN Blank ELSE t[n]]
BlankRange(t, from, to) ==
  [n \in DOMAIN t |-> IF n \in from..(to - 1) /\ t[n] # NL THEN Blank ELSE t[n]]

ApplyEdit(e, t) == BlankRange(BlankRange(t, e.start, e.argStart), e.argEnd, e.end)

\* The edit that is applied last of some (sortEditsInnermostFirst).
Outermost(edits) == CHOOSE e \in edits : \A d \in edits : e.start <= d.start

ApplyRewrites(t, edits) == MapThenFoldSet(ApplyEdit, t, LAMBDA e : e, Outermost, edits)

AppendSentinel(t, w) ==
  t \o (IF Last(t) # NL THEN <<NL>> ELSE <<>>) \o <<Declare, w, NL>>

Sentinels(imports, t, edits) ==
  (IF "proven" \in imports THEN <<ProvenUse>> ELSE <<>>)
  \o (IF "trust" \in imports THEN <<TrustUse>> ELSE <<>>)
  \o SetToSeq({FirstSeen(t, edits, pkg) : pkg \in UsedAliases(t, edits)})

\* The text handed to the compiler; the file itself when there is no edit.
RewriteSource(f) ==
  LET text  == FileText(f)
      edits == CollectRewrites(f)
  IN  IF edits = {} THEN text
      ELSE <<Comment, NL>> \o FoldLeft(AppendSentinel, ApplyRewrites(text, edits),
                                       Sentinels(f.imports, text, edits))
------------------------------------------------------------------------------
(* What a text means, and what it should mean. *)

\* The compiler's reading: no blanks, no comments, and a semicolon where a line
\* ends in a word that may end a statement.
Ends(u) == u # <<>> /\ Last(u) \in Ending

Lex(u, w) == CASE w \in {Blank, Comment} -> u
               [] w = NL -> IF Ends(u) THEN Append(u, ";") ELSE u
               [] OTHER  -> Append(u, w)

Lexed(t) == FoldLeft(Lex, <<>>, t)

\* The statement as it would have been written without contracts.
Strip(t, c) == IF IsErased(c) THEN t \o c.post ELSE Around(t, c)
Bare(s) ==
  IF IsWhole(s) THEN <<>>
  ELSE s.head \o FoldLeft(Strip, <<s.atom>>, s.calls) \o s.tail \o <<NL>>
BareText(f) == FlattenSeq([i \in DOMAIN f.stmts |-> Bare(f.stmts[i])]) \o <<Brace, NL>>

\* The compiler reads the file without its contracts, then declarations of
\* blank variables: the kept words, and the line breaks that matter.
KeepsProgram(f, text) ==
  LET kept == Lexed(BareText(f))
      read == Lexed(text)
      added == SubSeq(read, Len(kept) + 1, Len(read))
  IN  CollectRewrites(f) # {} =>
        /\ IsPrefix(kept, read)
        /\ \A n \in DOMAIN added : (n % 3 = 1) = (added[n] = Declare) /\ (n % 3 = 0) = (added[n] = ";")

\* No line break that stays ends the statement: where one stands before the
\* argument of an erased call, what is kept before it calls for more; where one
\* stands behind the argument, nothing behind it is kept.
KeptBefore(s, k) ==
  s.head \o FlattenSeq([j \in 1..(Len(s.calls) - k) |->
                          LET c == s.calls[Len(s.calls) + 1 - j]
                          IN  IF IsErased(c) THEN <<>> ELSE Open(c)])
NothingBehind(s, k) ==
  s.tail = <<>> /\ \A j \in DOMAIN s.calls : j > k => IsErased(s.calls[j]) /\ s.calls[j].post = <<>>
Unbroken(s) ==
  \A k \in DOMAIN s.calls :
    LET c == s.calls[k]
    IN  IsErased(c) => /\ NL \in ToSet(Open(c)) => ~Ends(Lexed(KeptBefore(s, k)))
                       /\ NL \in ToSet(Close(c)) => c.post = <<>> /\ NothingBehind(s, k)
LinesUnbroken(f) == \A s \in ToSet(f.stmts) : IsWhole(s) \/ Unbroken(s)

\* Every word that survives is on its line and in its column: behind the
\* comment line, the text differs from the file in blanks only.
KeepsPlaces(f, text) ==
  LET file == FileText(f)
  IN  CollectRewrites(f) # {} =>
        \A n \in DOMAIN file :
          text[n + 2] \in {file[n], Blank} /\ (file[n] = NL => text[n + 2] = NL)

\* Every package that the file used is still used by what is compiled.
KeepsImports(f, text) ==
  {PackageOf[w] : w \in ToSet(FileText(f))} \subseteq {PackageOf[w] : w \in ToSet(text)}
=============================================================================
