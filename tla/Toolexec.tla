------------------------------ MODULE Toolexec ------------------------------
(***************************************************************************)
(* One invocation of proven by go build -toolexec: the argument vector is  *)
(* split, the compilation planned, sources replaced by rewritten temporary *)
(* copies (or the linker stub appended), the next link of the --and-then   *)
(* chain or the tool itself run, and the temporary files removed.          *)
(*                                                                         *)
(* A word of an argument vector is a string.  What the package's analysis  *)
(* and the rewriter answer, and what the file system does, is open.        *)
(***************************************************************************)
EXTENDS Naturals, Sequences, FiniteSets, SequencesExt

CONSTANTS Lines,     \* command lines: proven's own words, links, tool, its words
          ToolPaths, \* the absolute paths whose base name is a Go tool's
          Compiler,  \* those of them that are the compiler
          Source,    \* words that end in .go
          CopyOf,    \* the path of the rewritten copy of each source
          Stub       \* the path of the synthesized stub

Sep      == "--and-then"
Proven   == "proven"     \* the import path of pkg/proven
Absent   == ""

\* Tools are absolute paths, and sources words.
ASSUME WordAssumption ==
  /\ ToolPaths \subseteq STRING /\ Sep \notin ToolPaths /\ Absent \notin ToolPaths
  /\ Source \subseteq STRING /\ Absent \notin Source

\* A temporary path is fresh: it is no other's, and no word of a command line.
ASSUME FreshAssumption ==
  /\ Stub \in STRING
  /\ CopyOf \in [Source -> STRING \ {Stub}]
  /\ \A s, t \in Source : CopyOf[s] = CopyOf[t] => s = t
  /\ \A l \in Lines :
       \A w \in {l.tool} \cup ToSet(l.args) : w # Stub /\ \A s \in Source : w # CopyOf[s]

\* Without successors go build names the tool and its words only.  A successor
\* has a name, none of its words is a tool, and --and-then only comes between.
ASSUME LineAssumption ==
  \A l \in Lines :
    /\ l.own \in Seq(STRING) /\ Sep \notin ToSet(l.own)
    /\ l.links \in Seq(Seq(STRING))
    /\ \A i \in DOMAIN l.links :
         l.links[i] # <<>> /\ ToSet(l.links[i]) \cap (ToolPaths \cup {Sep}) = {}
    /\ l.tool \in ToolPaths \cup {Absent} /\ l.args \in Seq(STRING)
    /\ l.links = <<>> => l.own = <<>> /\ Sep \notin ToSet(l.args)

VARIABLES line,   \* ghost: the command line as go build composed it
          argv,   \* the argument vector of the process about to run
          phase,  \* how far the invocation is
          plan,   \* NewArgs and Cleanup
          temp,   \* temporary files and directories that exist
          left,   \* places of the sources still to be rewritten
          unread, \* ghost: a source that could not be read a second time
          ran,    \* ghost: the successors that have run
          code    \* the exit code

vars == <<line, argv, phase, plan, temp, left, unread, ran, code>>
------------------------------------------------------------------------------
(* The argument vector. *)

\* What go build hands to proven: own words, then either the tool or, for each
\* successor, --and-then, its name and its words.
Chained(links) == FlattenSeq([i \in DOMAIN links |-> <<Sep>> \o links[i]])
Composed(l)    ==
  l.own \o Chained(l.links) \o (IF l.tool = Absent THEN <<>> ELSE <<l.tool>> \o l.args)

IsSep(w)  == w = Sep
IsTool(w) == w \in ToolPaths
From(s, i) == SubSeq(s, i, Len(s))

\* Faulty: the last tool path is taken.
LastGoToolIndex(args) == SelectLastInSeq(args, IsTool)

\* findGoToolIndex, from 1; 0 for none.
FindGoToolIndex(args) == SelectInSeq(args, IsTool)

NoParse == [ok |-> FALSE, next |-> <<>>, tool |-> Absent, args |-> <<>>]

ParseChain(args) ==
  LET split == SelectInSeq(args, IsSep)
      rest  == From(args, split + 1)
      tool  == FindGoToolIndex(rest)
  IN  IF split = 0
      THEN IF args = <<>> THEN NoParse
           ELSE [ok |-> TRUE, next |-> <<>>, tool |-> Head(args), args |-> Tail(args)]
      ELSE IF tool = 0 THEN NoParse
           ELSE [ok |-> TRUE, next |-> SubSeq(rest, 1, tool - 1), tool |-> rest[tool],
                 args |-> From(rest, tool + 1)]

\* compileFlagValue: the word after the flag's first occurrence.
CompileFlagValue(args, flag) ==
  LET I == {i \in 1..(Len(args) - 1) : args[i] = flag}
  IN  IF I = {} THEN Absent ELSE args[Min(I) + 1]

\* Faulty: every word is taken for a source.
AllWords(args) == DOMAIN args
\* compileSourceFiles, each source by its place in args.
CompileSourceFiles(args) == {i \in DOMAIN args : args[i] \in Source}

\* What proven has parsed; the plan reads nothing else.
Parsed == ParseChain(argv)

\* Each source that was rewritten gives way to its copy.
Substituted(args, copied) ==
  [i \in DOMAIN args |-> IF args[i] \in copied THEN CopyOf[args[i]] ELSE args[i]]

Dir(f)  == <<"dir", f>>
File(f) == <<"file", f>>

NoPlan == [copied |-> {}, stub |-> FALSE, cleanup |-> {}]
------------------------------------------------------------------------------
Init ==
  /\ line \in Lines
  /\ argv = Composed(line)
  /\ phase = "start" /\ plan = NoPlan /\ temp = {} /\ left = {}
  /\ unread = Absent /\ ran = <<>> /\ code = 0

Exit(c) == phase' = "exit" /\ code' = c

\* Faulty: the invocation counts as a success.
BadArgumentsForgiven ==
  /\ phase = "start" /\ ~Parsed.ok
  /\ Exit(0)
  /\ UNCHANGED <<line, argv, plan, temp, left, unread, ran>>

\* Run: no arguments, or a chain without a tool.
BadArguments ==
  /\ phase = "start" /\ ~Parsed.ok
  /\ Exit(IF argv = <<>> THEN 2 ELSE 1)
  /\ UNCHANGED <<line, argv, plan, temp, left, unread, ran>>

\* planCompile: other tools and compilations without -p are forwarded.
PlanCompile ==
  /\ phase = "start" /\ Parsed.ok
  /\ LET pkg == CompileFlagValue(Parsed.args, "-p")
     IN  phase' = IF Parsed.tool \notin Compiler \/ pkg = Absent THEN "exec"
                  ELSE IF pkg = Proven THEN "stub"
                  ELSE IF CompileSourceFiles(Parsed.args) = {} THEN "exec"
                  ELSE "user"
  /\ UNCHANGED <<line, argv, plan, temp, left, unread, ran, code>>

\* planProvenStub.  Reading, rendering or writing fails; or there is no
\* declaration to complete; or the stub is written.
PlanProvenStub ==
  /\ phase = "stub"
  /\ \/ Exit(1) /\ UNCHANGED <<plan, temp>>
     \/ phase' = "exec" /\ UNCHANGED <<plan, temp, code>>
     \/ /\ temp' = temp \cup {File(Stub)}
        /\ plan' = [copied |-> {}, stub |-> TRUE, cleanup |-> {File(Stub)}]
        /\ phase' = "exec" /\ UNCHANGED code
  /\ UNCHANGED <<line, argv, left, unread, ran>>

\* planUserPackage up to rewritePlan: a source does not parse, a contract is
\* not proved, there is nothing to erase, or the sources are to be rewritten.
PlanUserPackage ==
  /\ phase = "user"
  /\ \/ Exit(1) /\ UNCHANGED left
     \/ phase' = "exec" /\ UNCHANGED <<left, code>>
     \/ phase' = "rewrite" /\ left' = CompileSourceFiles(Parsed.args) /\ UNCHANGED code
  /\ UNCHANGED <<line, argv, plan, temp, unread, ran>>

\* rewritePlan takes the sources in their order: the place of the next one.
Turn(i) == i \in left /\ \A j \in left : i <= j

RewriteUnchanged ==
  /\ phase = "rewrite"
  /\ \E i \in left : Turn(i) /\ left' = left \ {i}
  /\ UNCHANGED <<line, argv, phase, plan, temp, unread, ran, code>>

Rewritten ==
  /\ phase = "rewrite"
  /\ \E i \in left :
       LET s == Parsed.args[i] IN
         /\ Turn(i) /\ left' = left \ {i}
         /\ temp' = temp \cup {Dir(s), File(s)}
         /\ plan' = [plan EXCEPT !.copied = @ \cup {s}, !.cleanup = @ \cup {File(s)}]
  /\ UNCHANGED <<line, argv, phase, unread, ran, code>>

\* The source cannot be read again.
RewriteFails ==
  /\ phase = "rewrite"
  /\ \E i \in left : Turn(i) /\ unread' = Parsed.args[i]
  /\ Exit(1)
  /\ UNCHANGED <<line, argv, plan, temp, left, ran>>

\* Faulty: the copies made before stay.
WriteFailsKeeping ==
  /\ phase = "rewrite" /\ left # {}
  /\ Exit(1)
  /\ UNCHANGED <<line, argv, plan, temp, left, unread, ran>>

\* The copy cannot be written: the copies made so far are removed.
WriteFails ==
  /\ phase = "rewrite" /\ left # {}
  /\ temp' = temp \ plan.cleanup
  /\ Exit(1)
  /\ UNCHANGED <<line, argv, plan, left, unread, ran>>

\* Faulty: the copies are removed before the tool reads them.
RewriteDoneCleaning ==
  /\ phase = "rewrite" /\ left = {}
  /\ phase' = "exec" /\ temp' = temp \ plan.cleanup
  /\ UNCHANGED <<line, argv, plan, left, unread, ran, code>>

RewriteDone ==
  /\ phase = "rewrite" /\ left = {}
  /\ phase' = "exec"
  /\ UNCHANGED <<line, argv, plan, temp, left, unread, ran, code>>

NewArgs == Substituted(Parsed.args, plan.copied) \o (IF plan.stub THEN <<Stub>> ELSE <<>>)

\* Faulty: the tool is started at once, whatever comes first in the chain.
ExecTool ==
  /\ phase = "exec"
  /\ argv' = <<Parsed.tool>> \o NewArgs
  /\ phase' = "running"
  /\ UNCHANGED <<line, plan, temp, left, unread, ran, code>>

\* exec.Command: the successor with the tool and its words appended, or the
\* tool.  The name is the first word of argv.
Exec ==
  /\ phase = "exec"
  /\ argv' = Parsed.next \o <<Parsed.tool>> \o NewArgs
  /\ phase' = "running"
  /\ UNCHANGED <<line, plan, temp, left, unread, ran, code>>

\* (external) A successor takes its own words and runs what follows them.
Successor ==
  /\ phase = "running" /\ Len(ran) < Len(line.links)
  /\ LET own  == line.links[Len(ran) + 1]
         rest == From(argv, Len(own) + 1)
     IN  /\ SubSeq(argv, 1, Len(own)) = own
         /\ ran' = Append(ran, own)
         /\ argv' = IF rest # <<>> /\ IsSep(Head(rest)) THEN Tail(rest) ELSE rest
  /\ UNCHANGED <<line, phase, plan, temp, left, unread, code>>

\* (external) A process that is none of the successors: the tool runs.
Tool ==
  /\ phase = "running" /\ Len(ran) = Len(line.links)
  /\ phase' = "ran" /\ code' \in {0, 2}
  /\ UNCHANGED <<line, argv, plan, temp, left, unread, ran>>

\* (external) The process cannot be started, or is not the one it should be.
ExecFails ==
  /\ phase = "running"
  /\ phase' = "ran" /\ code' = 1
  /\ UNCHANGED <<line, argv, plan, temp, left, unread, ran>>

\* The deferred Cleanup, and the exit code of the tool.
Cleanup ==
  /\ phase = "ran"
  /\ temp' = temp \ plan.cleanup
  /\ phase' = "exit"
  /\ UNCHANGED <<line, argv, plan, left, unread, ran, code>>

Next ==
  \/ BadArguments \/ PlanCompile \/ PlanProvenStub \/ PlanUserPackage
  \/ RewriteUnchanged \/ Rewritten \/ RewriteFails \/ WriteFails \/ RewriteDone
  \/ Exec \/ Successor \/ Tool \/ ExecFails \/ Cleanup

Spec == Init /\ [][Next]_vars
------------------------------------------------------------------------------
TypeOK ==
  /\ phase \in {"start", "stub", "user", "rewrite", "exec", "running", "ran", "exit"}
  /\ plan \in [copied : SUBSET Source, stub : BOOLEAN,
               cleanup : SUBSET {File(f) : f \in Source \cup {Stub}}]
  /\ temp \subseteq {File(f) : f \in Source \cup {Stub}} \cup {Dir(s) : s \in Source}
  /\ unread \in Source \cup {Absent}
  /\ code \in 0..2

\* The last successor has run, and the process it starts is the tool's.
Reached == phase = "running" /\ Len(ran) = Len(line.links)

\* Through any chain, the tool that proven plans for and the tool that runs is
\* the one go build asked for, with its words in their order: a source may have
\* given way to its own copy, and only the stub may have been added.
ToolAsInvoked ==
  /\ phase \in {"stub", "user", "rewrite", "exec"} =>
       Parsed.tool = line.tool /\ Parsed.args = line.args
  /\ Reached => argv = <<line.tool>> \o Substituted(line.args, plan.copied)
                                     \o (IF plan.stub THEN <<Stub>> ELSE <<>>)

\* Before that, the process started is the next successor, with its own words:
\* none is skipped, and none takes the words of another.
SuccessorsRun ==
  phase = "running" /\ Len(ran) < Len(line.links) => IsPrefix(line.links[Len(ran) + 1], argv)

\* When the tool runs, every temporary path it is given still exists.
InputsExist ==
  Reached => /\ \A s \in Source : CopyOf[s] \in ToSet(argv) => File(s) \in temp
             /\ Stub \in ToSet(argv) => File(Stub) \in temp

\* No temporary file outlives the invocation, whichever step failed, except
\* when a source was read once and cannot be read again.
FilesRemoved ==
  phase = "exit" /\ unread = Absent => \A f \in Source \cup {Stub} : File(f) \notin temp

\* go build is told of success only by the tool itself.
SuccessIsTheTools ==
  phase = "exit" /\ code = 0 =>
    Len(ran) = Len(line.links) /\ argv # <<>> /\ Head(argv) = line.tool
=============================================================================
