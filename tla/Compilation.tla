---------------------------- MODULE Compilation ----------------------------
(***************************************************************************)
(* Compiling a program and running it.                                     *)
(*                                                                         *)
(* A user writes a program statement by statement and compiles it; the     *)
(* code then runs on the virtual machine of the robot.  What the program   *)
(* means is defined below by an interpreter of its source (Meaning), and   *)
(* what the code does by a model of the machine (Outcome); the machine is  *)
(* not part of this repository and is modelled from the code that is       *)
(* generated for it.                                                       *)
(***************************************************************************)
EXTENDS CompilerCode

CONSTANTS Constants,     \* the declarations: sequences of name and expression,
          Variables,     \* of name, size (0 for none) and sequence of initial values
          Pieces,        \* the statements a program is made of
          EventName,     \* the event it handles
          SubName,       \* the subroutine it defines
          MaxPieces,     \* how many statements it has
          Inputs         \* sequences of values of the first variable of the robot

VARIABLES source,        \* the numbers of the statements of each part of the program
          compiled       \* what compile() returned, or a record that says "none"

compilationVars == <<source, compiled>>

-----------------------------------------------------------------------------
(* The text of a program, as tokens, with no more parentheses than needed. *)

Num(v) == Mk("num", <<>>, <<v>>)
Ref(name) == Mk("ref", <<>>, <<name>>)
At(name, e) == Mk("ref", <<e>>, <<name>>)
Slice(name, a, b) == Mk("ref", <<a, b>>, <<name>>)
Vec(es) == Mk("vec", es, <<>>)
Bin(op, l, r) == Mk("bin", <<l, r>>, <<op>>)
Un(op, e) == Mk("un", <<e>>, <<op>>)
Set(l, op, r) == Mk("set", <<l, r>>, <<op>>)
Inc(l, op) == Mk("inc", <<l>>, <<op>>)
Do(k, c, a) == Mk(k, c, a)

Precedence(e) ==
    CASE e.k = "bin" -> CHOOSE i \in 1 .. 10 :
             Op(e) \in <<{"or"}, {"and"}, {}, Comparisons, {"|"}, {"^"}, {"&"},
                         {"<<", ">>"}, {"+", "-"}, {"*", "/", "%"}>>[i]
      [] e.k = "un" -> IF Op(e) = "not" THEN 3 ELSE 11
      [] OTHER -> 12

Keys(ts) == [i \in DOMAIN ts |-> K(ts[i])]

RECURSIVE Text(_, _)
Text(e, level) ==
    LET List(es) == FlattenSeq([i \in DOMAIN es |->
                        (IF i = 1 THEN <<>> ELSE Keys(<<",">>)) \o Text(es[i], 5)])
        own == Precedence(e)
        text == CASE e.k = "num" -> IF e.a[1] < 0 THEN <<K("-"), Literal(-e.a[1])>>
                                    ELSE <<Literal(e.a[1])>>
                  [] e.k = "ref" /\ e.c = <<>> -> <<Name(e.a[1])>>
                  [] e.k = "ref" /\ Len(e.c) = 1 ->
                       <<Name(e.a[1]), K("[")>> \o Text(e.c[1], 5) \o Keys(<<"]">>)
                  [] e.k = "ref" /\ Len(e.c) = 2 ->
                       <<Name(e.a[1]), K("[")>> \o Text(e.c[1], 5) \o Keys(<<":">>)
                       \o Text(e.c[2], 5) \o Keys(<<"]">>)
                  [] e.k = "vec" -> Keys(<<"[">>) \o List(e.c) \o Keys(<<"]">>)
                  [] e.k = "bin" -> Text(e.c[1], own) \o <<K(Op(e))>> \o Text(e.c[2], own + 1)
                  [] e.k = "un" -> <<K(Op(e))>> \o Text(e.c[1], IF Op(e) = "not" THEN 4 ELSE 11)
    IN IF own < level THEN Keys(<<"(">>) \o text \o Keys(<<")">>) ELSE text

RECURSIVE TextOf(_)
TextOf(s) ==
    LET Body(i) == FlattenSeq([j \in DOMAIN s.c[i].c |-> TextOf(s.c[i].c[j])])
        Else(i) == IF Len(s.c) < i THEN Keys(<<"end">>)
                   ELSE IF s.c[i].k = "block" THEN Keys(<<"else">>) \o Body(i) \o Keys(<<"end">>)
                   ELSE Keys(<<"elseif">>) \o Tail(TextOf(s.c[i]))
    IN CASE s.k = "set" -> Text(s.c[1], 5) \o Keys(s.a) \o Text(s.c[2], 5)
         [] s.k = "inc" -> Text(s.c[1], 5) \o Keys(s.a)
         [] s.k = "if" -> Keys(<<"if">>) \o Text(s.c[1], 1) \o Keys(<<"then">>) \o Body(2) \o Else(3)
         [] s.k = "when" -> Keys(<<"when">>) \o Text(s.c[1], 1) \o Keys(<<"do">>) \o Body(2) \o Keys(<<"end">>)
         [] s.k = "while" -> Keys(<<"while">>) \o Text(s.c[1], 1) \o Keys(<<"do">>) \o Body(2) \o Keys(<<"end">>)
         [] s.k = "for" -> Keys(<<"for">>) \o Text(s.c[1], 5) \o Keys(<<"in">>) \o Text(s.c[2], 5)
                           \o Keys(<<":">>) \o Text(s.c[3], 5) \o Keys(<<"step">>) \o Text(s.c[4], 5)
                           \o Keys(<<"do">>) \o Body(5) \o Keys(<<"end">>)
         [] s.k = "emit" -> <<K("emit"), Name(s.a[1])>> \o FlattenSeq([i \in DOMAIN s.c |-> Text(s.c[i], 5)])
         [] s.k = "copy" -> <<K("call"), Name("copy"), K("(")>> \o Text(s.c[1], 5) \o Keys(<<",">>)
                            \o Text(s.c[2], 5) \o Keys(<<")">>)
         [] s.k = "callsub" -> <<K("callsub"), Name(SubName)>>
         [] s.k = "return" -> Keys(<<"return">>)

\* The statements of a part; a when statement is known by its place.
Statements(s, part) ==
    [i \in DOMAIN s[part] |-> LET piece == Pieces[s[part][i]]
                              IN IF piece.k = "when" THEN [piece EXCEPT !.a = <<<<part, i>>>>] ELSE piece]
TextOfAll(numbers) == FlattenSeq([i \in DOMAIN numbers |-> TextOf(Pieces[numbers[i]])])

Declarations ==
    LET Const(i) == <<K("const"), Name(Constants[i][1]), K("=")>> \o Text(Constants[i][2], 5)
        Var(i) == LET v == Variables[i]
                  IN <<K("var"), Name(v[1])>>
                     \o (IF v[2] = 1 THEN <<>> ELSE IF v[2] = 0 THEN Keys(<<"[", "]">>)
                         ELSE <<K("["), Literal(v[2]), K("]")>>)
                     \o IF v[3] = <<>> THEN <<>>
                        ELSE Keys(<<"=">>) \o Text(IF Len(v[3]) = 1 THEN v[3][1] ELSE Vec(v[3]), 5)
    IN FlattenSeq([i \in DOMAIN Constants |-> Const(i)]) \o FlattenSeq([i \in DOMAIN Variables |-> Var(i)])

Program(s) == Declarations \o TextOfAll(s.init)
              \o <<K("sub"), Name(SubName)>> \o TextOfAll(s.sub)
              \o <<K("onevent"), Name(EventName)>> \o TextOfAll(s.event) \o <<Eos>>

-----------------------------------------------------------------------------
(* What a program means.  A value is a sequence of 16-bit words; <<>> is   *)
(* an error at run time (an index out of bounds, a division by zero).      *)

RECURSIVE Eval(_, _)
Eval(e, vars) ==
    LET kids == [i \in DOMAIN e.c |-> Eval(e.c[i], vars)]
        Faulty == \E i \in DOMAIN kids : kids[i] = <<>>
        Divides == e.k = "bin" /\ Op(e) \in {"/", "%"}
    IN IF Faulty THEN <<>>
       ELSE IF Divides /\ 0 \in Range(kids[2]) THEN <<>>
       ELSE CASE e.k = "num" -> <<e.a[1]>>
              [] e.k = "vec" -> FlattenSeq(kids)
              [] e.k = "bin" -> [i \in DOMAIN kids[1] |-> Wrap(Calc(Op(e), kids[1][i], kids[2][i]))]
              [] e.k = "un" -> [i \in DOMAIN kids[1] |-> Wrap(CalcUnary(Op(e), kids[1][i]))]
              [] e.k = "ref" ->
                   LET all == vars[e.a[1]]
                       first == IF e.c = <<>> THEN 0 ELSE kids[1][1]
                       last == IF e.c = <<>> THEN Len(all) - 1 ELSE kids[Len(kids)][1]
                   IN IF first < 0 \/ last >= Len(all) THEN <<>> ELSE SubSeq(all, first + 1, last + 1)

\* A statement changes the variables, the emitted events and the conditions of the when
\* statements that were true; status says whether the part of the program goes on.
RECURSIVE Exec(_, _, _), ExecAll(_, _, _), Repeat(_, _, _, _)
Exec(s, m, sub) ==
    LET cond == Eval(s.c[1], m.vars)
        Assigned(ref, value) ==
            LET all == m.vars[ref.a[1]]
                at == Eval(ref.c[1], m.vars)
                first == IF ref.c = <<>> THEN 0 ELSE at[1]
            IN IF Eval(ref, m.vars) = <<>> \/ value = <<>> THEN [m EXCEPT !.status = "error"]
               ELSE [m EXCEPT !.vars[ref.a[1]] =
                        [i \in DOMAIN all |-> IF i - first \in DOMAIN value THEN value[i - first] ELSE all[i]]]
        Right(op) == Eval(IF op = "=" THEN s.c[2] ELSE Bin(Compound[op], s.c[1], s.c[2]), m.vars)
    IN CASE s.k = "set" -> Assigned(s.c[1], Right(s.a[1]))
         [] s.k = "inc" ->
              LET old == Eval(s.c[1], m.vars)
              IN Assigned(s.c[1], [i \in DOMAIN old |-> Wrap(old[i] + IF s.a[1] = "++" THEN 1 ELSE -1)])
         [] s.k = "copy" -> Assigned(s.c[1], Eval(s.c[2], m.vars))
         [] s.k = "emit" ->
              LET arg == IF s.c = <<>> THEN <<>> ELSE Eval(s.c[1], m.vars)
              IN IF s.c # <<>> /\ arg = <<>> THEN [m EXCEPT !.status = "error"]
                 ELSE [m EXCEPT !.out = Append(@, <<s.a[1], arg>>)]
         [] s.k = "block" -> ExecAll(s.c, m, sub)
         [] s.k = "if" -> IF cond = <<>> THEN [m EXCEPT !.status = "error"]
                          ELSE IF cond[1] # 0 THEN ExecAll(s.c[2].c, m, sub)
                          ELSE IF Len(s.c) = 3 THEN Exec(s.c[3], m, sub) ELSE m
         [] s.k = "when" ->
              LET now == [m EXCEPT !.was = IF cond[1] # 0 THEN @ \cup {s.a[1]} ELSE @ \ {s.a[1]}]
              IN IF cond = <<>> THEN [m EXCEPT !.status = "error"]
                 ELSE IF cond[1] # 0 /\ s.a[1] \notin m.was THEN ExecAll(s.c[2].c, now, sub) ELSE now
         [] s.k = "while" ->
              IF cond = <<>> THEN [m EXCEPT !.status = "error"]
              ELSE IF cond[1] = 0 THEN m
              ELSE LET once == ExecAll(s.c[2].c, m, sub)
                   IN IF once.status = "run" THEN Exec(s, once, sub) ELSE once
         [] s.k = "for" -> Repeat(s, Eval(s.c[2], m.vars)[1], m, sub)
         [] s.k = "callsub" -> LET after == ExecAll(sub, m, sub)
                               IN IF after.status = "return" THEN [after EXCEPT !.status = "run"] ELSE after
         [] s.k = "return" -> [m EXCEPT !.status = "return"]

ExecAll(ss, m, sub) == IF ss = <<>> \/ m.status # "run" THEN m
                       ELSE ExecAll(Tail(ss), Exec(Head(ss), m, sub), sub)

\* A for loop, the variable being v; it is left one step past the end.
Repeated(s, once, ends, step, sub) ==
    IF once.status # "run" \/ ends THEN once
    ELSE Repeat(s, Eval(s.c[1], once.vars)[1] + step, once, sub)
RepeatIn(s, from, to, step, v, set, sub) ==
    IF (IF step > 0 THEN v <= to ELSE v >= to) THEN Repeated(s, ExecAll(s.c[5].c, set, sub), from = to, step, sub)
    ELSE set
Repeat(s, v, m, sub) ==
    LET Bound(i) == Eval(s.c[i], m.vars)[1]
    IN RepeatIn(s, Bound(2), Bound(3), Bound(4), v, Exec(Set(s.c[1], "=", Num(v)), m, sub), sub)

\* The init part runs, then the event is handled once for each input.
Meaning(s, inputs) ==
    LET zero(n) == [i \in 1 .. n |-> 0]
        robot == [n \in {v.name : v \in Range(Target.variables)} |->
                     zero((CHOOSE v \in Range(Target.variables) : v.name = n).size)]
        Declare(vars, v) == vars @@ (v[1] :> IF v[3] = <<>> THEN zero(v[2]) ELSE Eval(Vec(v[3]), vars))
        Define(vars, c) == vars @@ (c[1] :> Eval(c[2], vars))
        common == [n \in DOMAIN CompilerStart.consts |-> <<CompilerStart.consts[n]>>]
        start == FoldLeft(Declare, FoldLeft(Define, robot @@ common, Constants), Variables)
        sub == Statements(s, "sub")
        Event(m, x) == IF m.status = "error" THEN m
                       ELSE ExecAll(Statements(s, "event"),
                                    [m EXCEPT !.status = "run", !.vars[Target.variables[1].name][1] = x], sub)
    IN FoldLeft(Event, ExecAll(Statements(s, "init"),
                               [vars |-> start, out |-> <<>>, was |-> {}, status |-> "run"], sub), inputs)

-----------------------------------------------------------------------------
(* The virtual machine of the robot (external). *)

Signed12(v) == IF v >= 2048 THEN v - 4096 ELSE v

\* One instruction: words are counted from 0, was holds the branches of when statements
\* whose condition was true, the return addresses of calls are on the stack.
VmStep(words, m) ==
    LET word == words[m.pc + 1]
        next == words[m.pc + 2]
        arg == ArgOf(word)
        depth == Len(m.stack)
        top == m.stack[depth]
        below == m.stack[depth - 1]
        Popped(n) == SubSeq(m.stack, 1, depth - n)
        To(pc, stack) == [m EXCEPT !.pc = pc, !.stack = stack]
        Push(n, v) == To(m.pc + WordSize(word), Append(Popped(n), v))
        error == [m EXCEPT !.status = "error"]
    IN CASE IdOf(word) = STOP -> [m EXCEPT !.status = "done"]
         [] IdOf(word) = SMALL_IMMEDIATE -> Push(0, Signed12(arg))
         [] IdOf(word) = LARGE_IMMEDIATE -> Push(0, Wrap(next))
         [] IdOf(word) = LOAD -> Push(0, m.mem[arg + 1])
         [] IdOf(word) = STORE -> [To(m.pc + 1, Popped(1)) EXCEPT !.mem[arg + 1] = top]
         [] IdOf(word) = LOAD_INDIRECT ->
              IF top \notin 0 .. next - 1 THEN error ELSE Push(1, m.mem[arg + top + 1])
         [] IdOf(word) = STORE_INDIRECT ->
              IF top \notin 0 .. next - 1 THEN error
              ELSE [To(m.pc + 2, Popped(2)) EXCEPT !.mem[arg + top + 1] = below]
         [] IdOf(word) = UNARY_ARITHMETIC -> Push(1, Wrap(CalcUnary(UnaryOrder[arg + 1], top)))
         [] IdOf(word) = BINARY_ARITHMETIC ->
              IF OpOrder[arg + 1] \in {"/", "%"} /\ top = 0 THEN error
              ELSE Push(2, Wrap(Calc(OpOrder[arg + 1], below, top)))
         [] IdOf(word) = JUMP -> To(m.pc + Signed12(arg), m.stack)
         [] IdOf(word) = CONDITIONAL_BRANCH ->
              LET true == Calc(OpOrder[(arg % IsWhen) + 1], below, top) # 0
                  enter == true /\ ~(arg >= IsWhen /\ m.pc \in m.was)
              IN [To(m.pc + IF enter THEN 2 ELSE next, Popped(2)) EXCEPT
                     !.was = IF true THEN @ \cup {m.pc} ELSE @ \ {m.pc}]
         [] IdOf(word) = EMIT ->
              [To(m.pc + 3, m.stack) EXCEPT
                  !.out = Append(@, <<GlobalEvents[arg + 1], SubSeq(m.mem, next + 1, next + words[m.pc + 3])>>)]
         [] IdOf(word) = NATIVE_CALL ->
              LET size == m.stack[depth - 2]
              IN [To(m.pc + 1, Popped(3)) EXCEPT
                     !.mem = [i \in DOMAIN m.mem |-> IF i - top \in 1 .. size THEN m.mem[i - top + below]
                                                     ELSE m.mem[i]]]
         [] IdOf(word) = SUB_CALL -> To(arg, Append(m.stack, m.pc + 1))
         [] IdOf(word) = SUB_RET -> To(top, Popped(1))

\* At most 2^n instructions.
RECURSIVE VmRun(_, _, _)
VmRun(words, m, n) == IF m.status # "run" THEN m
                      ELSE IF n = 0 THEN VmStep(words, m)
                      ELSE VmRun(words, VmRun(words, m, n - 1), n - 1)

\* An event is found in the table at the start of the code; unknown ones do nothing.
VmEvent(words, m, event) ==
    LET entries == {i \in 2 .. words[1] : i % 2 = 0 /\ words[i] = event}
    IN IF m.status = "error" \/ entries = {} THEN m
       ELSE VmRun(words, [m EXCEPT !.status = "run", !.pc = words[(CHOOSE i \in entries : TRUE) + 1]], 9)

Outcome(words, inputs) ==
    LET start == [pc |-> 0, stack |-> <<>>, mem |-> [i \in 1 .. Target.variablesSize |-> 0],
                  out |-> <<>>, was |-> {}, status |-> "done"]
        event == CHOOSE i \in FindAnyEvent(EventName) : TRUE
        Event(m, x) == VmEvent(words, IF m.status = "error" THEN m ELSE [m EXCEPT !.mem[1] = x], event)
    IN FoldLeft(Event, VmEvent(words, start, InitEvent), inputs)

-----------------------------------------------------------------------------
(* Behaviour. *)

CompilationInit == /\ source = [init |-> <<>>, sub |-> <<>>, event |-> <<>>]
                   /\ compiled = [k |-> "none"]

WriteStatement(part, i) ==
    /\ compiled.k = "none"
    /\ Len(source.init) + Len(source.sub) + Len(source.event) < MaxPieces
    /\ source' = [source EXCEPT ![part] = Append(@, i)]
    /\ UNCHANGED compiled

CompileProgram ==
    /\ compiled.k = "none"
    /\ compiled' = Compile(Program(source))
    /\ UNCHANGED source

CompilationNext == \/ \E part \in DOMAIN source, i \in DOMAIN Pieces : WriteStatement(part, i)
                   \/ CompileProgram

-----------------------------------------------------------------------------
(* Properties. *)

Accepted == compiled.k = "code"

\* The places of a segment that a branch or a jump of its code leads to.
Targets(code) ==
    LET starts == Starts(code)
    IN {i + Signed12(ArgOf(code[i])) : i \in {j \in starts : IdOf(code[j]) = JUMP}}
       \cup {i + code[i + 1] : i \in {j \in starts : IdOf(code[j]) = CONDITIONAL_BRANCH}}

Inside(s) == LET code == compiled.segments[s].code IN Targets(code) \subseteq Starts(code)
SegmentsInside == \A s \in DOMAIN compiled.segments : Inside(s)

\* PreLinkBytecode::fixup (tree-emit.cpp): every subroutine is closed, so no path through
\* its code leads past its last instruction into what follows it in memory.
SubroutinesClosed == Accepted => \A s \in DOMAIN compiled.segments : s[1] = "sub" => Inside(s)

\* The values of the variables, the emitted events and the failure agree.
SameOutcome(meant, done) ==
    LET Words(place) == SubSeq(done.mem, place[1] + 1, place[1] + place[2])
    IN /\ meant.out = done.out
       /\ meant.status = "error" <=> done.status = "error"
       /\ meant.status # "error" =>
             \A n \in DOMAIN compiled.vars : Words(compiled.vars[n]) = meant.vars[n]

\* Compiler::compile: the code that is produced does what the program says.  For every
\* accepted program whose subroutines are closed, running the code leaves the same values
\* in the variables and emits the same events as the source, and fails where it fails:
\* parsing by precedence, allocation of variables and temporaries, expansion of vectors,
\* optimisation, branches, calls and the linked addresses agree.  The statements leave out
\* where optimisation and source are known to differ: constants that only meet in 32 bits, a
\* negative number divided by a power of two, an operand that fails beside an absorbing
\* constant, a "when" that is constant, and a loop that passes the last 16-bit number.
CompiledMeaning ==
    Accepted /\ SegmentsInside =>
        \A x \in Inputs : SameOutcome(Meaning(source, x), Outcome(compiled.words, x))

=============================================================================
