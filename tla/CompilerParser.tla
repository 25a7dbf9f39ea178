--------------------------- MODULE CompilerParser ---------------------------
(***************************************************************************)
(* The parser of the Aseba compiler (src/aseba/compiler/parser.cpp): a     *)
(* recursive descent over the tokens that builds the tree of CompilerTree  *)
(* and, on the way, allocates variables and temporaries.                   *)
(*                                                                         *)
(* A token is a record: its type t, and for a name or an integer literal   *)
(* its value v.  A parsing operator returns the node n, the tokens r that  *)
(* are left and, where it changes it, the state st of the compiler: the    *)
(* maps of variables and constants, the first free variable, the size of   *)
(* the temporaries, the implemented events and the subroutines.  Where the *)
(* code throws, n is Error and no token is left.                           *)
(***************************************************************************)
EXTENDS CompilerTree

K(t) == [t |-> t]
Eos == K("eos")
Literal(v) == [t |-> "int", v |-> v]
Name(s) == [t |-> "name", v |-> s]

Failed(n) == [n |-> n, r |-> <<Eos>>]
Throw == Failed(Error)
ThrowSt(st) == [n |-> Error, r |-> <<Eos>>, st |-> st]
Yield(n, r) == IF n.k \in {"error", "abort"} THEN Failed(n) ELSE [n |-> n, r |-> r]
With(p, st) == [n |-> p.n, r |-> p.r, st |-> st]
Raises(p) == p.n.k \in {"error", "abort"}
Is(ts, t) == ts[1].t = t

\* buildMaps, getVariablesMap
CompilerStart ==
    LET Place(acc, v) == [vars |-> acc.vars @@ (v.name :> <<acc.free, v.size>>),
                          free |-> acc.free + v.size]
        placed == FoldLeft(Place, [vars |-> <<>>, free |-> 0], Target.variables)
    IN [vars |-> placed.vars, free |-> placed.free, end |-> 0,
        consts |-> [c \in {x.name : x \in ToSet(Common.constants)} |->
                        (CHOOSE x \in ToSet(Common.constants) : x.name = c).value],
        events |-> {}, subs |-> <<>>]

\* Identifiers of events: global ones from 0, local ones down from 0xFFFE.
InitEvent == 65535
GlobalEvents == [i \in 1 .. Len(Common.events) |-> Common.events[i].name]
FindGlobalEvent(name) == {i - 1 : i \in {j \in DOMAIN GlobalEvents : GlobalEvents[j] = name}}
LocalEvent(name) == {65534 - (i - 1) : i \in {j \in DOMAIN Target.events : Target.events[j] = name}}
FindAnyEvent(name) == IF LocalEvent(name) # {} THEN LocalEvent(name) ELSE FindGlobalEvent(name)

-----------------------------------------------------------------------------
(* Expressions.  From the loosest to the tightest level: or, and, not,     *)
(* comparisons, then the levels of arithmetic, then unary expressions.     *)

ConditionLevels == <<{"or"}, {"and"}, {"not"}, Comparisons>>
ArithmeticLevels == <<{"|"}, {"^"}, {"&"}, {"<<", ">>"}, {"+", "-"}, {"*", "/", "%"}>>
Levels == ConditionLevels \o ArithmeticLevels
OrLevel == 1
BinaryOrLevel == 5

\* expectConstantExpression: the expression is assigned to a fake variable, expanded
\* and optimised; it is constant when an immediate is left.
Immediate(done) ==
    IF Raises([n |-> done]) THEN done
    ELSE IF done.c = <<>> THEN Error
    ELSE IF done.c[1].c[2].k # "imm" THEN Error
    ELSE done.c[1].c[2]
ConstantExpression(tree, st) ==
    LET fake == Memory(0, 1, "fake", <<>>, FALSE)
    IN Immediate(Optimize(Vectorial(ExpandAbstract(Assign(fake, tree)), 0, st).n))

\* expectInt16Literal, for a token that a minus sign may have negated.
Int16(v) == IF v \in -32768 .. 32767 THEN Imm(v) ELSE Error

RECURSIVE Parse(_, _, _), ParseChain(_, _, _), ParseUnary(_, _), ParseTuple(_, _, _, _),
          ParseVariable(_, _), ParseIndex(_, _)

\* parseOr ... parseMultExpression: a level is a chain of the next one.
Parse(level, ts, st) ==
    IF level > Len(Levels) THEN ParseUnary(ts, st)
    ELSE IF Levels[level] # {"not"} THEN ParseChain(level, Parse(level + 1, ts, st), st)
    ELSE LET nots == CHOOSE i \in 0 .. Len(ts) - 1 :
                         /\ ~Is(SubSeq(ts, i + 1, Len(ts)), "not")
                         /\ \A j \in 1 .. i : ts[j].t = "not"
             inner == Parse(level + 1, SubSeq(ts, nots + 1, Len(ts)), st)
         IN IF nots % 2 = 0 THEN inner ELSE Yield(Unary("not", inner.n), inner.r)

ParseChain(level, left, st) ==
    IF left.r[1].t \notin Levels[level] THEN left
    ELSE LET right == Parse(level + 1, Tail(left.r), st)
         IN ParseChain(level, Yield(Binary(left.r[1].t, left.n, right.n), right.r), st)

\* expect(t) after what was parsed, and the token popped.
Closed(p, t) == IF Raises(p) THEN p
                ELSE IF Is(p.r, t) THEN [n |-> p.n, r |-> Tail(p.r)] ELSE Throw

ParseUnary(ts, st) ==
    LET rest == Tail(ts)
        Operator(op) == LET p == ParseUnary(rest, st) IN Yield(Unary(op, p.n), p.r)
    IN CASE Is(ts, "(") -> Closed(Parse(OrLevel, rest, st), ")")
         [] Is(ts, "[") -> ParseTuple(rest, FALSE, <<>>, st)
         [] Is(ts, "-") -> IF Is(rest, "int") THEN Yield(Tuple(<<Int16(-rest[1].v)>>), Tail(rest))
                           ELSE Operator("-")
         [] Is(ts, "~") -> Operator("~")
         [] Is(ts, "abs") -> Operator("abs")
         [] Is(ts, "int") -> Yield(Tuple(<<Int16(ts[1].v)>>), rest)
         [] Is(ts, "name") -> IF ts[1].v \in DOMAIN st.consts
                              THEN Yield(Tuple(<<Int16(st.consts[ts[1].v])>>), rest)
                              ELSE ParseVariable(ts, st)
         [] OTHER -> Throw

\* parseTupleVector, after the bracket; compatibility is the form 1,2,3.
MoreOfTuple(p, compatibility, done, st) ==
    IF Is(p.r, ",") THEN ParseTuple(Tail(p.r), compatibility, Append(done, p.n), st)
    ELSE IF compatibility THEN Yield(Tuple(Append(done, p.n)), p.r)
    ELSE Closed(Yield(Tuple(Append(done, p.n)), p.r), "]")
ParseTuple(ts, compatibility, done, st) ==
    MoreOfTuple(IF Is(ts, "[") THEN ParseTuple(Tail(ts), FALSE, <<>>, st)
                ELSE Parse(BinaryOrLevel, ts, st), compatibility, done, st)

\* parseVariable: a name, name[expression] or name[start:end].
Indexed(name, place, p) == Yield(Memory(place[1], place[2], name, <<p.n>>, FALSE), p.r)
ParseVariable(ts, st) ==
    IF ts[1].t # "name" THEN Throw
    ELSE IF ts[1].v \notin DOMAIN st.vars THEN Throw
    ELSE LET name == ts[1].v
             place == st.vars[name]
         IN IF Is(Tail(ts), "[")
            THEN Closed(Indexed(name, place, ParseIndex(Tail(Tail(ts)), st)), "]")
            ELSE [n |-> Memory(place[1], place[2], name, <<>>, FALSE), r |-> Tail(ts)]

\* The index: a tuple of one or two constants, or an expression.  An error while it is
\* reduced to a constant only means that it is an expression.
IndexEnd(start, q, end) ==
    IF Raises(q) THEN q
    ELSE IF end.k # "imm" THEN Failed(end)
    ELSE IF Value(end) < Value(start) THEN Throw
    ELSE [n |-> Tuple(<<start, end>>), r |-> q.r]
IndexPair(start, q, st) == IndexEnd(start, q, ConstantExpression(q.n, st))
IndexStart(p, start, st) ==
    CASE Raises(p) -> p
      [] start.k = "abort" -> Failed(start)
      [] start.k = "error" -> p
      [] start.k = "imm" /\ ~Is(p.r, ":") -> [n |-> Tuple(<<start>>), r |-> p.r]
      [] start.k = "imm" /\ Is(p.r, ":") -> IndexPair(start, Parse(BinaryOrLevel, Tail(p.r), st), st)
IndexOf(p, st) == IndexStart(p, ConstantExpression(p.n, st), st)
ParseIndex(ts, st) == IndexOf(Parse(BinaryOrLevel, ts, st), st)

-----------------------------------------------------------------------------
(* Statements: the node, the tokens left and the state of the compiler.    *)

Compound == [t \in {"+=", "-=", "*=", "/=", "%=", "<<=", ">>=", "|=", "^=", "&="} |->
                CASE t = "+=" -> "+" [] t = "-=" -> "-" [] t = "*=" -> "*" [] t = "/=" -> "/"
                  [] t = "%=" -> "%" [] t = "<<=" -> "<<" [] t = ">>=" -> ">>"
                  [] t = "|=" -> "|" [] t = "^=" -> "^" [] t = "&=" -> "&"]

AssignValue(op, left, right) ==
    CASE op = "=" -> Yield(Assign(left, right.n), right.r)
      [] op \in DOMAIN Compound -> Yield(Node("opassign", <<left, right.n>>, <<Compound[op]>>), right.r)
      [] OTHER -> Throw
AssignTo(left, st) ==
    LET op == left.r[1].t
    IN CASE Raises(left) -> left
         [] op = "++" -> Yield(Node("incr", <<left.n>>, <<"+">>), Tail(left.r))
         [] op = "--" -> Yield(Node("incr", <<left.n>>, <<"-">>), Tail(left.r))
         [] OTHER -> AssignValue(op, left.n, Parse(BinaryOrLevel, Tail(left.r), st))
ParseAssignment(ts, st) ==
    With(AssignTo(IF Is(ts, "name") THEN Parse(BinaryOrLevel, ts, st) ELSE Throw, st), st)

\* parseEmit: the argument is copied to a temporary unless it is a memory whose address
\* is known; a hidden emit (shorter) may pass fewer words than the event has.
EmitNode(event, at, size, kids, rest) == Yield(Node("emit", kids, <<event, at, size>>), rest)
EmitTemporary(event, given, p, more) ==
    IF ~Fits(more) THEN ThrowSt(more)
    ELSE With(EmitNode(event, TempAddr(more), given, <<Assign(Temporary(more, given, FALSE), p.n)>>, p.r), more)
EmitArgument(event, p, given, addr, shorter, st) ==
    LET size == Common.events[event + 1].size
    IN IF Raises(p) THEN With(p, st)
       ELSE IF Thrown \in {given, addr} \/ (IF shorter THEN given > size ELSE given # size)
       THEN ThrowSt(st)
       ELSE IF addr # NoVal THEN With(EmitNode(event, addr, given, <<>>, p.r), st)
       ELSE EmitTemporary(event, given, p, TakeTemp(st, given))
EmitVector(event, p, shorter, st) ==
    EmitArgument(event, p, SizeOf(p.n), IF p.n.k = "mem" THEN AddrOf(p.n) ELSE NoVal, shorter, st)
ParseEmit(ts, shorter, st) ==
    LET id == IF Is(Tail(ts), "name") THEN FindGlobalEvent(ts[2].v) ELSE {}
        event == CHOOSE i \in id : TRUE
        rest == Tail(Tail(ts))
    IN IF id = {} THEN ThrowSt(st)
       ELSE IF Common.events[event + 1].size = 0 THEN With(EmitNode(event, 0, 0, <<>>, rest), st)
       ELSE EmitVector(event, Parse(BinaryOrLevel, rest, st), shorter, st)

\* parseFunctionCall, argument by argument: a memory whose address is known is passed by
\* its address, an indexed one by an address computed at run time, anything else by a
\* temporary.  A size of 0 in the prototype is any size, a negative one is shared.
RECURSIVE ParseArguments(_, _, _, _, _, _)
ArgumentNode(p, given, addr, more) ==
    IF p.n.k # "mem"
    THEN Block(<<Assign(Temporary(more, given, FALSE), p.n), Imm(TempAddr(more))>>)
    ELSE IF addr = NoVal
    THEN Node("nativearg", p.n.c, <<TempAddr(more), p.n.a.addr, p.n.a.size>>)
    ELSE Imm(addr)
CallNode(f, kids, any, shared, rest) ==
    LET templates == SetToSortSeq(DOMAIN shared, LAMBDA x, y : x > y)
    IN Closed(Yield(Node("call", kids, <<f - 1, any \o [j \in DOMAIN templates |-> shared[templates[j]]]>>),
                    rest), ")")
AfterArgument(f, kids, any, shared, rest, st) ==
    IF Len(kids) = Len(Target.functions[f].parameters) THEN With(CallNode(f, kids, any, shared, rest), st)
    ELSE IF ~Is(rest, ",") THEN ThrowSt(st)
    ELSE ParseArguments(f, Tail(rest), kids, any, shared, st)
Argument(f, kids, any, shared, p, given, addr, more) ==
    LET size == Target.functions[f].parameters[Len(kids) + 1]
        wrong == \/ size > 0 /\ given # size
                 \/ size < 0 /\ size \in DOMAIN shared /\ shared[size] # given
    IN IF Thrown \in {given, addr} \/ ~Fits(more) \/ wrong THEN ThrowSt(more)
       ELSE AfterArgument(f, Append(kids, ArgumentNode(p, given, addr, more)),
                          IF size = 0 THEN Append(any, given) ELSE any,
                          IF size < 0 THEN (size :> given) @@ shared ELSE shared, p.r, more)
ArgumentTemp(p, given, addr, st) ==
    IF p.n.k # "mem" THEN TakeTemp(st, given) ELSE IF addr = NoVal THEN TakeTemp(st, 1) ELSE st
PlaceArgument(f, kids, any, shared, p, given, addr, st) ==
    IF Raises(p) THEN With(p, st)
    ELSE Argument(f, kids, any, shared, p, given, addr, ArgumentTemp(p, given, addr, st))
MeasureArgument(f, kids, any, shared, p, st) ==
    PlaceArgument(f, kids, any, shared, p, SizeOf(p.n), AddrOf(p.n), st)
ParseArguments(f, ts, kids, any, shared, st) ==
    IF Is(ts, ")") THEN ThrowSt(st)
    ELSE MeasureArgument(f, kids, any, shared, Parse(BinaryOrLevel, ts, st), st)

ParseFunctionCall(ts, st) ==
    LET fs == IF Is(Tail(ts), "name")
              THEN {f \in DOMAIN Target.functions : Target.functions[f].name = ts[2].v} ELSE {}
        f == CHOOSE x \in fs : TRUE
        rest == SubSeq(ts, 4, Len(ts))
    IN IF fs = {} THEN ThrowSt(st)
       ELSE IF ts[3].t # "(" THEN ThrowSt(st)
       ELSE IF Target.functions[f].parameters = <<>>
       THEN With(Closed(Yield(Node("call", <<>>, <<f - 1, <<>>>>), rest), ")"), st)
       ELSE ParseArguments(f, rest, <<>>, <<>>, <<>>, st)

RECURSIVE ParseBlockStatement(_, _), ParseBlock(_, _, _, _), ParseIfWhen(_, _, _),
          ParseFor(_, _), ParseWhile(_, _)

ParseBlockStatement(ts, st) ==
    LET named == IF Is(Tail(ts), "name") THEN Mk("callsub", <<>>, <<ts[2].v>>) ELSE Error
    IN CASE Is(ts, "if") -> ParseIfWhen(ts, FALSE, st)
         [] Is(ts, "when") -> ParseIfWhen(ts, TRUE, st)
         [] Is(ts, "for") -> ParseFor(ts, st)
         [] Is(ts, "while") -> ParseWhile(ts, st)
         [] Is(ts, "emit") -> ParseEmit(ts, FALSE, st)
         [] Is(ts, "_emit") -> ParseEmit(ts, TRUE, st)
         [] Is(ts, "call") -> ParseFunctionCall(ts, st)
         [] Is(ts, "callsub") -> With(Yield(named, Tail(Tail(ts))), st)
         [] Is(ts, "return") -> With(Yield(Mk("return", <<>>, <<>>), Tail(ts)), st)
         [] OTHER -> ParseAssignment(ts, st)

\* The statements up to one of the words of stop, which is left.
MoreOfBlock(p, stop, done) ==
    IF Raises(p) THEN p ELSE ParseBlock(p.r, stop, Append(done, p.n), p.st)
ParseBlock(ts, stop, done, st) ==
    IF ts[1].t \in stop THEN With(Yield(Block(done), ts), st)
    ELSE MoreOfBlock(ParseBlockStatement(ts, st), stop, done)

\* parseIfWhen: the node; the last block and the end; the first block; the condition.
IfWhen(edge, cond, true, last, rest, st) ==
    With(Yield(Node(IF edge THEN "when" ELSE "if", <<cond.n, true.n>> \o last, <<>>), rest), st)
IfElse(cond, true, false) == IfWhen(FALSE, cond, true, <<false.n>>, Tail(false.r), false.st)
IfElseIf(cond, true, nested) == IfWhen(FALSE, cond, true, <<nested.n>>, nested.r, nested.st)
ParseElse(edge, cond, true) ==
    CASE Raises(true) -> true
      [] Is(true.r, "end") -> IfWhen(edge, cond, true, <<>>, Tail(true.r), true.st)
      [] Is(true.r, "else") /\ ~edge -> IfElse(cond, true, ParseBlock(Tail(true.r), {"end"}, <<>>, true.st))
      [] Is(true.r, "elseif") /\ ~edge -> IfElseIf(cond, true, ParseIfWhen(true.r, FALSE, true.st))
      [] OTHER -> ThrowSt(true.st)
ParseThen(edge, cond, st) ==
    IF Raises(cond) THEN With(cond, st)
    ELSE ParseElse(edge, cond, ParseBlock(cond.r, {"else", "elseif", "end"}, <<>>, st))
ParseIfWhen(ts, edge, st) ==
    ParseThen(edge, Closed(Parse(OrLevel, Tail(ts), st), IF edge THEN "do" ELSE "then"), st)

\* expectInt16LiteralOrConstant, and the token popped.
ParseBound(ts, st) ==
    CASE Is(ts, "-") -> IF Is(Tail(ts), "int") THEN Yield(Int16(-ts[2].v), Tail(Tail(ts))) ELSE Throw
      [] Is(ts, "int") -> Yield(Int16(ts[1].v), Tail(ts))
      [] Is(ts, "name") -> IF ts[1].v \in DOMAIN st.consts
                           THEN Yield(Int16(st.consts[ts[1].v]), Tail(ts)) ELSE Throw
      [] OTHER -> Throw

\* A for loop is an assignment and, unless it runs once, a while loop.
ForLoop(var, start, end, step, body) ==
    LET increment == Assign(var, Binary("+", var, Tuple(<<Imm(step)>>)))
        more == Binary(IF start <= end THEN "<=" ELSE ">=", var, Tuple(<<Imm(end)>>))
        loop == Node("while", <<more, Block(Append(body, increment))>>, <<>>)
    IN Block(<<Assign(var, Tuple(<<Imm(start)>>))>> \o IF start = end THEN body ELSE <<loop>>)
ForBody(var, start, end, step, ts, body, st) ==
    IF \/ step = 0
       \/ step > 0 /\ (start > end \/ end = 32767)
       \/ step < 0 /\ (start < end \/ end = -32768)
       \/ ~Is(ts, "do")
    THEN ThrowSt(st)
    ELSE IF Raises(body) THEN body
    ELSE With(Yield(ForLoop(var, start, end, step, body.n.c), Tail(body.r)), body.st)
ForBounds(var, from, to, by, st) ==
    LET raised == SelectSeq(<<var, from, to, by>>, Raises)
    IN IF raised # <<>> THEN With(raised[1], st)
       ELSE ForBody(var.n, Value(from.n), Value(to.n), Value(by.n), by.r,
                    ParseBlock(Tail(by.r), {"end"}, <<>>, st), st)
ForStep(var, from, to, st) ==
    ForBounds(var, from, to, IF Is(to.r, "step") THEN ParseBound(Tail(to.r), st) ELSE Yield(Imm(1), to.r), st)
ForEnd(var, from, st) == ForStep(var, from, ParseBound(from.r, st), st)
ForStart(var, st) == ForEnd(var, Closed(ParseBound(var.r, st), ":"), st)
ParseFor(ts, st) == ForStart(Closed(ParseVariable(Tail(ts), st), "in"), st)

WhileLoop(cond, body) ==
    With(Yield(Node("while", <<cond.n, body.n>>, <<>>), Tail(body.r)), body.st)
WhileBody(cond, st) ==
    IF Raises(cond) THEN With(cond, st)
    ELSE WhileLoop(cond, ParseBlock(cond.r, {"end"}, <<>>, st))
ParseWhile(ts, st) == WhileBody(Closed(Parse(OrLevel, Tail(ts), st), "do"), st)

-----------------------------------------------------------------------------
(* Declarations and the program. *)

RECURSIVE ParseConstants(_, _), ParseVariables(_, _, _), ParseStatements(_, _, _)

\* while (tokens.front() == const) parseConstDef()
DefineConstant(name, p, value, st) ==
    IF Raises(p) THEN With(p, st)
    ELSE IF value.k # "imm" THEN With(Failed(value), st)
    ELSE ParseConstants(p.r, [st EXCEPT !.consts = (name :> Value(value)) @@ @])
ParseConstDef(name, p, st) == DefineConstant(name, p, ConstantExpression(p.n, st), st)
ParseConstants(ts, st) ==
    IF ~Is(ts, "const") THEN With(Yield(Null, ts), st)
    ELSE IF ~Is(Tail(ts), "name") THEN ThrowSt(st)
    ELSE IF ts[2].v \in DOMAIN st.consts \/ ts[3].t # "=" THEN ThrowSt(st)
    ELSE ParseConstDef(ts[2].v, Parse(BinaryOrLevel, SubSeq(ts, 4, Len(ts)), st), st)

\* parseVariableDefSize: NoVal for the brackets of an array sized by its initial value.
GivenSize(p, value) ==
    IF Raises(p) THEN p
    ELSE IF value.k # "imm" THEN Failed(value)
    ELSE IF Value(value) <= 0 THEN Throw ELSE Yield(value, p.r)
ConstantSize(p, st) == GivenSize(p, ConstantExpression(p.n, st))
ParseSize(ts, st) ==
    IF ~Is(ts, "[") THEN Yield(Imm(1), ts)
    ELSE IF Is(Tail(ts), "]") THEN Yield(Imm(NoVal), Tail(Tail(ts)))
    ELSE ConstantSize(Closed(Parse(BinaryOrLevel, Tail(ts), st), "]"), st)

\* The initial value, 1,2,3 or an expression.
ParseInit(ts, st) ==
    LET old == \/ Len(ts) >= 2 /\ ts[2].t = ","
               \/ Len(ts) >= 3 /\ Is(ts, "-") /\ ts[3].t = ","
    IN IF old THEN ParseTuple(ts, TRUE, <<>>, st) ELSE Parse(BinaryOrLevel, ts, st)

\* allocation of a variable of that many words and the assignment of its initial value, if any.
DeclareVariable(name, words, inits, rest, done, st) ==
    LET memory == Memory(st.free, words, name, <<>>, FALSE)
    IN IF words <= 0 \/ st.free + words > Target.variablesSize THEN ThrowSt(st)
       ELSE ParseVariables(rest, done \o [i \in DOMAIN inits |-> Assign(memory, inits[i])],
                           [st EXCEPT !.vars = (name :> <<st.free, words>>) @@ @, !.free = @ + words])

\* parseVarDef, after the size and the initial value.
ParseVarDef(name, size, init, done, st) ==
    IF Raises(size) THEN With(size, st)
    ELSE IF name \in DOMAIN st.vars \cup DOMAIN st.consts THEN ThrowSt(st)
    ELSE IF ~Is(size.r, "=") THEN DeclareVariable(name, Value(size.n), <<>>, size.r, done, st)
    ELSE IF Raises(init) THEN With(init, st)
    ELSE DeclareVariable(name, IF Value(size.n) = NoVal THEN SizeOf(init.n) ELSE Value(size.n),
                         <<init.n>>, init.r, done, st)

\* while (tokens.front() == var) parseVarDef()
ParseSized(name, size, done, st) == ParseVarDef(name, size, ParseInit(Tail(size.r), st), done, st)
ParseVariables(ts, done, st) ==
    IF ~Is(ts, "var") THEN With(Yield(Block(done), ts), st)
    ELSE IF ~Is(Tail(ts), "name") THEN ThrowSt(st)
    ELSE ParseSized(ts[2].v, ParseSize(Tail(Tail(ts)), st), done, st)

\* parseOnEvent
ParseOnEvent(ts, st) ==
    LET event == IF Is(Tail(ts), "name") THEN FindAnyEvent(ts[2].v) ELSE {}
        id == CHOOSE e \in event : TRUE
    IN IF event = {} \/ id \in st.events THEN ThrowSt(st)
       ELSE With(Yield(Mk("event", <<>>, <<id>>), Tail(Tail(ts))),
                 [st EXCEPT !.events = @ \cup {id}])

\* parseSubDecl
ParseSubDecl(ts, st) ==
    IF ~Is(Tail(ts), "name") \/ Contains(st.subs, ts[2].v) THEN ThrowSt(st)
    ELSE With(Yield(Mk("sub", <<>>, <<Len(st.subs)>>), Tail(Tail(ts))),
              [st EXCEPT !.subs = Append(@, ts[2].v)])

\* parseStatement, with the temporaries freed, until the end of the stream.
MoreOfProgram(p, done) ==
    IF Raises(p) THEN p ELSE ParseStatements(p.r, Append(done, p.n), p.st)
ParseStatements(ts, done, st) ==
    LET fresh == [st EXCEPT !.end = 0]
    IN IF Is(ts, "eos") THEN With(Yield(Node("program", done, <<>>), ts), st)
       ELSE IF Is(ts, "var") THEN ThrowSt(fresh)
       ELSE MoreOfProgram(CASE Is(ts, "onevent") -> ParseOnEvent(ts, fresh)
                            [] Is(ts, "sub") -> ParseSubDecl(ts, fresh)
                            [] OTHER -> ParseBlockStatement(ts, fresh), done)

AfterVariables(vars) ==
    IF Raises(vars) THEN vars ELSE ParseStatements(vars.r, vars.n.c, vars.st)
AfterConstants(consts) ==
    IF Raises(consts) THEN consts ELSE AfterVariables(ParseVariables(consts.r, <<>>, consts.st))
ParseProgram(ts) == AfterConstants(ParseConstants(ts, CompilerStart))

=============================================================================
