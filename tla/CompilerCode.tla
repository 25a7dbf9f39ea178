---------------------------- MODULE CompilerCode ----------------------------
(***************************************************************************)
(* The back end of the Aseba compiler: code generation                     *)
(* (src/aseba/compiler/tree-emit.cpp), the check of the stack              *)
(* (analysis.cpp), linking and compile() itself (compiler.cpp).            *)
(*                                                                         *)
(* A word of bytecode is a number below 2^16: an identifier in the four    *)
(* high bits and an argument.  Source lines attached to words are left out.*)
(***************************************************************************)
EXTENDS CompilerParser

Word(id, arg) == id * 4096 + arg
IdOf(word) == word \div 4096
ArgOf(word) == word % 4096

STOP == 0
SMALL_IMMEDIATE == 1
LARGE_IMMEDIATE == 2
LOAD == 3
STORE == 4
LOAD_INDIRECT == 5
STORE_INDIRECT == 6
UNARY_ARITHMETIC == 7
BINARY_ARITHMETIC == 8
JUMP == 9
CONDITIONAL_BRANCH == 10
EMIT == 11
NATIVE_CALL == 12
SUB_CALL == 13
SUB_RET == 14

UnaryOrder == <<"-", "abs", "~", "not">>
BinaryId(op) == (CHOOSE i \in DOMAIN OpOrder : OpOrder[i] = op) - 1
UnaryId(op) == (CHOOSE i \in DOMAIN UnaryOrder : UnaryOrder[i] = op) - 1
IsWhen == 256               \* 1 << ASEBA_IF_IS_WHEN_BIT

\* getWordSize
WordSize(word) ==
    CASE IdOf(word) \in {LARGE_IMMEDIATE, LOAD_INDIRECT, STORE_INDIRECT, CONDITIONAL_BRANCH} -> 2
      [] IdOf(word) = EMIT -> 3
      [] OTHER -> 1

\* The indices of the words that start an instruction, as every loop over a code finds
\* them: Walk goes through the words lo to hi, the next instruction being expected at to.at.
RECURSIVE Walk(_, _, _, _)
Walk(code, lo, hi, to) ==
    LET mid == (lo + hi) \div 2
    IN IF to.at > hi THEN to
       ELSE IF lo = hi THEN [at |-> lo + WordSize(code[lo]), starts |-> to.starts \cup {lo}]
       ELSE Walk(code, mid + 1, hi, Walk(code, lo, mid, to))

Starts(code) == Walk(code, 1, Len(code), [at |-> 1, starts |-> {}]).starts

-----------------------------------------------------------------------------
(* Code generation. *)

\* addImmediateToBytecodes
EmitImmediate(v) == IF Magnitude(v) < 2048 THEN <<Word(SMALL_IMMEDIATE, v % 4096)>>
                    ELSE <<Word(LARGE_IMMEDIATE, 0), v % 65536>>

\* FoldedIfWhenNode::emit, from the code of the two sides of the comparison, of the
\* block and of the else block.
EmitFoldedIf(op, when, code) ==
    LET else == Len(code) = 4
    IN code[1] \o code[2]
       \o <<Word(CONDITIONAL_BRANCH, BinaryId(op) + IF when THEN IsWhen ELSE 0),
            2 + Len(code[3]) + Truth(else)>>
       \o code[3]
       \o IF else THEN <<Word(JUMP, Len(code[4]) + 1)>> \o code[4] ELSE <<>>

\* FoldedWhileNode::emit
EmitFoldedWhile(op, code) ==
    LET body == code[1] \o code[2]
                \o <<Word(CONDITIONAL_BRANCH, BinaryId(op)), 2 + Len(code[3]) + 1>> \o code[3]
    IN Append(body, Word(JUMP, (-Len(body)) % 4096))

\* LoadNativeArgNode::emit: the index is checked by a load whose value is discarded.
EmitNativeArg(temp, addr, size, code) ==
    code[1] \o <<Word(STORE, temp), Word(LOAD, temp), Word(LOAD, temp),
                 Word(LOAD_INDIRECT, addr), size, Word(STORE, temp)>>
    \o EmitImmediate(addr) \o <<Word(BINARY_ARITHMETIC, BinaryId("+"))>>

\* CallNode::emit: template parameters and addresses, both in reverse order.
EmitCall(id, template, code) ==
    FlattenSeq([i \in DOMAIN template |-> EmitImmediate(Reverse(template)[i])])
    \o FlattenSeq(Reverse(code)) \o <<Word(NATIVE_CALL, id)>>

RECURSIVE EmitCode(_, _)
EmitCode(n, subs) ==
    LET code == [i \in DOMAIN n.c |-> EmitCode(n.c[i], subs)]
    IN CASE n.k \in {"block", "event", "sub"} -> FlattenSeq(code)
         [] n.k = "assign" -> code[2] \o code[1]
         [] n.k = "foldedif" -> EmitFoldedIf(n.a[1], n.a[2], code)
         [] n.k = "foldedwhile" -> EmitFoldedWhile(n.a[1], code)
         [] n.k = "emit" -> FlattenSeq(code) \o <<Word(EMIT, n.a[1]), n.a[2], n.a[3]>>
         [] n.k = "callsub" ->
              <<Word(SUB_CALL, (CHOOSE i \in DOMAIN subs : subs[i] = n.a[1]) - 1)>>
         [] n.k = "bin" -> code[1] \o code[2] \o <<Word(BINARY_ARITHMETIC, BinaryId(Op(n)))>>
         [] n.k = "un" -> code[1] \o <<Word(UNARY_ARITHMETIC, UnaryId(Op(n)))>>
         [] n.k = "imm" -> EmitImmediate(Value(n))
         [] n.k = "load" -> <<Word(LOAD, n.a[1])>>
         [] n.k = "store" -> <<Word(STORE, n.a[1])>>
         [] n.k = "aread" -> code[1] \o <<Word(LOAD_INDIRECT, n.a[1]), n.a[2]>>
         [] n.k = "awrite" -> code[1] \o <<Word(STORE_INDIRECT, n.a[1]), n.a[2]>>
         [] n.k = "nativearg" -> EmitNativeArg(n.a[1], n.a[2], n.a[3], code)
         [] n.k = "call" -> EmitCall(n.a[1], n.a[2], code)
         [] n.k = "return" -> <<Word(STOP, 0)>>

\* getStackDepth
RECURSIVE StackDepth(_)
StackDepth(n) ==
    LET depth == [i \in DOMAIN n.c |-> StackDepth(n.c[i])]
        deepest == Max({0} \cup Range(depth))
    IN CASE n.k \in {"imm", "load"} -> 1
         [] n.k = "bin" -> depth[1] + depth[2]
         [] n.k \in {"foldedif", "foldedwhile"} ->
              Max({depth[1] + depth[2]} \cup {depth[i] : i \in 3 .. Len(n.c)})
         [] n.k = "nativearg" -> Max({depth[1], 2})
         [] n.k = "call" -> Max({0} \cup {Len(n.a[2]) + i - 1 + depth[i] : i \in DOMAIN n.c})
         [] OTHER -> deepest

\* ProgramNode::emit: the code and the depth of each event and each subroutine; the
\* statements before the first declaration belong to the init event.
Segments(tree, subs) ==
    LET Add(acc, n) ==
            IF n.k \in {"event", "sub"}
            THEN [at |-> <<n.k, n.a[1]>>, of |-> acc.of @@ (<<n.k, n.a[1]>> :> [code |-> <<>>, depth |-> 0])]
            ELSE [acc EXCEPT !.of[acc.at].code = @ \o EmitCode(n, subs),
                             !.of[acc.at].depth = Max({@, StackDepth(n)})]
        init == <<"event", InitEvent>>
    IN FoldLeft(Add, [at |-> init, of |-> (init :> [code |-> <<>>, depth |-> 0])], tree.c).of

\* PreLinkBytecode::fixup, with changeStopToRetSub and getTypeOfLast: an event ends with a
\* STOP; a subroutine returns where it stopped, and its last instruction is a SUB_RET.
Closing(kind, code) ==
    LET starts == Starts(code)
        returns == [i \in DOMAIN code |-> IF i \in starts /\ IdOf(code[i]) = STOP
                                          THEN Word(SUB_RET, 0) ELSE code[i]]
        last == IF code = <<>> THEN STOP ELSE IdOf(returns[Max(starts)])
    IN IF kind = "event" THEN Append(code, Word(STOP, 0))
       ELSE IF last = SUB_RET THEN returns ELSE Append(returns, Word(SUB_RET, 0))

Fixup(segments) ==
    LET kept == {s \in DOMAIN segments : s[1] = "sub" \/ segments[s].code # <<>>}
    IN [s \in kept |-> [segments[s] EXCEPT !.code = Closing(s[1], @)]]

\* verifyStackCalls: calls deepen the subroutines they reach, until nothing changes.
CalledBy(code) == {<<"sub", ArgOf(code[i])>> : i \in {j \in Starts(code) : IdOf(code[j]) = SUB_CALL}}

RECURSIVE Deepen(_, _)
Deepen(segments, depth) ==
    LET Callers(s) == {t \in DOMAIN depth : s \in CalledBy(segments[t].code)}
        next == [s \in DOMAIN depth |-> Max({depth[s]} \cup {depth[t] + 1 : t \in Callers(s)})]
    IN IF \E s \in DOMAIN depth : depth[s] + segments[s].depth > Target.stackSize THEN FALSE
       ELSE IF next = depth THEN TRUE
       ELSE Deepen(segments, next)

VerifyStackCalls(segments) ==
    LET events == {s \in DOMAIN segments : s[1] = "event"}
        direct == UNION {CalledBy(segments[s].code) : s \in events}
    IN /\ \A s \in events : segments[s].depth <= Target.stackSize
       /\ Deepen(segments, [s \in DOMAIN segments \ events |-> Truth(s \in direct)])

\* link: the event table, the events and the subroutines, then the addresses of calls.
Placement(segments) ==
    LET Before(s, t) == \/ s[1] = "event" /\ t[1] = "sub"
                        \/ s[1] = t[1] /\ s[2] < t[2]
        order == SetToSortSeq(DOMAIN segments, Before)
        table == 2 * Cardinality({s \in DOMAIN segments : s[1] = "event"}) + 1
        Place(acc, s) == [acc EXCEPT !.at = @ @@ (s :> acc.next), !.next = @ + Len(segments[s].code)]
    IN [order |-> order, table |-> table,
        at |-> FoldLeft(Place, [at |-> <<>>, next |-> table], order).at]

LinkCalls(words, starts, at) ==
    [i \in DOMAIN words |->
        IF i \in starts /\ IdOf(words[i]) = SUB_CALL
        THEN Word(SUB_CALL, at[<<"sub", ArgOf(words[i])>>]) ELSE words[i]]
Link(segments, place) ==
    LET events == SelectSeq(place.order, LAMBDA s : s[1] = "event")
        words == <<place.table>>
                 \o FlattenSeq([i \in DOMAIN events |-> <<events[i][2], place.at[events[i]]>>])
                 \o FlattenSeq([i \in DOMAIN place.order |-> segments[place.order[i]].code])
    IN LinkCalls(words, Starts(words), place.at)

-----------------------------------------------------------------------------

Rejected == [k |-> "rejected"]
Aborted == [k |-> "aborted"]

\* compile(), from the tokens on: the parsed program, its expansions, the optimised tree,
\* the code.
Failure(n) == IF n.k = "abort" THEN Aborted ELSE Rejected
CompileCode(st, segments, words) ==
    IF ~VerifyStackCalls(segments) \/ Len(words) > Target.bytecodeSize THEN Rejected
    ELSE [k |-> "code", words |-> words, segments |-> segments,
          free |-> st.free, vars |-> st.vars, subs |-> st.subs]
CompileTree(tree, st) ==
    LET segments == Fixup(Segments(tree, st.subs))
    IN IF Raises([n |-> tree]) THEN Failure(tree)
       ELSE CompileCode(st, segments, Link(segments, Placement(segments)))
CompileExpanded(scalar, st) ==
    IF scalar.n.k = "error" THEN Rejected
    ELSE IF TypeOf(scalar.n, st.subs) = "bad" THEN Rejected
    ELSE CompileTree(Optimize(scalar.n), st)
CompileParsed(parsed) ==
    LET expanded == ExpandAbstract(parsed.n)
    IN IF Raises(parsed) THEN Failure(parsed.n)
       ELSE IF ~SizesFit(parsed.n) \/ expanded.k = "error" THEN Rejected
       ELSE CompileExpanded(Vectorial(expanded, 0, parsed.st), parsed.st)
Compile(ts) == IF CompilerStart.free > Target.variablesSize THEN Rejected ELSE CompileParsed(ParseProgram(ts))

=============================================================================
