---------------------------- MODULE CompilerTree ----------------------------
(***************************************************************************)
(* The syntax tree of the Aseba compiler and the passes over it            *)
(* (src/aseba/compiler/tree*.cpp): the size and the address of vectors,    *)
(* the expansion of abstract and of vectorial nodes, the type check and    *)
(* the optimiser.                                                          *)
(*                                                                         *)
(* A node is a record: its kind, its children and its attributes (operator,*)
(* value, address, size, name).  An exception is a node of kind "error",   *)
(* which replaces every node it passes through, and a call of abort() is a *)
(* node of kind "abort".  Positions in the source, and which of the errors *)
(* is reported, are left out.                                              *)
(***************************************************************************)
EXTENDS Integers, Sequences, SequencesExt, Bitwise

CONSTANTS Target,   \* TargetDescription: variables, sizes, events, functions
          Common    \* CommonDefinitions: global events and constants

NoVal == -1         \* E_NOVAL
Thrown == -2        \* a size or an address whose computation throws

Mk(k, c, a) == [k |-> k, c |-> c, a |-> a]
Error == Mk("error", <<>>, <<>>)
Abort == Mk("abort", <<>>, <<>>)
Null == Mk("null", <<>>, <<>>)
Raised(c) == SelectSeq(c, LAMBDA n : n.k \in {"error", "abort"})

\* A node whose children may have thrown while they were made.
Node(k, c, a) == IF Raised(c) # <<>> THEN Head(Raised(c)) ELSE Mk(k, c, a)

Imm(v) == Mk("imm", <<>>, <<v>>)
Tuple(c) == Node("tuple", c, <<>>)
Block(c) == Node("block", c, <<>>)
Assign(l, r) == Node("assign", <<l, r>>, <<>>)
Binary(op, l, r) == Node("bin", <<l, r>>, <<op>>)
Unary(op, n) == Node("un", <<n>>, <<op>>)
Memory(addr, size, name, index, write) ==
    Node("mem", index, [addr |-> addr, size |-> size, name |-> name, write |-> write])
Op(n) == n.a[1]
Value(n) == n.a[1]
IsEmptyBlock(n) == n.k = "block" /\ n.c = <<>>

Comparisons == {"==", "!=", ">", ">=", "<", "<="}
Logic == {"or", "and"}
OpOrder == <<"<<", ">>", "+", "-", "*", "/", "%", "|", "^", "&",
             "==", "!=", ">", ">=", "<", "<=", "or", "and">>

Wrap(v) == ((v + 32768) % 65536) - 32768
Unsigned(v) == v % 65536
Magnitude(v) == IF v < 0 THEN -v ELSE v
Sign(v) == IF v < 0 THEN -1 ELSE 1
Truth(b) == IF b THEN 1 ELSE 0

\* What a binary operator computes on two int values (y # 0 for / and %).
Calc(op, x, y) ==
    CASE op = "<<" -> x * 2^y
      [] op = ">>" -> x \div 2^y
      [] op = "+"  -> x + y
      [] op = "-"  -> x - y
      [] op = "*"  -> x * y
      [] op = "/"  -> Sign(x) * Sign(y) * (Magnitude(x) \div Magnitude(y))
      [] op = "%"  -> Sign(x) * (Magnitude(x) % Magnitude(y))
      [] op = "|"  -> Wrap(Unsigned(x) | Unsigned(y))
      [] op = "^"  -> Wrap(Unsigned(x) ^^ Unsigned(y))
      [] op = "&"  -> Wrap(Unsigned(x) & Unsigned(y))
      [] op = "==" -> Truth(x = y)
      [] op = "!=" -> Truth(x # y)
      [] op = ">"  -> Truth(x > y)
      [] op = ">=" -> Truth(x >= y)
      [] op = "<"  -> Truth(x < y)
      [] op = "<=" -> Truth(x <= y)
      [] op = "or" -> Truth(x # 0 \/ y # 0)
      [] op = "and" -> Truth(x # 0 /\ y # 0)

CalcUnary(op, x) ==
    CASE op = "-" -> -x
      [] op = "abs" -> Magnitude(x)
      [] op = "~" -> -x - 1
      [] op = "not" -> Truth(x = 0)

-----------------------------------------------------------------------------
(* Vectors: their size and the address they start at. *)

\* The index of a memory is known when it is a tuple; the parser makes one of immediates,
\* and a tuple of anything else, written in the source, is outside this model.
IsStatic(n) == n.c = <<>> \/ n.c[1].k = "tuple"

RECURSIVE SizeOf(_)
SizeOf(n) ==
    LET Sizes == [i \in DOMAIN n.c |-> SizeOf(n.c[i])]
        Same(size, new) == IF size = Thrown \/ new = Thrown THEN Thrown
                           ELSE IF size = NoVal THEN new
                           ELSE IF size = new THEN size ELSE Thrown
        Sum(size, new) == IF size = Thrown \/ new = Thrown THEN Thrown ELSE size + new
    IN CASE n.k \in {"imm", "load", "store", "aread", "awrite"} -> 1
         [] n.k = "tuple" -> FoldLeft(Sum, 0, Sizes)
         [] n.k = "mem" /\ n.c = <<>> -> n.a.size
         [] n.k = "mem" /\ n.c # <<>> /\ ~IsStatic(n) -> 1
         [] n.k = "mem" /\ n.c # <<>> /\ IsStatic(n) ->
              LET index == n.c[1].c
              IN IF Len(index) = 1 THEN 1
                 ELSE IF Len(index) # 2 \/ Value(index[2]) \notin 0 .. n.a.size - 1 THEN Thrown
                 ELSE Value(index[2]) - Value(index[1]) + 1
         [] OTHER -> FoldLeft(Same, NoVal, Sizes)

RECURSIVE AddrOf(_)
AddrOf(n) ==
    CASE n.k \in {"load", "store"} -> n.a[1]
      [] n.k = "mem" ->
           LET shift == IF n.c = <<>> THEN 0 ELSE Value(n.c[1].c[1])
           IN IF ~IsStatic(n) THEN NoVal
              ELSE IF shift \notin 0 .. n.a.size - 1 THEN Thrown
              ELSE n.a.addr + shift
      [] OTHER -> IF n.c = <<>> THEN NoVal ELSE AddrOf(n.c[1])

\* checkVectorSize: whether a tree passes the check.
RECURSIVE SizesFit(_)
SizesFit(n) ==
    CASE n.k \in {"assign", "opassign"} ->
           /\ SizeOf(n.c[1]) # Thrown
           /\ SizeOf(n.c[1]) = SizeOf(n.c[2])
      [] n.k \in {"if", "when", "while"} ->
           /\ SizeOf(n.c[1]) = 1
           /\ \A i \in 2 .. Len(n.c) : SizesFit(n.c[i])
      [] OTHER -> \A i \in DOMAIN n.c : SizesFit(n.c[i])

-----------------------------------------------------------------------------
(* Expansion: v++ and v op= e into assignments, then vectors into scalars. *)

RECURSIVE ExpandAbstract(_)
ExpandAbstract(n) ==
    LET kids == [i \in DOMAIN n.c |-> ExpandAbstract(n.c[i])]
    IN CASE n.k \in {"tuple", "mem"} -> n
         [] n.k = "incr" ->
              LET size == SizeOf(n.c[1])
              IN IF size = Thrown THEN Error
                 ELSE ExpandAbstract(Node("opassign",
                          <<n.c[1], Tuple([i \in 1 .. size |-> Imm(1)])>>, n.a))
         [] n.k = "opassign" -> Assign(kids[1], Binary(Op(n), kids[1], kids[2]))
         [] OTHER -> Node(n.k, kids, n.a)

\* allocateTemporaryMemory: temporaries grow down from the end of the memory.
Fits(st) == st.free + st.end <= Target.variablesSize
TakeTemp(st, size) == [st EXCEPT !.end = @ + size]
TempAddr(st) == Target.variablesSize - st.end

\* allocateTemporaryVariable: the memory of a temporary that was just taken.
Temporary(st, size, write) == Memory(TempAddr(st), size, "temp", <<>>, write)

\* Only a variable assigned to itself as a whole is copied first.
Mentions_Whole(n, name) == n.k = "mem" /\ n.a.name = name /\ n.c = <<>>

RECURSIVE Mentions(_, _)
Mentions(n, name) == \/ n.k = "mem" /\ n.a.name = name
                     \/ \E i \in DOMAIN n.c : Mentions(n.c[i], name)

\* A memory access becomes a load, a store or an indexed access.
Scalar(n, i, index) ==
    LET addr == AddrOf(n)
    IN IF ~IsStatic(n)
       THEN Node(IF n.a.write THEN "awrite" ELSE "aread", <<index>>, <<n.a.addr, n.a.size>>)
       ELSE IF addr = Thrown THEN Error
       ELSE IF addr + i >= n.a.addr + n.a.size THEN Error
       ELSE Mk(IF n.a.write THEN "store" ELSE "load", <<>>, <<addr + i>>)

\* expandVectorialNodes(index): the new tree, and the compiler's memory.
RECURSIVE Vectorial(_, _, _)
Vectorial(n, i, st) ==
    LET Kid(acc, child) ==
            LET v == Vectorial(child, i, acc.st) IN [n |-> Append(acc.n, v.n), st |-> v.st]
        kids == FoldLeft(Kid, [n |-> <<>>, st |-> st], n.c)
    IN CASE n.k = "tuple" ->
              LET Before(j) == SizeOf(Tuple(SubSeq(n.c, 1, j)))
                  j == CHOOSE x \in DOMAIN n.c : Before(x - 1) <= i /\ i < Before(x)
              IN Vectorial(n.c[j], i - Before(j - 1), st)
         [] n.k = "mem" ->
              [n |-> Scalar(n, i, IF IsStatic(n) THEN Null ELSE Vectorial(n.c[1], i, st).n),
               st |-> st]
         [] n.k = "imm" -> [n |-> n, st |-> st]
         [] n.k = "assign" /\ n.c[1].k # "mem" -> [n |-> Error, st |-> st]
         [] n.k = "assign" /\ n.c[1].k = "mem" ->
              LET left == [n.c[1] EXCEPT !.a.write = TRUE]
                  right == n.c[2]
                  size == SizeOf(left)
                  more == TakeTemp(st, size)
              IN IF size = Thrown THEN [n |-> Error, st |-> st]
                 ELSE IF Mentions(right, left.a.name) /\ size > 1
                 THEN IF ~Fits(more) THEN [n |-> Error, st |-> more]
                      ELSE Vectorial(Block(<<Assign(Temporary(more, size, FALSE), right),
                                             Assign(left, Temporary(more, size, FALSE))>>), 0, more)
                 ELSE [n |-> Block([j \in 1 .. size |-> Assign(Vectorial(left, j - 1, st).n,
                                                               Vectorial(right, j - 1, st).n)]),
                       st |-> st]
         [] OTHER -> [n |-> Node(n.k, kids.n, n.a), st |-> kids.st]

-----------------------------------------------------------------------------
(* Type check: the type a node returns, or "bad" where typeCheck() throws. *)

RECURSIVE TypeOf(_, _)
TypeOf(n, subs) ==
    LET Type(i) == TypeOf(n.c[i], subs)
        Takes(in, out) == IF \A i \in DOMAIN n.c : Type(i) = in THEN out ELSE "bad"
        IsCondition(c) == \/ c.k = "bin" /\ Op(c) \in Comparisons \cup Logic
                          \/ c.k = "un" /\ Op(c) = "not"
    IN CASE n.k \in {"imm", "load", "aread", "nativearg"} -> "int"
         [] n.k \in {"store", "awrite", "event", "emit", "sub", "call", "return"} -> "unit"
         [] n.k = "callsub" -> IF Contains(subs, n.a[1]) THEN "unit" ELSE "bad"
         [] n.k = "assign" ->
              IF Type(1) = "unit" /\ Type(2) = "int" THEN "unit" ELSE "bad"
         [] n.k \in {"if", "when", "while"} ->
              IF /\ Type(1) = "bool"
                 /\ \A i \in 2 .. Len(n.c) : Type(i) = "unit"
                 /\ IsCondition(n.c[1])
              THEN "unit" ELSE "bad"
         [] n.k = "bin" ->
              IF Op(n) \in Logic THEN Takes("bool", "bool")
              ELSE Takes("int", IF Op(n) \in Comparisons THEN "bool" ELSE "int")
         [] n.k = "un" -> IF Op(n) = "not" THEN Takes("bool", "bool") ELSE Takes("int", "int")
         [] OTHER -> IF \E i \in DOMAIN n.c : Type(i) = "bad" THEN "bad" ELSE "unit"

-----------------------------------------------------------------------------
(* The optimiser.  Null is a statement that was removed. *)

\* deMorganNotRemoval: comparisons are inverted, "or" and "and" exchanged.
Inverted(op) ==
    [o \in Comparisons |-> CASE o = "==" -> "!=" [] o = "!=" -> "==" [] o = ">" -> "<="
                             [] o = ">=" -> "<" [] o = "<" -> ">=" [] o = "<=" -> ">"][op]

RECURSIVE DeMorgan(_)
DeMorgan(n) ==
    CASE n.k # "bin" -> Abort
      [] n.k = "bin" /\ Op(n) \in Comparisons -> Binary(Inverted(Op(n)), n.c[1], n.c[2])
      [] n.k = "bin" /\ Op(n) \in Logic ->
           Binary(IF Op(n) = "or" THEN "and" ELSE "or", DeMorgan(n.c[1]), DeMorgan(n.c[2]))
      [] OTHER -> Abort

\* isPOT and shiftFromPOT.
IsPOT(v) == \E e \in 0 .. 30 : v = 2^e
ShiftFromPOT(v) == CHOOSE e \in 0 .. 30 : v = 2^e

Constant(n, S) == n.k = "imm" /\ Value(n) \in S
NonZero(n) == n.k = "imm" /\ Value(n) # 0

\* The child that survives an operation with a neutral element.
LeftSurvives(op, r) ==
    \/ op \in {"*", "/"} /\ Constant(r, {1})
    \/ op \in {"+", "-", "|", "or"} /\ Constant(r, {0})
    \/ op = "&" /\ Constant(r, {-1})
    \/ op = "and" /\ NonZero(r)
RightSurvives(op, l) == op \notin {"/", "-"} /\ LeftSurvives(op, l)

OptimizeBinary(op, l, r) ==
    LET One(S) == Constant(l, S) \/ Constant(r, S)
    IN IF Raised(<<l, r>>) # <<>> THEN Head(Raised(<<l, r>>))
       ELSE IF l.k = "imm" /\ r.k = "imm"
       THEN IF op \in {"/", "%"} /\ Value(r) = 0 THEN Error
            ELSE Imm(Calc(op, Value(l), Value(r)))
       ELSE IF RightSurvives(op, l) THEN r
       ELSE IF LeftSurvives(op, r) THEN l
       ELSE IF op \in {"*", "&", "and"} /\ One({0}) THEN Imm(0)
       ELSE IF op = "|" /\ One({-1}) THEN Imm(-1)
       ELSE IF op = "or" /\ (NonZero(l) \/ NonZero(r)) THEN Imm(1)
       ELSE IF op \in {"*", "/"} /\ r.k = "imm" /\ IsPOT(Value(r))
       THEN Binary(IF op = "*" THEN "<<" ELSE ">>", l, Imm(ShiftFromPOT(Value(r))))
       ELSE IF op = "/" /\ Constant(r, {0}) THEN Error
       ELSE Binary(op, l, r)

OptimizeUnary(op, n) ==
    IF n.k \in {"error", "abort"} THEN n
    ELSE IF n.k = "imm"
    THEN IF op = "abs" /\ Value(n) = -32768 THEN Error ELSE Imm(CalcUnary(op, Value(n)))
    ELSE IF op = "not" /\ n.k = "bin" THEN DeMorgan(n)
    ELSE Unary(op, n)

\* An if or a when, once its condition and its blocks are optimised.
OptimizeIf(edge, cond, blocks) ==
    LET true == blocks[1]
        false == SelectSeq(Tail(blocks), LAMBDA b : b.k # "null")
        Nothing(b) == b.k = "null" \/ IsEmptyBlock(b)
        folded == <<cond.c[1], cond.c[2], IF true.k = "null" THEN Block(<<>>) ELSE true>> \o false
    IN IF \A i \in DOMAIN blocks : Nothing(blocks[i]) THEN Null
       ELSE IF cond.k = "imm"
       THEN IF Value(cond) # 0 THEN true ELSE IF false = <<>> THEN Null ELSE false[1]
       ELSE IF cond.k = "bin" THEN Node("foldedif", folded, <<Op(cond), edge>>)
       ELSE Abort

OptimizeWhile(cond, block) ==
    IF cond.k = "imm" THEN IF Value(cond) # 0 THEN Error ELSE Null
    ELSE IF block.k = "null" \/ IsEmptyBlock(block) THEN Null
    ELSE IF cond.k = "bin" THEN Node("foldedwhile", <<cond.c[1], cond.c[2], block>>, <<Op(cond)>>)
    ELSE Abort

RECURSIVE Optimize(_)
Optimize(n) ==
    LET kids == [i \in DOMAIN n.c |-> Optimize(n.c[i])]
    IN IF Raised(kids) # <<>> THEN Head(Raised(kids))
       ELSE CASE n.k \in {"block", "program"} ->
                   Node(n.k, SelectSeq(kids, LAMBDA c : c.k # "null" /\ ~IsEmptyBlock(c)), n.a)
              [] n.k \in {"if", "when"} -> OptimizeIf(n.k = "when", kids[1], Tail(kids))
              [] n.k = "while" -> OptimizeWhile(kids[1], kids[2])
              [] n.k = "bin" -> OptimizeBinary(Op(n), kids[1], kids[2])
              [] n.k = "un" -> OptimizeUnary(Op(n), kids[1])
              [] n.k \in {"aread", "awrite"} /\ kids[1].k = "imm" ->
                   IF Value(kids[1]) \notin 0 .. n.a[2] - 1 THEN Error
                   ELSE Mk(IF n.k = "aread" THEN "load" ELSE "store", <<>>, <<n.a[1] + Value(kids[1])>>)
              [] OTHER -> Node(n.k, kids, n.a)

=============================================================================
