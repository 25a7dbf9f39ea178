----------------------------- MODULE NodeDebugger -----------------------------
(***************************************************************************)
(* The commands a client gives a robot it has locked: load a program, run, *)
(* pause and stop it, step to the next line, set breakpoints.  Each one is *)
(* answered from a callback that depends on messages of the robot, on      *)
(* later commands and on the robot still being there.                      *)
(***************************************************************************)
EXTENDS Integers, Sequences, FiniteSets, SequencesExt

CONSTANTS
    Code,          \* program -> zero based source line of each word of its bytecode
    LineSets,      \* the breakpoint sets a client asks for, as sequences of lines
    Capacity,      \* breakpoints a robot has room for
    MaxCommands    \* bound: commands a client gives

ASSUME DebuggerOK ==
    /\ {"none", "user", "broken", "motors"} \subseteq DOMAIN Code
    /\ Code["broken"] = <<>> /\ Code["none"] = <<>>
    /\ Capacity \in Nat /\ MaxCommands \in Nat

VARIABLES
    life,         \* of the node: up, gone (its endpoint is destroyed), destroyed; crashed
    bytecode,     \* aseba_node::m_bytecode, as the program it was compiled from
    breakpoints,  \* m_breakpoints
    breakRequest, \* m_pending_breakpoint_request, a set of at most one record
    stepRequest,  \* m_pending_step_request, a set of at most one record
    awaiting,     \* m_callbacks_pending_execution_state_change
    vmState,      \* m_vm_state
    toRobot,      \* the endpoint's message queue, and the link
    fromRobot,    \* messages of the robot
    robotVm,      \* the robot: its mode, its pc, its program and its breakpoints
    commands,     \* commands given so far
    results,      \* what the callback of each command was called with
    overlapped,   \* history: a breakpoint request was cancelled by another
    promised      \* history: the commands that waited for a robot to answer

debuggerVars == <<life, bytecode, breakpoints, breakRequest, stepRequest, awaiting,
                  vmState, toRobot, fromRobot, robotVm, commands, results, overlapped, promised>>

NoCallback == 0
OK        == [error |-> FALSE, set |-> {}]
Cancelled == [error |-> TRUE, set |-> {}]
Answer(r, id, result) == IF id = NoCallback THEN r ELSE [r EXCEPT ![id] = Append(@, result)]

VmMessage(t, pc) == [type |-> t, pc |-> pc, program |-> "none", cb |-> NoCallback, load |-> FALSE]
SetBytecode(p) == [VmMessage("SetBytecode", 0) EXCEPT !.program = p]

\* write_messages: each message of a batch is inserted before the one inserted last, and
\* the callback goes with the message inserted last, the first one written.
Batch(messages, id, load) ==
    IF messages = <<>> THEN <<>>
    ELSE [Reverse(messages) EXCEPT ![1].cb = id, ![1].load = load]
Write(q, messages, id) == IF life = "up" THEN q \o Batch(messages, id, FALSE) ELSE q

\* line_from_pc and pc_from_line; pcs count from 0, lines from 1, -1 is no pc.
LineFromPc(p, pc) == IF pc >= 5 /\ pc < Len(Code[p]) THEN Code[p][pc + 1] + 1 ELSE 0
PcFromLine(p, line) ==
    IF \E i \in DOMAIN Code[p] : Code[p][i] = line - 1
    THEN SelectInSeq(Code[p], LAMBDA l : l = line - 1) - 1 ELSE -1

DebuggerInit ==
    /\ life = "up" /\ bytecode = "none" /\ overlapped = FALSE /\ promised = {}
    /\ breakpoints = {} /\ breakRequest = {} /\ stepRequest = {}
    /\ awaiting = <<>> /\ toRobot = <<>> /\ fromRobot = <<>>
    /\ vmState = [state |-> "Stopped", line |-> 0]
    /\ robotVm = [mode |-> "Stopped", pc |-> 0, program |-> "none", breaks |-> {}]
    /\ commands = 0
    /\ results = [id \in 1..MaxCommands |-> <<>>]

-----------------------------------------------------------------------------
(* Cancelling. *)

\* cancel_pending_step_request and cancel_pending_breakpoint_request.
CancelStep(r) == FoldSet(LAMBDA s, acc : Answer(acc, s.id, Cancelled), r, stepRequest)
CancelBreak(r) == FoldSet(LAMBDA b, acc : Answer(acc, b.id, Cancelled), r, breakRequest)

\* A command uses the next request id, and only the owner of the lock gives one.
Command(id) == /\ life \in {"up", "gone"}
               /\ commands < MaxCommands /\ id = commands + 1 /\ commands' = id

\* Compiling asks the endpoint for its definitions; there is none any more between the end
\* of the endpoint and the moment the client's strand learns of it.
CompileWithoutEndpoint ==
    /\ \E id \in 1..MaxCommands : Command(id)
    /\ life = "gone" /\ life' = "crashed"
    /\ UNCHANGED <<bytecode, breakpoints, breakRequest, stepRequest, awaiting, vmState, toRobot,
                   fromRobot, robotVm, results, overlapped, promised>>

-----------------------------------------------------------------------------
(* Commands. *)

\* compile_and_send_program.  A program that does not compile is sent empty; the callback
\* waits for the next execution state once the first message has been written.
LoadProgram(p) ==
    \E id \in 1..MaxCommands :
        /\ Command(id) /\ life = "up"
        /\ bytecode' = p
        /\ breakpoints' = {} /\ breakRequest' = {} /\ stepRequest' = {}
        /\ results' = CancelBreak(CancelStep(results))
        /\ toRobot' = toRobot \o Batch(<<SetBytecode(p)>>, id, TRUE)
        /\ UNCHANGED <<life, awaiting, vmState, fromRobot, robotVm, overlapped, promised>>

\* do_compile_program refuses an AESL document after the requests have been cancelled; the
\* old program and its lines stay, and the callback is called at once.
RefuseProgram ==
    \E id \in 1..MaxCommands :
        /\ Command(id) /\ life = "up"
        /\ breakpoints' = {} /\ breakRequest' = {} /\ stepRequest' = {}
        /\ results' = Answer(CancelBreak(CancelStep(results)), id, Cancelled)
        /\ UNCHANGED <<life, bytecode, awaiting, vmState, toRobot, fromRobot, robotVm, overlapped, promised>>

\* set_vm_execution_state: Run and Pause; Reset, Step, Suspend, Reboot and
\* WriteProgramToDeviceMemory are one message with the callback as well.
SetExecutionState(t) ==
    \E id \in 1..MaxCommands :
        /\ Command(id)
        /\ toRobot' = Write(toRobot, <<VmMessage(t, 0)>>, id)
        /\ UNCHANGED <<life, bytecode, breakpoints, breakRequest, stepRequest, awaiting,
                       vmState, fromRobot, robotVm, results, overlapped, promised>>

\* set_vm_execution_state: Stop loads a program that stops the motors, runs it and stops.
\* The callback is moved into the first of the two messages that are given it.
StopMotors ==
    \E id \in 1..MaxCommands :
        /\ Command(id) /\ life = "up"
        /\ bytecode' = "motors"
        /\ toRobot' = Write(Write(Write(toRobot, <<SetBytecode("motors")>>, NoCallback),
                                  <<VmMessage("Run", 0)>>, id),
                            <<VmMessage("Stop", 0)>>, NoCallback)
        /\ UNCHANGED <<life, breakpoints, breakRequest, stepRequest, awaiting, vmState,
                       fromRobot, robotVm, results, overlapped, promised>>

\* handle_step_request, on a VM state: a request ends when the VM is not paused or the
\* line has changed, and otherwise steps once more.
HandleStep(requests, vm, r, q) ==
    LET going == {s \in requests : vm.state = "Paused" /\ vm.line = s.line}
    IN [pending |-> going,
        results |-> FoldSet(LAMBDA s, acc : Answer(acc, s.id, IF vm.state = "Paused" THEN OK ELSE Cancelled),
                            r, requests \ going),
        queue   |-> IF going # {} THEN Write(q, <<VmMessage("Step", 0)>>, NoCallback) ELSE q]

\* step_to_next_line replaces a step under way.
StepToNextLine ==
    \E id \in 1..MaxCommands :
        /\ Command(id)
        /\ LET step == HandleStep({[id |-> id, line |-> vmState.line]}, vmState,
                                  CancelStep(results), toRobot)
           IN stepRequest' = step.pending /\ results' = step.results /\ toRobot' = step.queue
        /\ UNCHANGED <<life, bytecode, breakpoints, breakRequest, awaiting, vmState,
                       fromRobot, robotVm, overlapped, promised>>

\* set_breakpoints: lines already set are kept, lines with code are asked for, lines that
\* are no longer wanted are cleared.  Without a message there is nothing to wait for.
SetBreakpoints(lines) ==
    \E id \in 1..MaxCommands :
        LET wanted == ToSet(lines)
            pc(l)  == PcFromLine(bytecode, l)
            ask    == SelectSeq(lines, LAMBDA l : l \notin breakpoints /\ pc(l) >= 0)
            drop   == SetToSeq({l \in breakpoints \ wanted : pc(l) >= 0})
            batch  == IF lines = <<>> THEN <<VmMessage("ClearAll", 0)>>
                      ELSE [i \in DOMAIN ask |-> VmMessage("Set", pc(ask[i]))]
                           \o [i \in DOMAIN drop |-> VmMessage("Clear", pc(drop[i]))]
            kept   == wanted \cap breakpoints
            request == [id |-> id, pending |-> {<<pc(l), l>> : l \in ToSet(ask)}, set |-> kept]
        IN /\ Command(id)
           /\ overlapped' = (overlapped \/ breakRequest # {})
           /\ toRobot' = Write(toRobot, batch, id)
           /\ IF batch = <<>>
              THEN /\ breakpoints' = kept /\ breakRequest' = {}
                   /\ results' = Answer(CancelBreak(results), id, [error |-> FALSE, set |-> kept])
              ELSE /\ breakpoints' = wanted /\ breakRequest' = {request}
                   /\ results' = CancelBreak(results)
           /\ promised' = promised \cup {[id |-> b.id, kind |-> "break"] : b \in breakRequest'}
           /\ UNCHANGED <<life, bytecode, stepRequest, awaiting, vmState, fromRobot, robotVm>>

-----------------------------------------------------------------------------
(* The endpoint and the robot. *)

\* The robot's VM (external), for a message taken from the link.
RobotDoes(m) ==
    LET pcs == 5..(Len(Code[robotVm.program]) - 1)
        state(vm) == <<[type |-> "State", mode |-> vm.mode, pc |-> vm.pc, success |-> TRUE]>>
    IN CASE m.type = "SetBytecode" ->
              LET vm == [robotVm EXCEPT !.mode = "Stopped", !.pc = 0, !.program = m.program]
              IN robotVm' = vm /\ fromRobot' = fromRobot \o state(vm)
         [] m.type \in {"Run", "Stop"} ->
              LET vm == [robotVm EXCEPT !.mode = IF m.type = "Run" THEN "Running" ELSE "Stopped"]
              IN robotVm' = vm /\ fromRobot' = fromRobot \o state(vm)
         [] m.type = "Pause" ->
              \E at \in pcs \cup {robotVm.pc} :
                  LET vm == [robotVm EXCEPT !.mode = "Paused", !.pc = at]
                  IN robotVm' = vm /\ fromRobot' = fromRobot \o state(vm)
         [] m.type = "Step" ->
              \E at \in pcs \cup {robotVm.pc}, mode \in {"Paused", "Stopped"} :
                  LET vm == IF robotVm.mode = "Paused" THEN [robotVm EXCEPT !.mode = mode, !.pc = at]
                            ELSE robotVm
                  IN robotVm' = vm /\ fromRobot' = fromRobot \o state(vm)
         [] m.type = "GetState" -> robotVm' = robotVm /\ fromRobot' = fromRobot \o state(robotVm)
         [] m.type = "Set" ->
              LET fits == m.pc \in robotVm.breaks \/ Cardinality(robotVm.breaks) < Capacity
              IN /\ robotVm' = [robotVm EXCEPT !.breaks = IF fits THEN @ \cup {m.pc} ELSE @]
                 /\ fromRobot' = Append(fromRobot, [type |-> "SetResult", mode |-> "", pc |-> m.pc,
                                                    success |-> fits])
         [] m.type \in {"Clear", "ClearAll"} ->
              /\ robotVm' = [robotVm EXCEPT !.breaks = IF m.type = "Clear" THEN @ \ {m.pc} ELSE {}]
              /\ UNCHANGED fromRobot

\* The write callback of set_breakpoints: it ends a request that waits for no result.
WrittenBreaks(id) == {b \in breakRequest : b.id = id /\ b.pending = {}}

\* A message has been written and the robot deals with it: its callback is posted.
MessageWritten ==
    /\ life = "up" /\ toRobot # <<>>
    /\ LET m == Head(toRobot) IN
        /\ RobotDoes(m)
        /\ toRobot' = Tail(toRobot)
        /\ awaiting' = IF m.load THEN Append(awaiting, m.cb) ELSE awaiting
        /\ promised' = IF m.load THEN promised \cup {[id |-> m.cb, kind |-> "load"]} ELSE promised
        /\ IF \E b \in breakRequest : b.id = m.cb
           THEN /\ breakRequest' = breakRequest \ WrittenBreaks(m.cb)
                /\ breakpoints' = IF WrittenBreaks(m.cb) = {} THEN breakpoints
                                  ELSE UNION {b.set : b \in WrittenBreaks(m.cb)}
                /\ results' = FoldSet(LAMBDA b, acc : Answer(acc, b.id, [error |-> FALSE, set |-> b.set]),
                                      results, WrittenBreaks(m.cb))
           ELSE /\ UNCHANGED <<breakRequest, breakpoints>>
                /\ results' = IF m.load \/ m.type \in {"Set", "Clear", "ClearAll"} THEN results
                              ELSE Answer(results, m.cb, OK)
    /\ UNCHANGED <<life, bytecode, stepRequest, vmState, commands, overlapped>>

\* A running robot reports an error and stops.
RuntimeError ==
    /\ life = "up" /\ robotVm.mode = "Running" /\ fromRobot = <<>>
    /\ robotVm' = [robotVm EXCEPT !.mode = "Stopped"]
    /\ fromRobot' = <<[type |-> "Error", mode |-> "Stopped", pc |-> robotVm.pc, success |-> FALSE]>>
    /\ UNCHANGED <<life, bytecode, breakpoints, breakRequest, stepRequest, awaiting, vmState,
                   toRobot, commands, results, overlapped, promised>>

-----------------------------------------------------------------------------
(* Messages of the robot. *)

\* The callbacks of m_callbacks_pending_execution_state_change are called, all of them.
ToldAwaiting(r) == FoldSeq(LAMBDA id, acc : Answer(acc, id, OK), r, awaiting)

\* on_execution_state_message: every callback that waited for it is called, then a step
\* request goes on or ends.
OnExecutionState ==
    /\ life = "up" /\ fromRobot # <<>> /\ Head(fromRobot).type = "State"
    /\ LET vm   == [state |-> Head(fromRobot).mode, line |-> LineFromPc(bytecode, Head(fromRobot).pc)]
           step == HandleStep(stepRequest, vm, ToldAwaiting(results), toRobot)
       IN /\ vmState' = vm
          /\ stepRequest' = step.pending /\ results' = step.results /\ toRobot' = step.queue
    /\ awaiting' = <<>>
    /\ fromRobot' = Tail(fromRobot)
    /\ UNCHANGED <<life, bytecode, breakpoints, breakRequest, robotVm, commands, overlapped, promised>>

\* on_vm_runtime_error.
OnRuntimeError ==
    /\ life = "up" /\ fromRobot # <<>> /\ Head(fromRobot).type = "Error"
    /\ vmState' = [state |-> "Stopped", line |-> LineFromPc(bytecode, Head(fromRobot).pc)]
    /\ stepRequest' = {} /\ results' = CancelStep(results)
    /\ fromRobot' = Tail(fromRobot)
    /\ UNCHANGED <<life, bytecode, breakpoints, breakRequest, awaiting, toRobot, robotVm,
                   commands, overlapped, promised>>

\* The breakpoint of a pending request that a result is about is set, or given up.
AfterResult_Any(b, res) ==
    [b EXCEPT !.pending = {e \in @ : e[1] # res.pc}, !.set = @ \cup {e[2] : e \in {e \in b.pending : e[1] = res.pc}}]
AfterResult(b, res) ==
    [b EXCEPT !.pending = {e \in @ : e[1] # res.pc},
              !.set = IF res.success THEN @ \cup {e[2] : e \in {e \in b.pending : e[1] = res.pc}} ELSE @]

\* on_breakpoint_set_result: the last result ends the request.
OnBreakpointSetResult ==
    /\ life = "up" /\ fromRobot # <<>> /\ Head(fromRobot).type = "SetResult"
    /\ LET res    == Head(fromRobot)
           hit    == {b \in breakRequest : \E e \in b.pending : e[1] = res.pc}
           done   == {b \in {AfterResult(b, res) : b \in hit} : b.pending = {}}
       IN /\ breakRequest' = IF done # {} THEN {} ELSE (breakRequest \ hit) \cup {AfterResult(b, res) : b \in hit}
          /\ breakpoints' = IF done # {} THEN UNION {b.set : b \in done} ELSE breakpoints
          /\ results' = FoldSet(LAMBDA b, acc : Answer(acc, b.id, [error |-> FALSE, set |-> b.set]),
                                results, done)
    /\ fromRobot' = Tail(fromRobot)
    /\ UNCHANGED <<life, bytecode, stepRequest, awaiting, vmState, toRobot, robotVm, commands,
                   overlapped, promised>>

\* schedule_execution_state_update: the timer asks for the state every second.
StatusTimer ==
    /\ life = "up" /\ toRobot = <<>> /\ fromRobot = <<>>
    /\ toRobot' = Write(toRobot, <<VmMessage("GetState", 0)>>, NoCallback)
    /\ UNCHANGED <<life, bytecode, breakpoints, breakRequest, stepRequest, awaiting, vmState,
                   fromRobot, robotVm, commands, results, overlapped, promised>>

\* disconnect: the endpoint is gone, and what it had queued with it.
DisconnectNode_KeepBreak ==
    /\ life = "up" /\ life' = "gone"
    /\ stepRequest' = {} /\ breakRequest' = {}
    /\ results' = CancelStep(results)
    /\ toRobot' = <<>> /\ fromRobot' = <<>>
    /\ UNCHANGED <<bytecode, breakpoints, awaiting, vmState, robotVm, commands, overlapped, promised>>
DisconnectNode ==
    /\ life = "up" /\ life' = "gone"
    /\ stepRequest' = {} /\ breakRequest' = {}
    /\ results' = CancelBreak(CancelStep(results))
    /\ toRobot' = <<>> /\ fromRobot' = <<>>
    /\ UNCHANGED <<bytecode, breakpoints, awaiting, vmState, robotVm, commands, overlapped, promised>>

\* ~aseba_node.
DestroyNode ==
    /\ life = "gone" /\ life' = "destroyed"
    /\ stepRequest' = {} /\ breakRequest' = {}
    /\ results' = CancelBreak(CancelStep(results))
    /\ UNCHANGED <<bytecode, breakpoints, awaiting, vmState, toRobot, fromRobot, robotVm, commands,
                   overlapped, promised>>

DebuggerNext ==
    \/ \E p \in {"user", "broken"} : LoadProgram(p)
    \/ RefuseProgram
    \/ \E t \in {"Run", "Pause"} : SetExecutionState(t)
    \/ StopMotors \/ CompileWithoutEndpoint \/ StepToNextLine
    \/ \E lines \in LineSets : SetBreakpoints(lines)
    \/ MessageWritten \/ RuntimeError
    \/ OnExecutionState \/ OnRuntimeError \/ OnBreakpointSetResult
    \/ StatusTimer \/ DisconnectNode \/ DestroyNode

-----------------------------------------------------------------------------
(* Properties. *)

\* A command that waits for the robot is answered.  A breakpoint request is: by the robot, by
\* the next request or program, or by the end of the node (m_pending_breakpoint_request).  A
\* client whose program has been written to a robot that stays is told so, even when the robot
\* says nothing of its own accord (schedule_execution_state_update).
CommandsAnswered ==
    \A id \in 1..MaxCommands :
        /\ []<>([id |-> id, kind |-> "break"] \in promised => results[id] # <<>> \/ life = "crashed")
        /\ []<>([id |-> id, kind |-> "load"] \in promised => results[id] # <<>> \/ life # "up")

\* The breakpoints a client is told are set are set in the robot, unless it asked again
\* before it was answered or stopped the robot since (set_breakpoints keeps what
\* m_breakpoints says, which both of these leave unconfirmed).
ReportedAreSet ==
    [][\A id \in 1..MaxCommands :
          (results'[id] # results[id] /\ life' = "up" /\ ~overlapped' /\ bytecode' # "motors") =>
              \A l \in Last(results'[id]).set : PcFromLine(bytecode', l) \in robotVm'.breaks
      ]_debuggerVars
=============================================================================
