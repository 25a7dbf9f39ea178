----------------------------- MODULE MCClients ------------------------------
(***************************************************************************)
(* One instance of each module about groups, what applications ask for and *)
(* what is computed for them.  A behaviour runs one of them, chosen at the *)
(* start; the others stay in their initial states.                         *)
(***************************************************************************)
EXTENDS Groups, AppRequests, AppServer, Dongles, HexFile, Compilation

CONSTANTS e1, e2, r1, r2

VARIABLE part

clientsVars == <<part, groupsVars, requestsVars, serverVars, donglesVars, hexVars, compilationVars>>

-----------------------------------------------------------------------------
(* Groups: a cable and a dongle, and a robot that moves from one to the other. *)

MCHosts == e1 :> {r1} @@ e2 :> {r1, r2}
MCNativeIds == r1 :> 1 @@ r2 :> 2
MCRobotNames == r1 :> "a" @@ r2 :> "b"
MCFiles ==
  {[nodes |-> <<[pref |-> NoRobot, name |-> "b", aseba |-> 65535],
                [pref |-> r2, name |-> "x", aseba |-> 2]>>,
    events |-> <<"ev">>, constant |-> TRUE]}

-----------------------------------------------------------------------------
(* Requests: each menu is what some clients ask of a robot "r" and its group. *)

MCGroupId == [r \in Thymios |-> "g"]
Asks(kinds, ids) == [kind : kinds, id : ids, flags : {{}}]
Watches(sets, ids) == [kind : {"watch"}, id : ids, flags : sets]
Menu(rs, by, most, updates) == [requests |-> rs, by |-> by, most |-> most, updates |-> updates]
MCMenus ==
  {Menu(Asks({"lock", "unlock", "stop"}, {"r"}), {"a", "b"}, 3, 0),
   Menu(Asks({"lock", "run", "load", "stop", "unlock", "breakpoints", "setvariables", "setnothing"},
             {"r"}), {"b"}, 3, 0),
   Menu(Asks({"lock"}, {"r"})
        \cup Asks({"emit", "compile", "save", "saveaesl", "setvariables"}, {"r", "g"}), {"a"}, 2, 0),
   Menu(Asks({"lock", "events", "rename", "scratchpad", "list", "unsupported", "description",
              "shutdown"}, {"r"}), {"a"}, 2, 0),
   Menu(Watches({{"variables", "state"}, {"state"}, {}}, {"r"}), {"a"}, 3, 1),
   Menu(Watches({{"shared"}}, {"r", "g"}), {"a"}, 3, 2)}

-----------------------------------------------------------------------------
(* Connections: this machine on two networks, and peers on them and off them. *)

Peer(f, net, host) == [family |-> f, net |-> net, host |-> host]
MCInterfaces == {Peer("v4", 1, 1), Peer("v6", 7, 1)}
MCPeers == {Peer("v4", 1, 1), Peer("mapped", 1, 1), Peer("mapped", 1, 2), Peer("v6", 9, 3),
            Peer("v6", 7, 1)}

\* A robot whose firmware takes radio settings and one whose does not.
MCRobotProtocol == [r \in PairRobots |-> IF r = "new" THEN 9 ELSE 8]

\* Data of one or two bytes that may meet or overlap, and every other record.
Record(type, address, bytes, good) ==
  [type |-> type, address |-> address, bytes |-> bytes, good |-> good]
MCHexRecords ==
  {Record(0, at, bytes, TRUE) : at \in {0, 1, 2, 3, 5}, bytes \in {<<7>>, <<8, 9>>}}
  \cup {Record(0, 1, <<6>>, FALSE), Record(1, 0, <<0>>, TRUE), Record(2, 1, <<0, 1>>, TRUE),
        Record(4, 1, <<0, 1>>, TRUE), Record(2, 1, <<1>>, TRUE), Record(5, 0, <<0, 0, 0, 0>>, TRUE),
        Record(3, 0, <<0>>, TRUE)}

-----------------------------------------------------------------------------
(* Programs: what is declared, and the statements they are made of. *)

MCTarget ==
  [variables |-> <<[name |-> "x", size |-> 1], [name |-> "m", size |-> 3]>>,
   variablesSize |-> 20, stackSize |-> 32, bytecodeSize |-> 200, events |-> <<"tick">>,
   functions |-> <<[name |-> "nop", parameters |-> <<>>], [name |-> "copy", parameters |-> <<-1, -1>>]>>]
MCCommon ==
  [events |-> <<[name |-> "ping", size |-> 0], [name |-> "report", size |-> 2],
                [name |-> "one", size |-> 1]>>,
   constants |-> <<[name |-> "BIG", value |-> 3000]>>]
MCConstants == <<<<"N", Bin("+", Num(1), Bin("*", Num(2), Num(1)))>>>>
MCVariables == <<<<"a", 1, <<Num(2)>>>>, <<"b", 1, <<>>>>, <<"v", 3, <<Num(1), Num(-2), Ref("N")>>>>,
                 <<"w", 0, <<Num(5), Num(6)>>>>>>
MCInputs == {<<2, -3>>, <<-1, 1, 1>>}

a == Ref("a")
b == Ref("b")
x == Ref("x")
v == Ref("v")
w == Ref("w")
m == Ref("m")
Begin(ss) == Do("block", ss, <<>>)
If(cs) == Do("if", cs, <<>>)
MCPieces == <<
  Set(a, "=", Bin("-", Bin("+", b, Bin("*", x, Num(3))), Bin("-", a, Num(1)))),
  Set(v, "=", Vec(<<At("v", Num(2)), Slice("v", Num(0), Num(1))>>)),
  Set(At("v", a), "=", Bin("<<", x, Num(2))),
  Set(a, "=", At("v", Bin("+", x, Num(1)))),
  Set(v, "+=", m),
  Inc(b, "++"),
  Inc(m, "--"),
  If(<<Bin("and", Un("not", Bin("or", Bin(">", a, Num(1)), Bin("==", b, Num(0)))),
           Bin("!=", x, Num(0))),
       Begin(<<Set(b, "=", Un("-", a))>>),
       Begin(<<Do("emit", <<Vec(<<a, b>>)>>, <<"report">>)>>)>>),
  Do("when", <<Bin(">", x, Num(0)), Begin(<<Do("emit", <<>>, <<"ping">>)>>)>>, <<"w1">>),
  Do("while", <<Bin("<", a, Num(5)), Begin(<<Set(a, "+=", Num(2)), Inc(b, "--")>>)>>, <<>>),
  Do("for", <<b, Num(0), Num(4), Num(2), Begin(<<Set(At("v", Num(0)), "+=", b)>>)>>, <<>>),
  Do("for", <<At("v", Num(1)), Num(1), Num(-1), Num(-1),
              Begin(<<Set(a, "-=", At("v", Num(1)))>>)>>, <<>>),
  Do("callsub", <<>>, <<>>),
  If(<<Bin(">", x, Num(0)), Begin(<<Do("return", <<>>, <<>>)>>)>>),
  If(<<Bin("==", a, Num(2)), Begin(<<Do("emit", <<>>, <<"ping">>)>>),
       Begin(<<Do("return", <<>>, <<>>)>>)>>),
  Do("copy", <<Slice("v", Num(1), Num(2)), w>>, <<>>),
  Do("copy", <<m, Vec(<<a, Bin("+", x, Num(1)), Ref("BIG")>>)>>, <<>>),
  Do("copy", <<At("v", b), Bin("*", a, Num(2))>>, <<>>),
  Do("emit", <<w>>, <<"report">>),
  Do("emit", <<At("v", a)>>, <<"one">>),
  Set(w, "=", Bin("-", Bin("*", w, Vec(<<Ref("N"), Num(1)>>)), Slice("w", Num(0), Num(1)))),
  Set(b, "=", Bin("^", Bin("&", Bin("|", a, Num(5)), Un("~", x)), Bin("<<", Num(2), Num(1)))),
  If(<<Bin(">", Num(1), Num(2)), Begin(<<Set(a, "=", Num(7))>>),
       If(<<Bin("==", x, Num(2)), Begin(<<Set(a, "=", Num(9))>>),
            Begin(<<Set(b, "=", Bin("%", x, a))>>)>>)>>),
  Set(b, "=", Bin("/", Un("abs", x), Num(2))),
  Set(Slice("m", Num(1), Num(2)), "=", Slice("v", Num(0), Num(1)))
  >>

-----------------------------------------------------------------------------
ClientsInit ==
  /\ part \in {"groups", "requests", "server", "dongles", "hex", "compiler"}
  /\ GroupsInit
  /\ RequestsInit /\ (part = "requests" \/ menu = CHOOSE any \in Menus : TRUE)
  /\ ServerInit /\ (part = "server" \/ ~allowRemote)
  /\ DonglesInit /\ HexInit /\ CompilationInit

ClientsNext ==
  \/ /\ part = "groups" /\ GroupsNext
     /\ UNCHANGED <<part, requestsVars, serverVars, donglesVars, hexVars, compilationVars>>
  \/ /\ part = "requests" /\ RequestsNext
     /\ UNCHANGED <<part, groupsVars, serverVars, donglesVars, hexVars, compilationVars>>
  \/ /\ part = "server" /\ ServerNext
     /\ UNCHANGED <<part, groupsVars, requestsVars, donglesVars, hexVars, compilationVars>>
  \/ /\ part = "dongles" /\ DonglesNext
     /\ UNCHANGED <<part, groupsVars, requestsVars, serverVars, hexVars, compilationVars>>
  \/ /\ part = "hex" /\ HexNext
     /\ UNCHANGED <<part, groupsVars, requestsVars, serverVars, donglesVars, compilationVars>>
  \/ /\ part = "compiler" /\ CompilationNext
     /\ UNCHANGED <<part, groupsVars, requestsVars, serverVars, donglesVars, hexVars>>

ClientsSpec == ClientsInit /\ [][ClientsNext]_clientsVars
=============================================================================
