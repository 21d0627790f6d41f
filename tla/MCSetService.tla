---------------------------- MODULE MCSetService ----------------------------
EXTENDS SetService

CONSTANTS c1, c2, g1, g2

MCCo == {Start} \cup HandlerIds \cup Gen

ClientCall(o, c, e) == [op |-> o, c |-> c, e |-> e]

SetTest(calls) == [kind |-> "set", calls |-> calls]

\* test3.py, test_add and test_new.
MCTestAdd == <<ClientCall("connect", c1, None), ClientCall("add", c1, 41),
               ClientCall("add", c1, 42), ClientCall("add", c1, 43),
               ClientCall("contents", c1, None)>>

\* test3.py, test_contents_two_clients.
MCTestTwoClients ==
  <<ClientCall("connect", c1, None), ClientCall("connect", c2, None),
    ClientCall("add", c1, 41), ClientCall("contents", c1, None)>>

\* One client: connect, then every sequence of up to five calls.
MCOps == {ClientCall("add", c1, e) : e \in {41, 42}}
         \cup {ClientCall("new", c1, None), ClientCall("contents", c1, None)}

MCTestAddSet == {SetTest(MCTestAdd)}

MCTwoClientsSet == {SetTest(MCTestTwoClients)}

MCScriptsOne ==
  {SetTest(<<ClientCall("connect", c1, None)>> \o s) : s \in BoundedSeq(MCOps, 5)}

-----------------------------------------------------------------------------
(* The coroutine tests, with g1 and g2 for their coroutines.               *)
CoCall(c) == Instr("call", c, None)
Fin(c)    == Instr("finish", c, None)
Tr(to)    == Instr("transfer", to, None)
Yield(l)  == Instr("transfer", Main, l)
Dec       == Instr("dec", None, None)
LoopTo(k) == Instr("loop", k, None)

CoTest(m, p1, p2, x0, ends) ==
  [kind |-> "co", prog |-> (Main :> m) @@ (g1 :> p1) @@ (g2 :> p2),
   x0 |-> x0, ends |-> ends]

\* test1.py test_generator, with range(1, 4) and Main's range(1, 3).
MCGenerator ==
  CoTest(<<CoCall(g1), Tr(g1), Tr(g1)>>, <<Tr(None), Tr(None), Tr(None)>>,
         <<>>, 0, {})

\* test1.py test_positive_negative with k = 3: neg is g1, pos is g2.
MCPosNeg ==
  CoTest(<<CoCall(g1), CoCall(g2), Tr(g2)>>, <<Tr(None), Tr(None)>>,
         <<Tr(g1), Tr(g1)>>, 0, {g1, g2})

\* test1.py test_ping_pong: ping is g1, pong is g2, self.x = 10.
MCPingPong ==
  CoTest(<<CoCall(g1), CoCall(g2), Tr(g1)>>, <<Dec, Tr(g2), LoopTo(1)>>,
         <<Dec, Tr(g1), LoopTo(1)>>, 10, {g1, g2})

\* listtest.py test_2: client1 (g1) adds three elements, each add yielding
\* at add_1 and add_2; client2 (g2) reads the contents, which never yields.
\* The dispatcher calls c1(), c2.finish(), c1.finish(), then finishes
\* every client again.
MCListTest2 ==
  CoTest(<<CoCall(g1), CoCall(g2), CoCall(g1), Fin(g2), Fin(g1), Fin(g1),
           Fin(g2)>>,
         <<Yield("add_1"), Yield("add_2"), Yield("add_1"), Yield("add_2"),
           Yield("add_1"), Yield("add_2")>>,
         <<>>, 0, {g1, g2})

\* listtest.py test_3: each client adds one element; the dispatcher calls
\* c2(), c1(), then finishes both.
MCListTest3 ==
  CoTest(<<CoCall(g1), CoCall(g2), CoCall(g2), CoCall(g1), Fin(g1), Fin(g2)>>,
         <<Yield("add_1"), Yield("add_2")>>, <<Yield("add_1"), Yield("add_2")>>,
         0, {g1, g2})

\* listtest.py test_4 on the list [1]: client1 adds 2 and removes 1,
\* client2's foreach yields once per element it visits (1, then the 2
\* added meanwhile); the dispatcher calls c1(), c2(), c1(), then finishes
\* both.
MCListTest4 ==
  CoTest(<<CoCall(g1), CoCall(g2), CoCall(g1), CoCall(g2), CoCall(g1),
           Fin(g1), Fin(g2)>>,
         <<Yield("add_1"), Yield("add_2"), Yield("remove_1")>>,
         <<Yield("foreach"), Yield("foreach")>>, 0, {g1, g2})

MCCoTests ==
  {MCGenerator, MCPosNeg, MCPingPong, MCListTest2, MCListTest3, MCListTest4}

MCScriptsPass == MCScriptsOne \cup MCTwoClientsSet \cup MCCoTests
=============================================================================
