----------------------------- MODULE SetService -----------------------------
(***************************************************************************)
(* setservice.py over jsonservice.py, driven by a test of test3.py.  The  *)
(* test's thread (Main) plays the set_clients; the service runs in         *)
(* coroutines on the same native thread: co_start (do_start, accepting     *)
(* connections) and one co_handler per accepted connection                 *)
(* (do_handle_client, serving one request each time it is resumed).        *)
(* Control passes only by coroutine.transfer: a client sends its request   *)
(* and calls service.cont, which transfers to the handler; the handler     *)
(* transfers back to its caller.                                           *)
(*                                                                         *)
(* A JSON message is a record; a socket stream is the sequence of the      *)
(* messages written to it and not yet read.  A blocking socket call        *)
(* (recv, accept) that finds nothing to read blocks the one native thread  *)
(* for good: nothing else can run to write what it waits for ("hung").    *)
(* Handlers are named by their handler_id.                                 *)
(*                                                                         *)
(* The coroutines and their transfers are those of the Coroutine layer.    *)
(* The same layer runs the other tests that use class coroutine without a  *)
(* Scenario (test1.py, listtest.py's dispatchers): a test is either a set  *)
(* test, a sequence of set_client calls, or a coroutine test, the programs *)
(* of Main and of the coroutines in Gen.                                   *)
(***************************************************************************)
EXTENDS Coroutine, SequencesExt, FiniteSets

CONSTANTS
  Clients,  \* the set_clients the test creates
  Elems,    \* the elements they add
  Scripts,  \* the tests: [kind |-> "set", calls |-> calls [op, c, e] on
            \* the clients] or [kind |-> "co", prog, x0, ends]
  Start,    \* service.co_start
  Gen       \* the coroutines of the coroutine tests

HandlerIds == 0 .. Cardinality(Clients) - 1

ASSUME Co = {Start} \cup HandlerIds \cup Gen
ASSUME {Main, Start, None} \cap (HandlerIds \cup Clients \cup Gen) = {}

Runners == Gen \cup {Main}

VARIABLES
  script,    \* the test (chosen once)
  mpc,       \* Main's next step in Steps(script.calls)
  spc,       \* where co_start is suspended: "new", "Y1", "spawn", "Y2"
  hpc,       \* hpc[h]: handler h is "none" (not created), "first", "Y"
  spawned,   \* do_start's local handler_id
  coh,       \* service.co_handlers, as the handler_ids of its coroutines
  conn,      \* conn[h]: the client whose connection handler h serves
  listening, \* json_service.start bound and listened
  backlog,   \* connections the server has not accepted yet
  toServer,  \* toServer[c]: messages client c sent, not read yet
  toClient,  \* toClient[c]: messages sent to client c, not read yet
  idToSet,   \* service.id_to_set: set id -> its keys in insertion order
  nextid,    \* service.nextid
  hid,       \* hid[c]: client c's handler_id
  setId,     \* setId[c]: client c's set_id
  added,     \* history: what client c added to its set since new()
  results    \* history: what contents() returned, and what had been added

vars == <<coVars, script, mpc, spc, hpc, spawned, coh, conn,
          listening, backlog, toServer, toClient, idToSet, nextid, hid, setId,
          added, results>>

(***************************************************************************)
(* What Main runs for each call of the test, cut at its transfers: every   *)
(* step but the last of a call ends in service.cont, and the next one      *)
(* runs when control is back in Main.                                      *)
(***************************************************************************)
Step(o, c, e) == [op |-> o, c |-> c, e |-> e]

Expand(call) ==
  CASE call.op = "connect"  -> <<Step("connect", call.c, None),
                                Step("hello", call.c, None),
                                Step("setid", call.c, None)>>
    [] call.op = "new"      -> <<Step("new", call.c, None),
                                Step("setid", call.c, None)>>
    [] call.op = "add"      -> <<Step("add", call.c, call.e)>>
    [] call.op = "contents" -> <<Step("contents", call.c, None),
                                Step("result", call.c, None)>>

Steps(s) ==
  <<Step("start", None, None)>>
  \o FlattenSeq([i \in 1 .. Len(s) |-> Expand(s[i])])
  \o <<Step("shutdown", None, None)>>

Now == Steps(script.calls)[mpc]

Send(q, c, m) == [q EXCEPT ![c] = Append(@, m)]

\* A transfer of the service or of a set_client: none passes a label.
Handoff(from, to, internal) == Transfer(from, to, None, internal, ctxbound)

\* coroutine.transfer(None): back to the caller, or to Main if none.
Back(c) == Handoff(c, None, FALSE)

\* service.cont(handler_id): assert 0 <= id < len(co_handlers), then
\* transfer to co_handlers[id] (an IndexError without the assert).
Cont(id) ==
  IF id \in 0 .. Len(coh) - 1
  THEN Handoff(Main, coh[id + 1], FALSE)
  ELSE Fail /\ UNCHANGED ctxbound

\* The client side of a json socket: receive_object on client c; a message
\* without the key the client reads is a KeyError.
Received(c, kind) == toClient[c] # <<>> /\ Head(toClient[c]).kind = kind

Unreadable(c, kind) ==
  /\ phase' = IF toClient[c] = <<>> THEN "hung" ELSE "fault"
  /\ UNCHANGED <<cur, caller, ctxbound, toClient>>

(***************************************************************************)
(* The service's coroutines count as started: service.start and do_start   *)
(* create each one and call it in the same step.                           *)
(***************************************************************************)
Init ==
  /\ script \in Scripts /\ mpc = 1 /\ phase = "run"
  /\ cur = Main /\ caller = [c \in Co |-> None]
  /\ started = [c \in Co |-> c \notin Gen] /\ ended = [c \in Co |-> FALSE]
  /\ ctxbound = [c \in Co |-> 0]
  /\ prog = IF script.kind = "co" THEN script.prog ELSE [e \in {} |-> <<>>]
  /\ pc = [e \in Runners |-> 1] /\ pending = [e \in Runners |-> None]
  /\ x = IF script.kind = "co" THEN script.x0 ELSE 0
  /\ spc = "new" /\ hpc = [h \in HandlerIds |-> "none"]
  /\ spawned = None /\ coh = <<>> /\ conn = [h \in HandlerIds |-> None]
  /\ listening = FALSE /\ backlog = <<>>
  /\ toServer = [c \in Clients |-> <<>>] /\ toClient = [c \in Clients |-> <<>>]
  /\ idToSet = <<>> /\ nextid = 0
  /\ hid = [c \in Clients |-> None] /\ setId = [c \in Clients |-> None]
  /\ added = [c \in Clients |-> <<>>] /\ results = <<>>


srvVars    == <<spc, hpc, spawned, coh, conn>>
progVars   == <<started, ended, prog, pc, pending, x>>
setVars    == <<idToSet, nextid>>
clientVars == <<hid, setId, added, results>>

MainTurn ==
  /\ phase = "run" /\ cur = Main /\ script.kind = "set"
  /\ mpc <= Len(Steps(script.calls))

\* service.start(): coroutine(do_start)() creates co_start, the second
\* call transfers to it (internally, with STARTING_LABEL).
MainStart ==
  /\ MainTurn /\ Now.op = "start"
  /\ Handoff(Main, Start, TRUE) /\ mpc' = mpc + 1
  /\ UNCHANGED <<script, progVars, srvVars, listening, backlog, toServer, toClient,
                 setVars, clientVars>>

\* set_client.connect: the socket connects (refused if nobody listens),
\* then service.cont(None) transfers to co_start.
MainConnect ==
  /\ MainTurn /\ Now.op = "connect"
  /\ IF listening
     THEN /\ backlog' = Append(backlog, Now.c)
          /\ Handoff(Main, Start, FALSE) /\ mpc' = mpc + 1
     ELSE phase' = "fault" /\ UNCHANGED <<backlog, cur, caller, ctxbound, mpc>>
  /\ UNCHANGED <<script, progVars, srvVars, listening, toServer, toClient, setVars,
                 clientVars>>

\* connect, after cont(None): receive the handler_id, then new(): send
\* {"op": "new"} and cont(handler_id).
MainHello ==
  /\ MainTurn /\ Now.op = "hello"
  /\ LET c == Now.c IN
     IF Received(c, "handler_id")
     THEN /\ hid' = [hid EXCEPT ![c] = Head(toClient[c]).v]
          /\ toClient' = [toClient EXCEPT ![c] = Tail(@)]
          /\ toServer' = Send(toServer, c, [op |-> "new", id |-> None,
                                            elt |-> None])
          /\ Cont(Head(toClient[c]).v) /\ mpc' = mpc + 1
     ELSE Unreadable(c, "handler_id") /\ UNCHANGED <<hid, toServer, mpc>>
  /\ UNCHANGED <<script, progVars, srvVars, listening, backlog, setVars, setId, added,
                 results>>

\* new(), after cont: receive the set id.
MainSetId ==
  /\ MainTurn /\ Now.op = "setid"
  /\ LET c == Now.c IN
     IF Received(c, "id")
     THEN /\ setId' = [setId EXCEPT ![c] = Head(toClient[c]).v]
          /\ toClient' = [toClient EXCEPT ![c] = Tail(@)]
          /\ added' = [added EXCEPT ![c] = <<>>]
          /\ mpc' = mpc + 1 /\ UNCHANGED <<phase, cur, caller, ctxbound>>
     ELSE Unreadable(c, "id") /\ UNCHANGED <<setId, added, mpc>>
  /\ UNCHANGED <<script, progVars, srvVars, listening, backlog, toServer, setVars, hid,
                 results>>

\* new(), add(elt), contents(): send the request, then cont(handler_id).
MainRequest ==
  /\ MainTurn /\ Now.op \in {"new", "add", "contents"}
  /\ LET c == Now.c IN
     /\ toServer' = Send(toServer, c,
                         [op |-> Now.op,
                          id |-> IF Now.op = "new" THEN None ELSE setId[c],
                          elt |-> Now.e])
     /\ added' = IF Now.op = "add"
                 THEN [added EXCEPT ![c] = Append(@, Now.e)] ELSE added
     /\ Cont(hid[c]) /\ mpc' = mpc + 1
  /\ UNCHANGED <<script, progVars, srvVars, listening, backlog, toClient, setVars, hid,
                 setId, results>>

\* contents(), after cont: receive the contents.
MainResult ==
  /\ MainTurn /\ Now.op = "result"
  /\ LET c == Now.c IN
     IF Received(c, "contents")
     THEN /\ results' = Append(results, [got |-> Head(toClient[c]).v,
                                         added |-> added[c]])
          /\ toClient' = [toClient EXCEPT ![c] = Tail(@)]
          /\ mpc' = mpc + 1 /\ UNCHANGED <<phase, cur, caller, ctxbound>>
     ELSE Unreadable(c, "contents") /\ UNCHANGED <<results, mpc>>
  /\ UNCHANGED <<script, progVars, srvVars, listening, backlog, toServer, setVars, hid,
                 setId, added>>

\* service.shutdown() and client.close(): the test returns.
MainShutdown ==
  /\ MainTurn /\ Now.op = "shutdown"
  /\ phase' = "done"
  /\ UNCHANGED <<script, progVars, mpc, cur, caller, ctxbound, srvVars,
                 listening, backlog, toServer, toClient, setVars, clientVars>>

-----------------------------------------------------------------------------
StartTurn(at) == phase = "run" /\ cur = Start /\ spc = at

\* do_start, first run: json_service.start (bind, listen), then the yield
\* transfer(None) at the top of the loop.
StartFirst ==
  /\ StartTurn("new")
  /\ listening' = TRUE /\ Back(Start) /\ spc' = "Y1"
  /\ UNCHANGED <<script, progVars, mpc, hpc, spawned, coh, conn, backlog, toServer,
                 toClient, setVars, clientVars>>

\* do_start after the yield: accept (blocking), handler_id =
\* len(co_handlers), and a coroutine for do_handle_client that is created
\* and called, an internal transfer to it.
StartAccept ==
  /\ StartTurn("Y1")
  /\ IF backlog = <<>>
     THEN phase' = "hung" /\ UNCHANGED <<backlog, spawned, conn, hpc, cur,
                                         caller, ctxbound, spc>>
     ELSE LET h == Len(coh) IN
          /\ backlog' = Tail(backlog) /\ spawned' = h
          /\ conn' = [conn EXCEPT ![h] = Head(backlog)]
          /\ hpc' = [hpc EXCEPT ![h] = "first"]
          /\ Handoff(Start, h, TRUE) /\ spc' = "spawn"
  /\ UNCHANGED <<script, progVars, mpc, coh, listening, toServer, toClient, setVars,
                 clientVars>>

\* Mutant: the handler is never appended to co_handlers.
StartSpawnedNoAppend ==
  /\ StartTurn("spawn")
  /\ Handoff(Start, Main, FALSE) /\ spc' = "Y2"
  /\ UNCHANGED <<script, progVars, mpc, hpc, spawned, coh, conn, listening, backlog,
                 toServer, toClient, setVars, clientVars>>

\* do_start after the handler yielded: co_handlers.append, then
\* transfer() to Main; the loop then yields again at its top.
StartSpawned ==
  /\ StartTurn("spawn")
  /\ coh' = Append(coh, spawned)
  /\ Handoff(Start, Main, FALSE) /\ spc' = "Y2"
  /\ UNCHANGED <<script, progVars, mpc, hpc, spawned, conn, listening, backlog,
                 toServer, toClient, setVars, clientVars>>

StartLoop ==
  /\ StartTurn("Y2")
  /\ Back(Start) /\ spc' = "Y1"
  /\ UNCHANGED <<script, progVars, mpc, hpc, spawned, coh, conn, listening, backlog,
                 toServer, toClient, setVars, clientVars>>

HandlerTurn(h, at) == phase = "run" /\ cur = h /\ hpc[h] = at

\* do_handle_client, first run: send {"handler_id": h}, then yield.
HandlerFirst(h) ==
  /\ HandlerTurn(h, "first")
  /\ toClient' = Send(toClient, conn[h], [kind |-> "handler_id", v |-> h])
  /\ hpc' = [hpc EXCEPT ![h] = "Y"] /\ Back(h)
  /\ UNCHANGED <<script, progVars, mpc, spc, spawned, coh, conn, listening, backlog,
                 toServer, setVars, clientVars>>

\* Mutant: the set kept as a list, appending every element added.
AddKeyAlways(keys, e) == Append(keys, e)

\* A set is a dict used for its keys: set[elt] = True keeps the order in
\* which the keys were first inserted.
AddKey(keys, e) == IF Contains(keys, e) THEN keys ELSE Append(keys, e)

\* Mutant: "new" without self.nextid += 1.
HandleNoIncrement(c, r) ==
  CASE r.op = "new" ->
         /\ idToSet' = (nextid :> <<>>) @@ idToSet /\ UNCHANGED nextid
         /\ toClient' = Send(toClient, c, [kind |-> "id", v |-> nextid])
    [] r.op = "add" ->
         /\ idToSet' = [idToSet EXCEPT ![r.id] = AddKey(@, r.elt)]
         /\ UNCHANGED <<nextid, toClient>>
    [] r.op = "contents" ->
         /\ toClient' = Send(toClient, c, [kind |-> "contents",
                                           v |-> idToSet[r.id]])
         /\ UNCHANGED setVars

\* handle_request for "new", "add" and "contents".
Handle(c, r) ==
  CASE r.op = "new" ->
         /\ idToSet' = (nextid :> <<>>) @@ idToSet /\ nextid' = nextid + 1
         /\ toClient' = Send(toClient, c, [kind |-> "id", v |-> nextid])
    [] r.op = "add" ->
         /\ idToSet' = [idToSet EXCEPT ![r.id] = AddKey(@, r.elt)]
         /\ UNCHANGED <<nextid, toClient>>
    [] r.op = "contents" ->
         /\ toClient' = Send(toClient, c, [kind |-> "contents",
                                           v |-> idToSet[r.id]])
         /\ UNCHANGED setVars

\* do_handle_client after its yield: receive one request (blocking),
\* handle it, and yield again at the top of the loop.  A set id the
\* service does not know is a KeyError.
HandlerServe(h) ==
  /\ HandlerTurn(h, "Y")
  /\ LET c == conn[h] IN
     CASE toServer[c] = <<>> ->
            phase' = "hung" /\ UNCHANGED <<toServer, toClient, setVars, cur,
                                           caller, ctxbound>>
       [] Head(toServer[c]).op # "new"
          /\ Head(toServer[c]).id \notin DOMAIN idToSet ->
            phase' = "fault" /\ UNCHANGED <<toServer, toClient, setVars, cur,
                                            caller, ctxbound>>
       [] OTHER ->
            /\ toServer' = [toServer EXCEPT ![c] = Tail(@)]
            /\ Handle(c, Head(toServer[c])) /\ Back(h)
  /\ UNCHANGED <<script, progVars, mpc, srvVars, listening, backlog, clientVars>>

\* An instruction of a coroutine test's program (Main's or a coroutine's).
ProgStep(e) ==
  /\ Run(e) \/ FinishReturn(e) \/ Return(e)
  /\ UNCHANGED <<script, mpc, srvVars, listening, backlog, toServer, toClient,
                 setVars, clientVars>>

\* The test returned, or raised, or blocks for good.
Finished == phase # "run" /\ UNCHANGED vars

Next ==
  \/ MainStart \/ MainConnect \/ MainHello \/ MainSetId \/ MainRequest
  \/ MainResult \/ MainShutdown
  \/ StartFirst \/ StartAccept \/ StartSpawned \/ StartLoop
  \/ \E h \in HandlerIds : HandlerFirst(h) \/ HandlerServe(h)
  \/ \E e \in Runners : ProgStep(e)
  \/ Finished

\* One native thread runs everything and always takes its next step.
Spec == Init /\ [][Next]_vars /\ WF_vars(Next)

-----------------------------------------------------------------------------
Msgs == [op : {"new", "add", "contents"}, id : Nat \cup {None},
         elt : Elems \cup {None}]

TypeOK ==
  /\ script \in Scripts
  /\ script.kind = "set" => mpc \in 1 .. Len(Steps(script.calls))
  /\ phase \in {"run", "done", "hung", "fault"}
  /\ cur \in Co \cup {Main} /\ caller \in [Co -> Co \cup {Main, None}]
  /\ started \in [Co -> BOOLEAN] /\ ended \in [Co -> BOOLEAN]
  /\ ctxbound \in [Co -> Nat] /\ pc \in [Runners -> Nat \ {0}]
  /\ pending \in [Runners -> Gen \cup {None}] /\ x \in Int
  /\ spc \in {"new", "Y1", "spawn", "Y2"}
  /\ hpc \in [HandlerIds -> {"none", "first", "Y"}]
  /\ spawned \in HandlerIds \cup {None} /\ coh \in Seq(HandlerIds)
  /\ conn \in [HandlerIds -> Clients \cup {None}]
  /\ listening \in BOOLEAN /\ backlog \in Seq(Clients)
  /\ toServer \in [Clients -> Seq(Msgs)]
  /\ DOMAIN idToSet = 0 .. nextid - 1
  /\ \A i \in DOMAIN idToSet : idToSet[i] \in Seq(Elems)
  /\ hid \in [Clients -> HandlerIds \cup {None}]
  /\ added \in [Clients -> Seq(Elems)]

\* The reference for a Python set built as a dict: the distinct elements
\* of s, each at the place of its first occurrence.
Firsts(s) ==
  LET firstAt == SelectSeq([i \in 1 .. Len(s) |-> i],
                           LAMBDA i : \A j \in 1 .. i - 1 : s[j] # s[i])
  IN  [k \in DOMAIN firstAt |-> s[firstAt[k]]]

\* What contents() returns to a client is what that client added to its set
\* since its last new(), without repetitions, in the order of first
\* addition: the requests reach the right handler and the right set through
\* the handler_id, the set id and the transfers between the coroutines.
ContentsCorrect ==
  \A i \in DOMAIN results : results[i].got = Firsts(results[i].added)

\* Every test returns: no socket call blocks for good, nothing raises.
TestCompletes == <>(phase = "done")

\* A test whose calls are all on one set_client returns: the accept that
\* its connect() wakes co_start for, and every request its calls wake its
\* handler for, find what they read.
\* So does every coroutine test: no transfer goes to a coroutine that ended
\* or to no target, and the last coroutine to end transfers back to Main.
OneClient ==
  script.kind = "set" /\ \A i \in DOMAIN script.calls :
                            script.calls[i].c = script.calls[1].c

PassingTestCompletes == (OneClient \/ script.kind = "co") => <>(phase = "done")

\* finish() returns only once the coroutine it finishes has ended: with
\* context bound 1 each later transfer of that coroutine, to Main or to
\* another coroutine, is swallowed, and its ending transfer goes back to
\* the caller of finish (the "assert self.ended" of coroutine.finish).
FinishRunsToEnd ==
  \A e \in Runners : cur = e /\ pending[e] # None => ended[pending[e]]

\* A coroutine test returns only after the coroutines it runs to their end
\* have ended (test_ping_pong: "returns back when both ping and pong
\* terminates"; a dispatcher finishes every client): each ending transfer
\* reaches the coroutine that resumed the one ending, and no transfer
\* returns to Main early.
EndsBeforeReturn ==
  script.kind = "co" /\ phase = "done" => \A g \in script.ends : ended[g]

=============================================================================
