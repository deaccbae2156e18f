------------------------------- MODULE Approval -------------------------------
(***************************************************************************)
(* The approval of critical actions by the user                            *)
(* (app/domain/services/approval_service.py), over the WebSocket bridge    *)
(* (app/infrastructure/adapters/alfonso_bridge.py) and the REST endpoints  *)
(* that resolve an approval (app/api/routes.py).                           *)
(*                                                                         *)
(* All of it runs on one event loop: a step is the code between two        *)
(* awaits.  A request waits twice: for the client's reply to the command   *)
(* "approval_required" (60 s, inside send_command), and then for the       *)
(* user's answer over REST (120 s).  The answer may come during the first  *)
(* wait already.                                                           *)
(*                                                                         *)
(* asyncio.wait_for of Python 3.12 cancels the waiting task when the time  *)
(* is over; a result set just before, that the task has not seen yet, is   *)
(* lost.                                                                   *)
(***************************************************************************)
EXTENDS Naturals, SequencesExt

CONSTANTS
    Actions,  \* critical actions, by their action_id: each is asked for once
    Conns,    \* bound: connections, each opened once
    Ids,      \* the client_id values of handshakes
    Replies,  \* what clients reply to "approval_required": the agent of the
              \*   repository has no handler for it and replies "error"
    None

ASSUME ApprovalAssumption ==
    /\ Replies \subseteq {"ok", "error"}
    /\ None \notin Conns \cup Replies /\ None \notin BOOLEAN
    /\ Ids \cap {"new", "loop", "gone"} = {}

VARIABLES
    state,      \* state[a]: where request_approval stands
    decision,   \* decision[a]: the result of its future, or None
    approvals,  \* _pending_approvals: the actions that may be resolved
    target,     \* target[a]: the connection send_command has chosen
    pending,    \* bridge.pending: the commands a reply is expected for
    reply,      \* reply[a]: the result of the command's future, or None
    clients,    \* bridge.clients: a dict keeps the order of insertion
    handler,    \* handler[ws]: where its coroutine stands; a client_id while
                \*   register waits for the old connection with that id
    live        \* the connections that are open

requestVars == <<state, decision, approvals, target, pending, reply>>
clientVars == <<clients, handler, live>>
vars == <<requestVars, clientVars>>

Waiting == {"sending", "bridge", "answer"}
Ended == {"granted", "refused"}

Init ==
    /\ state = [a \in Actions |-> "new"]
    /\ decision = [a \in Actions |-> None]
    /\ approvals = {}
    /\ target = [a \in Actions |-> None]
    /\ pending = {}
    /\ reply = [a \in Actions |-> None]
    /\ clients = <<>>
    /\ handler = [ws \in Conns |-> "new"]
    /\ live = {}
-----------------------------------------------------------------------------
(***************************************************************************)
(* request_approval and send_command.                                      *)
(***************************************************************************)

Goto(a, step) == state' = [state EXCEPT ![a] = step]

\* request_approval returns; both finally clauses have run.
End(a, outcome) ==
    /\ Goto(a, outcome)
    /\ approvals' = approvals \ {a}
    /\ pending' = pending \ {a}
    /\ UNCHANGED <<decision, target, reply, clientVars>>

\* A command goes to the first client of the dictionary, as a rule the one
\* registered first.
FirstClient == clients[1].ws

\* Up to `await target_ws.send(msg)`.
Ask(a) ==
    /\ state[a] = "new"
    /\ clients # <<>>
    /\ Goto(a, "sending")
    /\ approvals' = approvals \cup {a}
    /\ target' = [target EXCEPT ![a] = FirstClient]
    /\ pending' = pending \cup {a}
    /\ UNCHANGED <<decision, reply, clientVars>>

\* "No hay clientes conectados"
AskNobody(a) ==
    /\ state[a] = "new"
    /\ clients = <<>>
    /\ End(a, "refused")

Sent(a) ==
    /\ state[a] = "sending"
    /\ target[a] \in live
    /\ Goto(a, "bridge")
    /\ UNCHANGED <<decision, approvals, target, pending, reply, clientVars>>

\* The connection chosen has been closed since.
SendFails(a) ==
    /\ state[a] = "sending"
    /\ target[a] \notin live
    /\ End(a, "refused")

\* Mutant: any reply of the client lets the request go on.
RepliedAnyhow(a) ==
    /\ state[a] = "bridge" /\ reply[a] # None
    /\ Goto(a, "answer")
    /\ pending' = pending \ {a}
    /\ UNCHANGED <<decision, approvals, target, reply, clientVars>>

\* send_command returns the reply: an error refuses the action.
Replied(a) ==
    /\ state[a] = "bridge" /\ reply[a] # None
    /\ \/ reply[a] = "error" /\ End(a, "refused")
       \/ /\ reply[a] = "ok"
          /\ Goto(a, "answer")
          /\ pending' = pending \ {a}
          /\ UNCHANGED <<decision, approvals, target, reply, clientVars>>

\* 60 s without a reply: send_command returns an error.
BridgeTimeout(a) ==
    /\ state[a] = "bridge"
    /\ End(a, "refused")

\* The future has its result: the user's answer.
Answered(a) ==
    /\ state[a] = "answer" /\ decision[a] # None
    /\ End(a, IF decision[a] THEN "granted" ELSE "refused")

\* Mutant: who does not answer consents.
AnswerTimeoutGrants(a) ==
    /\ state[a] = "answer"
    /\ End(a, "granted")

\* Mutant: nothing limits the wait for the user.
AnswerTimeoutNever(a) == FALSE /\ UNCHANGED vars

\* 120 s without an answer.
AnswerTimeout(a) ==
    /\ state[a] = "answer"
    /\ End(a, "refused")

\* resolve_approval sets the result of a future that is pending.
ResolveApproval(a, approved) ==
    /\ a \in approvals
    /\ decision[a] = None
    /\ decision' = [decision EXCEPT ![a] = approved]
    /\ UNCHANGED <<state, approvals, target, pending, reply, clientVars>>

(***************************************************************************)
(* POST /approvals/{action_id}/resolve, /confirm and /reject: 200 with a   *)
(* pending future, 404 (no step) otherwise.  The id is random, and known   *)
(* to the user only when the command has been sent.                        *)
(***************************************************************************)
Resolve(a) ==
    /\ state[a] # "sending"
    /\ \E approved \in BOOLEAN : ResolveApproval(a, approved)
-----------------------------------------------------------------------------
(***************************************************************************)
(* The connections: handler, register and unregister.                      *)
(***************************************************************************)

\* dict[id] = ws: in the place of the entry with that id, or at the end.
HasId(id) == \E i \in DOMAIN clients : clients[i].id = id

SetClient(id, ws) ==
    LET entry == [id |-> id, ws |-> ws]
    IN  clients' = IF HasId(id)
                   THEN [i \in DOMAIN clients |->
                            IF clients[i].id = id THEN entry ELSE clients[i]]
                   ELSE Append(clients, entry)

\* A valid handshake of a client whose id nobody has.
Register(ws, id) ==
    /\ handler[ws] = "new"
    /\ ~HasId(id)
    /\ SetClient(id, ws)
    /\ handler' = [handler EXCEPT ![ws] = "loop"]
    /\ live' = live \cup {ws}
    /\ UNCHANGED requestVars

\* register closes the old connection with the same id, and awaits it.
CloseOld(ws, id) ==
    /\ handler[ws] = "new"
    /\ HasId(id)
    /\ handler' = [handler EXCEPT ![ws] = id]
    /\ live' = (live \cup {ws}) \
                   {clients[i].ws : i \in {j \in DOMAIN clients :
                                               clients[j].id = id}}
    /\ UNCHANGED <<requestVars, clients>>

\* ... and then puts the new one in its place, whatever happened meanwhile.
Replace(ws) ==
    /\ handler[ws] \in Ids
    /\ SetClient(handler[ws], ws)
    /\ handler' = [handler EXCEPT ![ws] = "loop"]
    /\ UNCHANGED <<requestVars, live>>

\* The connection is lost, the client closes it, or a message that is no JSON
\* ends the handler.
Drop(ws) ==
    /\ ws \in live
    /\ live' = live \ {ws}
    /\ UNCHANGED <<requestVars, clients, handler>>

\* Mutant: the entry is left for the next register to replace.
UnregisteredNot(ws) == clients

\* unregister looks for the connection, not for its client_id, and removes the
\* first entry that has it.
Unregistered(ws) ==
    LET held == {i \in DOMAIN clients : clients[i].ws = ws}
    IN  IF held = {} THEN clients
        ELSE RemoveAt(clients, CHOOSE i \in held : \A j \in held : i <= j)

\* The loop over the messages ends: `finally: await self.unregister(ws)`.
Unregister(ws) ==
    /\ handler[ws] = "loop"
    /\ ws \notin live
    /\ clients' = Unregistered(ws)
    /\ handler' = [handler EXCEPT ![ws] = "gone"]
    /\ UNCHANGED <<requestVars, live>>

\* A message with the id of a command.  The agent keeps its queue when it
\* connects again: the reply may come over any connection, and what came in
\* before a connection was closed is still read.
Receive(ws, a, status) ==
    /\ handler[ws] = "loop"
    /\ state[a] = "bridge" /\ a \in pending
    /\ reply' = [reply EXCEPT ![a] = status]
    /\ pending' = pending \ {a}
    /\ UNCHANGED <<state, decision, approvals, target, clientVars>>
-----------------------------------------------------------------------------
RequestStep(a) ==
    \/ Sent(a) \/ SendFails(a) \/ Replied(a) \/ BridgeTimeout(a)
    \/ Answered(a) \/ AnswerTimeout(a)

HandlerStep(ws) == Replace(ws) \/ Unregister(ws)

Next ==
    \/ \E a \in Actions :
           Ask(a) \/ AskNobody(a) \/ RequestStep(a) \/ Resolve(a)
    \/ \E ws \in Conns, id \in Ids : Register(ws, id) \/ CloseOld(ws, id)
    \/ \E ws \in Conns : HandlerStep(ws) \/ Drop(ws)
    \/ \E ws \in Conns, a \in Actions, status \in Replies :
           Receive(ws, a, status)

Spec == Init /\ [][Next]_vars

\* The event loop resumes whoever may go on, and its timers fire.  Clients
\* need not reply, users need not answer, connections need not last.
FairSpec ==
    /\ Spec
    /\ \A a \in Actions : WF_vars(RequestStep(a))
    /\ \A ws \in Conns : WF_vars(HandlerStep(ws))
-----------------------------------------------------------------------------
\* Every variable has its type, and the dictionaries hold the requests that
\* wait for them.
TypeOK ==
    /\ state \in [Actions -> {"new"} \cup Waiting \cup Ended]
    /\ decision \in [Actions -> BOOLEAN \cup {None}]
    /\ approvals = {a \in Actions : state[a] \in Waiting}
    /\ target \in [Actions -> Conns \cup {None}]
    /\ pending \subseteq {a \in Actions : state[a] \in {"sending", "bridge"}}
    /\ reply \in [Actions -> Replies \cup {None}]
    /\ clients \in Seq([id : Ids, ws : Conns])
    /\ handler \in [Conns -> {"new", "loop", "gone"} \cup Ids]
    /\ live \subseteq Conns

(***************************************************************************)
(* A critical action runs only if the user approved it, on a request the   *)
(* client had acknowledged: no error, lost connection or timeout, on       *)
(* either of the two waits, ever counts as consent.                        *)
(***************************************************************************)
GrantedByUser ==
    \A a \in Actions :
        state[a] = "granted" => decision[a] = TRUE /\ reply[a] = "ok"

(***************************************************************************)
(* A connection whose handler has ended is not in the dictionary, however  *)
(* registrations of one client_id overlap.  A dead entry would be for ever *)
(* the first client, and every approval would be refused.                  *)
(***************************************************************************)
GoneUnregistered ==
    \A i \in DOMAIN clients : handler[clients[i].ws] = "loop"

(***************************************************************************)
(* "Accion confirmada y en ejecucion", the answer of POST /confirm: an     *)
(* action the user approved, and was told so, is not refused.  It does not *)
(* hold: the user may answer while send_command still waits for the        *)
(* client, whose error, or silence for 60 s, then refuses the action.      *)
(***************************************************************************)
ConfirmedRuns ==
    \A a \in Actions : decision[a] = TRUE => state[a] # "refused"

\* Every request for an approval ends, whatever clients and users do.
ApprovalsEnd == \A a \in Actions : (state[a] \in Waiting) ~> (state[a] \in Ended)
=============================================================================
