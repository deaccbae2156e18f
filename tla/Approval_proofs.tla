---------------------------- MODULE Approval_proofs ----------------------------
(***************************************************************************)
(* Theorems about Approval, for any number of actions, connections and     *)
(* client ids.                                                             *)
(*                                                                         *)
(* GrantedByUser is about the last step of a request, and its first wait   *)
(* has to be remembered until then (Acknowledged).  GoneUnregistered needs *)
(* the dictionary to be one (OneEntry): unregister removes one entry, and  *)
(* a second one of the same connection would stay.                         *)
(***************************************************************************)
EXTENDS Approval, SequenceTheorems, TLAPS

\* Past its first wait a request has the client's "ok".
Acknowledged == \A a \in Actions : state[a] = "answer" => reply[a] = "ok"

\* The dictionary has an entry for a client, and a connection is in one.
OneEntry ==
    \A i, j \in DOMAIN clients :
        clients[i].id = clients[j].id \/ clients[i].ws = clients[j].ws => i = j

IInv == TypeOK /\ Acknowledged /\ GrantedByUser /\ OneEntry /\ GoneUnregistered
-----------------------------------------------------------------------------
Entries == [id : Ids, ws : Conns]

\* The entry of a connection that was in none stands for its client.
LEMMA ClientSet ==
    ASSUME NEW id \in Ids, NEW ws \in Conns,
           clients \in Seq(Entries), OneEntry,
           \A i \in DOMAIN clients : clients[i].ws # ws,
           SetClient(id, ws)
    PROVE  /\ clients' \in Seq(Entries) /\ OneEntry'
           /\ \A i \in DOMAIN clients' :
                  \/ clients'[i].ws = ws
                  \/ \E j \in DOMAIN clients : clients'[i].ws = clients[j].ws
<1> DEFINE entry == [id |-> id, ws |-> ws]
<1>1. entry \in Entries /\ entry.id = id /\ entry.ws = ws
      BY DEF Entries
<1>2. DOMAIN clients = 1..Len(clients) /\ Len(clients) \in Nat
      OBVIOUS
<1>3. \A i \in DOMAIN clients : clients[i] \in Entries
      OBVIOUS
<1>4. CASE HasId(id)
  <2>1. clients' = [i \in DOMAIN clients |->
                       IF clients[i].id = id THEN entry ELSE clients[i]]
        BY <1>4 DEF SetClient
  <2> HIDE DEF entry
  <2>2. DOMAIN clients' = 1..Len(clients) /\ clients' \in Seq(Entries)
        BY <1>1, <1>2, <1>3, <2>1
  <2>3. \A i \in DOMAIN clients : clients'[i].id = clients[i].id
        BY <1>1, <2>1
  <2>4. OneEntry'
        BY <1>1, <1>2, <2>1, <2>2, <2>3 DEF OneEntry
  <2> QED BY <1>1, <1>2, <2>1, <2>2, <2>4
<1>5. CASE ~HasId(id)
  <2>1. clients' = Append(clients, entry)
        BY <1>5 DEF SetClient
  <2> HIDE DEF entry
  <2>2. /\ clients' \in Seq(Entries) /\ DOMAIN clients' = 1..(Len(clients) + 1)
        /\ clients'[Len(clients) + 1] = entry
        /\ \A i \in 1..Len(clients) : clients'[i] = clients[i]
        BY <1>1, <1>2, <2>1
  <2>3. \A i \in DOMAIN clients : clients[i].id # id
        BY <1>5 DEF HasId
  <2>4. OneEntry'
        BY <1>1, <1>2, <2>2, <2>3 DEF OneEntry
  <2> QED BY <1>1, <1>2, <2>2, <2>4
<1> QED BY <1>4, <1>5

\* After unregister the connection is in no entry.
LEMMA ClientRemoved ==
    ASSUME NEW ws \in Conns, clients \in Seq(Entries), OneEntry,
           clients' = Unregistered(ws)
    PROVE  /\ clients' \in Seq(Entries) /\ OneEntry'
           /\ \A i \in DOMAIN clients' :
                  /\ clients'[i].ws # ws
                  /\ \E j \in DOMAIN clients : clients'[i] = clients[j]
<1> DEFINE held == {i \in DOMAIN clients : clients[i].ws = ws}
<1>1. DOMAIN clients = 1..Len(clients) /\ Len(clients) \in Nat
      OBVIOUS
<1>2. CASE held = {}
  <2>1. clients' = clients
        BY <1>2 DEF Unregistered
  <2>2. \A i \in DOMAIN clients : clients[i].ws # ws
        BY <1>2
  <2> QED BY <2>1, <2>2 DEF OneEntry
<1>3. CASE held # {}
  <2>1. PICK k \in DOMAIN clients : clients[k].ws = ws
        BY <1>3
  <2>2. held = {k}
        BY <2>1 DEF OneEntry
  <2>3. (CHOOSE i \in held : \A j \in held : i <= j) = k
        BY <1>1, <2>2
  <2>4. clients' = SubSeq(clients, 1, k - 1) \o SubSeq(clients, k + 1, Len(clients))
        BY <1>3, <2>3 DEF Unregistered, RemoveAt
  <2> HIDE DEF held
  <2>5. /\ clients' \in Seq(Entries) /\ DOMAIN clients' = 1..(Len(clients) - 1)
        /\ \A i \in 1..(Len(clients) - 1) :
               clients'[i] = clients[IF i < k THEN i ELSE i + 1]
    <3> DEFINE a == SubSeq(clients, 1, k - 1)
               b == SubSeq(clients, k + 1, Len(clients))
    <3>1. /\ a \in Seq(Entries) /\ Len(a) = k - 1
          /\ \A i \in 1..(k - 1) : a[i] = clients[i]
          BY <1>1, SubSeqProperties
    <3>2. /\ b \in Seq(Entries) /\ Len(b) = Len(clients) - k
          /\ \A i \in 1..(Len(clients) - k) : b[i] = clients[k + i]
          BY <1>1, SubSeqProperties
    <3> HIDE DEF a, b
    <3>3. /\ a \o b \in Seq(Entries) /\ Len(a \o b) = Len(a) + Len(b)
          /\ \A i \in 1..(Len(a) + Len(b)) :
                 (a \o b)[i] = IF i <= Len(a) THEN a[i] ELSE b[i - Len(a)]
          BY <3>1, <3>2, ConcatProperties
    <3>4. clients' = a \o b
          BY <2>4 DEF a, b
    <3>5. k \in 1..Len(clients) /\ Len(a) + Len(b) = Len(clients) - 1
          BY <1>1, <3>1, <3>2
    <3>6. clients' \in Seq(Entries) /\ DOMAIN clients' = 1..(Len(clients) - 1)
          BY <3>3, <3>4, <3>5
    <3>7. ASSUME NEW i \in 1..(Len(clients) - 1)
          PROVE  clients'[i] = clients[IF i < k THEN i ELSE i + 1]
      <4>1. CASE i < k
            BY <1>1, <3>1, <3>3, <3>4, <3>5, <4>1
      <4>2. CASE ~(i < k)
        <5>1. clients'[i] = b[i - (k - 1)] /\ i - (k - 1) \in 1..(Len(clients) - k)
              BY SMTT(30), <1>1, <3>1, <3>3, <3>4, <3>5, <4>2
        <5>2. k + (i - (k - 1)) = i + 1
              BY <1>1, <3>5
        <5> QED BY <3>2, <4>2, <5>1, <5>2
      <4> QED BY <4>1, <4>2
    <3> QED BY <3>6, <3>7
  <2>6. OneEntry'
        BY SMTT(30), <1>1, <2>1, <2>5 DEF OneEntry
  <2>7. \A i \in DOMAIN clients' : /\ clients'[i].ws # ws
                                   /\ \E j \in DOMAIN clients : clients'[i] = clients[j]
        BY <1>1, <2>1, <2>5 DEF OneEntry
  <2> QED BY <2>5, <2>6, <2>7
<1> QED BY <1>2, <1>3
-----------------------------------------------------------------------------
(***************************************************************************)
(* The invariant is inductive.                                             *)
(***************************************************************************)

LEMMA InitIInv == Init => IInv
BY ApprovalAssumption
   DEF Init, IInv, TypeOK, Acknowledged, GrantedByUser, OneEntry,
       GoneUnregistered, Waiting, Ended

\* The return of a request: an action is granted on the user's word only.
LEMMA EndStep ==
    ASSUME IInv, NEW a \in Actions, NEW outcome \in Ended, End(a, outcome),
           outcome = "granted" => state[a] = "answer" /\ decision[a] = TRUE
    PROVE  IInv'
<1> USE DEF IInv, End, Goto, clientVars
<1>1. TypeOK'
  <2>1. state' \in [Actions -> {"new"} \cup Waiting \cup Ended]
        BY DEF TypeOK, Ended
  <2>2. \A b \in Actions : state'[b] = IF b = a THEN outcome ELSE state[b]
        BY DEF TypeOK
  <2>3. outcome \notin Waiting /\ outcome \notin {"sending", "bridge"}
        BY DEF Waiting, Ended
  <2>4. approvals' = {b \in Actions : state'[b] \in Waiting}
        BY <2>2, <2>3 DEF TypeOK
  <2>5. pending' \subseteq {b \in Actions : state'[b] \in {"sending", "bridge"}}
        BY <2>2, <2>3 DEF TypeOK
  <2> QED BY <2>1, <2>4, <2>5 DEF TypeOK
<1>2. Acknowledged' /\ GrantedByUser'
      BY DEF TypeOK, Acknowledged, GrantedByUser, Ended
<1>3. OneEntry' /\ GoneUnregistered'
      BY DEF OneEntry, GoneUnregistered
<1> QED BY <1>1, <1>2, <1>3

LEMMA AskStep ==
    ASSUME IInv, NEW a \in Actions, Ask(a)
    PROVE  IInv'
<1> USE DEF IInv, Ask, Goto, clientVars
<1>1. TypeOK'
  <2>1. FirstClient \in Conns
    <3>1. clients \in Seq(Entries) /\ clients # <<>>
          BY DEF TypeOK, Entries
    <3>2. clients[1] \in Entries
          BY <3>1
    <3> QED BY <3>2 DEF FirstClient, Entries
  <2>2. \A b \in Actions : state'[b] = IF b = a THEN "sending" ELSE state[b]
        BY DEF TypeOK
  <2>3. approvals' = {b \in Actions : state'[b] \in Waiting}
        BY <2>2 DEF TypeOK, Waiting
  <2>4. pending' \subseteq {b \in Actions : state'[b] \in {"sending", "bridge"}}
        BY <2>2 DEF TypeOK
  <2> QED BY <2>1, <2>3, <2>4 DEF TypeOK, Waiting
<1>2. Acknowledged' /\ GrantedByUser'
      BY DEF TypeOK, Acknowledged, GrantedByUser
<1>3. OneEntry' /\ GoneUnregistered'
      BY DEF OneEntry, GoneUnregistered
<1> QED BY <1>1, <1>2, <1>3

\* `send` has returned, or the client has replied "ok".
LEMMA GoOnStep ==
    ASSUME IInv, NEW a \in Actions, NEW step \in {"bridge", "answer"},
           Goto(a, step), state[a] \in Waiting,
           step = "bridge" => pending' = pending,
           step = "answer" => pending' = pending \ {a} /\ reply[a] = "ok",
           UNCHANGED <<decision, approvals, target, reply, clientVars>>
    PROVE  IInv'
<1> USE DEF IInv, Goto, clientVars
<1>1. TypeOK'
  <2>1. \A b \in Actions : state'[b] = IF b = a THEN step ELSE state[b]
        BY DEF TypeOK
  <2>2. approvals' = {b \in Actions : state'[b] \in Waiting}
        BY <2>1 DEF TypeOK, Waiting
  <2>3. pending' \subseteq {b \in Actions : state'[b] \in {"sending", "bridge"}}
        BY <2>1 DEF TypeOK
  <2> QED BY <2>2, <2>3 DEF TypeOK, Waiting
<1>2. Acknowledged' /\ GrantedByUser'
      BY DEF TypeOK, Acknowledged, GrantedByUser
<1>3. OneEntry' /\ GoneUnregistered'
      BY DEF OneEntry, GoneUnregistered
<1> QED BY <1>1, <1>2, <1>3

LEMMA RequestStepKeeps ==
    ASSUME IInv, NEW a \in Actions, RequestStep(a)
    PROVE  IInv'
<1>1. "refused" \in Ended /\ "granted" \in Ended /\ "refused" # "granted"
      BY DEF Ended
<1>2. CASE Sent(a)
      BY <1>2, GoOnStep DEF Sent, Waiting
<1>3. CASE SendFails(a) \/ BridgeTimeout(a) \/ AnswerTimeout(a)
      BY <1>1, <1>3, EndStep DEF SendFails, BridgeTimeout, AnswerTimeout
<1>4. CASE Replied(a)
      BY <1>1, <1>4, EndStep, GoOnStep DEF Replied, Waiting
<1>5. CASE Answered(a)
  <2>1. state[a] = "answer" /\ decision[a] \in BOOLEAN
        BY <1>5 DEF Answered, IInv, TypeOK
  <2>2. CASE decision[a] = TRUE
    <3>1. End(a, "granted")
          BY <1>5, <2>2 DEF Answered
    <3> QED BY <1>1, <2>1, <2>2, <3>1, EndStep
  <2>3. CASE decision[a] = FALSE
    <3>1. End(a, "refused")
          BY <1>5, <2>3 DEF Answered
    <3> QED BY <1>1, <3>1, EndStep
  <2> QED BY <2>1, <2>2, <2>3
<1> QED BY <1>2, <1>3, <1>4, <1>5 DEF RequestStep

LEMMA ResolveStep ==
    ASSUME IInv, NEW a \in Actions, Resolve(a)
    PROVE  IInv'
<1> USE DEF IInv
<1>1. PICK approved \in BOOLEAN : ResolveApproval(a, approved)
      BY DEF Resolve
<1>2. /\ decision[a] = None /\ decision' = [decision EXCEPT ![a] = approved]
      /\ UNCHANGED <<state, approvals, target, pending, reply, clients, handler, live>>
      BY <1>1 DEF ResolveApproval, clientVars
<1>3. TypeOK'
      BY <1>2 DEF TypeOK
<1>4. None # TRUE
      BY ApprovalAssumption
<1>5. GrantedByUser'
  <2> SUFFICES ASSUME NEW b \in Actions, state[b] = "granted"
               PROVE  decision'[b] = TRUE /\ reply[b] = "ok"
      BY <1>2 DEF GrantedByUser
  <2>1. decision[b] = TRUE /\ reply[b] = "ok"
        BY DEF GrantedByUser
  <2>2. b # a
        BY <1>2, <1>4, <2>1
  <2> QED BY <1>2, <2>1, <2>2 DEF TypeOK
<1>6. Acknowledged' /\ OneEntry' /\ GoneUnregistered'
      BY <1>2 DEF Acknowledged, OneEntry, GoneUnregistered
<1> QED BY <1>3, <1>5, <1>6

LEMMA ReceiveStep ==
    ASSUME IInv, NEW ws \in Conns, NEW a \in Actions, NEW status \in Replies,
           Receive(ws, a, status)
    PROVE  IInv'
<1> USE DEF IInv, Receive, clientVars
<1>1. TypeOK'
      BY DEF TypeOK
<1>2. Acknowledged' /\ GrantedByUser'
      BY DEF TypeOK, Acknowledged, GrantedByUser
<1>3. OneEntry' /\ GoneUnregistered'
      BY DEF OneEntry, GoneUnregistered
<1> QED BY <1>1, <1>2, <1>3

\* A connection enters the dictionary when its handler reaches the loop.
LEMMA EnterStep ==
    ASSUME IInv, NEW ws \in Conns, NEW id \in Ids, handler[ws] # "loop",
           SetClient(id, ws), handler' = [handler EXCEPT ![ws] = "loop"],
           live' \subseteq Conns, UNCHANGED requestVars
    PROVE  IInv'
<1> USE DEF IInv, requestVars
<1>1. \A i \in DOMAIN clients : clients[i].ws # ws
      BY DEF GoneUnregistered
<1>2. /\ clients' \in Seq(Entries) /\ OneEntry'
      /\ \A i \in DOMAIN clients' :
             \/ clients'[i].ws = ws
             \/ \E j \in DOMAIN clients : clients'[i].ws = clients[j].ws
      BY <1>1, ClientSet DEF TypeOK, Entries
<1>3. TypeOK'
      BY <1>2 DEF TypeOK, Entries
<1>4. GoneUnregistered'
      BY <1>2 DEF GoneUnregistered, TypeOK, Entries
<1>5. Acknowledged' /\ GrantedByUser'
      BY DEF Acknowledged, GrantedByUser
<1> QED BY <1>2, <1>3, <1>4, <1>5

LEMMA CloseOldStep ==
    ASSUME IInv, NEW ws \in Conns, NEW id \in Ids, CloseOld(ws, id)
    PROVE  IInv'
<1> USE DEF IInv, CloseOld, requestVars
<1>1. TypeOK'
      BY DEF TypeOK
<1>2. GoneUnregistered'
      BY DEF GoneUnregistered, TypeOK
<1>3. Acknowledged' /\ GrantedByUser' /\ OneEntry'
      BY DEF Acknowledged, GrantedByUser, OneEntry
<1> QED BY <1>1, <1>2, <1>3

LEMMA UnregisterStep ==
    ASSUME IInv, NEW ws \in Conns, Unregister(ws)
    PROVE  IInv'
<1> USE DEF IInv, Unregister, requestVars
<1>1. /\ clients' \in Seq(Entries) /\ OneEntry'
      /\ \A i \in DOMAIN clients' :
             /\ clients'[i].ws # ws
             /\ \E j \in DOMAIN clients : clients'[i] = clients[j]
      BY ClientRemoved DEF TypeOK, Entries
<1>2. TypeOK'
      BY <1>1 DEF TypeOK, Entries
<1>3. GoneUnregistered'
      BY <1>1 DEF GoneUnregistered, TypeOK, Entries
<1>4. Acknowledged' /\ GrantedByUser'
      BY DEF Acknowledged, GrantedByUser
<1> QED BY <1>1, <1>2, <1>3, <1>4

LEMMA DropStep ==
    ASSUME IInv, NEW ws \in Conns, Drop(ws)
    PROVE  IInv'
BY DEF Drop, requestVars, IInv, TypeOK, Acknowledged, GrantedByUser, OneEntry,
       GoneUnregistered

LEMMA StutterStep ==
    ASSUME IInv, UNCHANGED vars
    PROVE  IInv'
BY DEF vars, requestVars, clientVars, IInv, TypeOK, Acknowledged,
       GrantedByUser, OneEntry, GoneUnregistered
-----------------------------------------------------------------------------
(***************************************************************************)
(* What approvals and the dictionary of clients keep under every order of  *)
(* replies, answers, timeouts and connections: the inductive invariant.    *)
(***************************************************************************)
THEOREM ApprovalInvariant == Spec => []IInv
<1>1. IInv /\ [Next]_vars => IInv'
  <2> SUFFICES ASSUME IInv, [Next]_vars PROVE IInv'
      OBVIOUS
  <2>1. ASSUME NEW a \in Actions, Ask(a) \/ RequestStep(a) \/ Resolve(a)
        PROVE  IInv'
        BY <2>1, AskStep, RequestStepKeeps, ResolveStep
  <2>2. ASSUME NEW a \in Actions, AskNobody(a)
        PROVE  IInv'
        BY <2>2, EndStep DEF AskNobody, Ended
  <2>3. ASSUME NEW ws \in Conns, NEW id \in Ids, Register(ws, id)
        PROVE  IInv'
        BY <2>3, EnterStep DEF Register, IInv, TypeOK
  <2>4. ASSUME NEW ws \in Conns, NEW id \in Ids, CloseOld(ws, id)
        PROVE  IInv'
        BY <2>4, CloseOldStep
  <2>5. ASSUME NEW ws \in Conns, Replace(ws)
        PROVE  IInv'
        BY <2>5, EnterStep, ApprovalAssumption DEF Replace, IInv, TypeOK
  <2>6. ASSUME NEW ws \in Conns, Unregister(ws) \/ Drop(ws)
        PROVE  IInv'
        BY <2>6, UnregisterStep, DropStep
  <2>7. ASSUME NEW ws \in Conns, NEW a \in Actions, NEW status \in Replies,
               Receive(ws, a, status)
        PROVE  IInv'
        BY <2>7, ReceiveStep
  <2>8. CASE UNCHANGED vars
        BY <2>8, StutterStep
  <2> QED BY <2>1, <2>2, <2>3, <2>4, <2>5, <2>6, <2>7, <2>8 DEF Next, HandlerStep
<1> QED BY <1>1, InitIInv, PTL DEF Spec

\* Only the user's consent, on a request the client acknowledged, grants an
\* action.
THEOREM AlwaysGrantedByUser == Spec => []GrantedByUser
<1>1. IInv => GrantedByUser
      BY DEF IInv
<1> QED BY <1>1, ApprovalInvariant, PTL

\* No connection whose handler has ended is in the dictionary.
THEOREM AlwaysUnregistered == Spec => []GoneUnregistered
<1>1. IInv => GoneUnregistered
      BY DEF IInv
<1> QED BY <1>1, ApprovalInvariant, PTL
=============================================================================
