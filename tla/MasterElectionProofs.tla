------------------------- MODULE MasterElectionProofs -------------------------
(* Proofs about the election, for any hosts and any number of faults. *)
EXTENDS MasterElection, FiniteSetTheorems, SequenceTheorems, TLAPS

\* The messages a client may find in its inbox: a master that is named is a session.
\* Only the session that owns /master is told that it has created it.
Sound == {m \in Message : m.op = "get" /\ m.rc = "ok" => m.owner # NoSession}
IsVictory(m) == m.op = "create" /\ m.rc = "ok"
Others == {m \in Sound : ~IsVictory(m)}

Owns(n) == link[n] = "up" /\ master = SessionOf(n)

InboxesAreSound ==
    /\ inbox \in [Nodes -> Seq(Sound)]
    /\ \A n \in Nodes : Owns(n) \/ inbox[n] \in Seq(Others)

\* The service keeps the session of a connected client, and the flag is cleared before
\* the handle is replaced.
ConnectedIsAlive == \A n \in Nodes : link[n] = "up" => SessionOf(n) \in alive
MasterHasHandle == \A n \in Nodes : kIsMaster[n] => link[n] # "none"

ElectionInv ==
    TypeOK /\ InboxesAreSound /\ ConnectedIsAlive /\ MasterHasHandle /\ OneLiveMaster

-----------------------------------------------------------------------------
(* Messages *)

LEMMA EventIsOther ==
    ASSUME NEW type \in Events
    PROVE  Event(type) \in Others
BY DEF Event, Reply, Others, Sound, Message, Codes, IsVictory, Ops, Events

LEMMA LossIsOther ==
    ASSUME NEW op \in Ops
    PROVE  Loss(op) \in Others
BY DEF Loss, Reply, Others, Sound, Message, Codes, IsVictory, Ops

LEMMA OthersAreSound == Others \subseteq Sound /\ Sound \subseteq Message
BY DEF Others, Sound

\* Sequences of messages that satisfy what S stands for.
LEMMA FunctionIsSeq ==
    ASSUME NEW S, NEW k \in Nat, NEW f \in [1..k -> S]
    PROVE  f \in Seq(S)
OBVIOUS

LEMMA ThreeInARow ==
    ASSUME NEW S, NEW p \in Seq(S), NEW q \in Seq(S), NEW t \in Seq(S)
    PROVE  (p \o q) \o t \in Seq(S)
<1>1. p \o q \in Seq(S)
    BY ConcatProperties
<1> QED
    BY <1>1, ConcatProperties

LEMMA NotifiedAreOthers ==
    ASSUME NEW fired, NEW type \in Events, NEW n \in Nodes
    PROVE  Notify(fired, type)[n] \in Seq(Others)
<1>1. <<Event(type)>> \in Seq(Others) /\ <<>> \in Seq(Others)
    BY EventIsOther, FunctionIsSeq
<1> QED BY <1>1 DEF Notify

LEMMA OthersAreMessages == \A q \in Seq(Others) : q \in Seq(Sound)
BY OthersAreSound, SeqMonotonic

\* The positions of a sequence that satisfy a condition, in order.
LEMMA InOrderIsSeq ==
    ASSUME NEW S, NEW q \in Seq(S), NEW P \in SUBSET DOMAIN q, NEW f \in InOrder(P)
    PROVE  /\ Cardinality(P) \in Nat
           /\ f \in [1..Cardinality(P) -> P]
<1>1. DOMAIN q = 1..Len(q) /\ Len(q) \in Nat
    BY LenProperties
<1>2. IsFiniteSet(P)
    <2>1. IsFiniteSet(1..Len(q))
        BY <1>1, FS_Interval
    <2> QED BY <1>1, <2>1, FS_Subset
<1>3. Cardinality(P) \in Nat
    BY <1>2, FS_CardinalityType
<1> QED BY <1>3 DEF InOrder

-----------------------------------------------------------------------------
(* The service *)

LEMMA AnswerEffects ==
    ASSUME ElectionInv, NEW n \in Nodes, NEW op \in Ops, NEW rc \in Codes \ {"loss"},
           NEW listChanged \in BOOLEAN, Answer(n, op, rc, listChanged),
           op = "create" /\ rc = "ok" => Owns(n)',
           op = "get" /\ rc = "ok" => master # NoSession,
           \A m \in Nodes : Owns(m) => Owns(m)'
    PROVE  /\ InboxesAreSound'
           /\ inbox' \in [Nodes -> Seq(Message)] /\ sent' \in [Nodes -> Seq(Ops)]
           /\ childArmed' \in [Nodes -> BOOLEAN]
<1> USE DEF ElectionInv, Answer
<1>1. Listed \in SUBSET Nodes /\ master \in Session \cup {NoSession}
    BY DEF Listed, TypeOK
<1> DEFINE reply == Reply(op, rc, master, Listed)
           told == Notify({m \in Nodes : listChanged /\ childArmed[m]}, "child")
           answer(m) == IF m = n THEN <<reply>> ELSE <<>>
<1>2. reply \in Sound /\ (reply \in Others \/ Owns(n)')
    BY <1>1 DEF Reply, Sound, Others, Message, IsVictory
<1>3. <<reply>> \in Seq(Sound) /\ (<<reply>> \in Seq(Others) \/ Owns(n)')
    <2> HIDE DEF reply
    <2> QED BY <1>2, FunctionIsSeq
<1>4. ASSUME NEW m \in Nodes
      PROVE  inbox'[m] \in Seq(Sound) /\ (inbox'[m] \in Seq(Others) \/ Owns(m)')
    <2>1. inbox'[m] = (inbox[m] \o answer(m)) \o told[m]
        OBVIOUS
    <2>2. told[m] \in Seq(Others) /\ told[m] \in Seq(Sound)
        <3>1. "child" \in Events
            BY DEF Events
        <3> QED BY <3>1, NotifiedAreOthers, OthersAreMessages
    <2>3. answer(m) \in Seq(Sound) /\ (answer(m) \in Seq(Others) \/ Owns(m)')
        <3> HIDE DEF reply
        <3> QED BY <1>3
    <2>4. inbox[m] \in Seq(Sound) /\ (inbox[m] \in Seq(Others) \/ Owns(m)')
        BY DEF InboxesAreSound
    <2> HIDE DEF told, answer
    <2>5. inbox'[m] \in Seq(Sound)
        BY ONLY <2>1, <2>2, <2>3, <2>4, ThreeInARow
    <2>6. ASSUME ~Owns(m)' PROVE inbox'[m] \in Seq(Others)
        <3>1. inbox[m] \in Seq(Others) /\ answer(m) \in Seq(Others)
            BY <2>3, <2>4, <2>6
        <3> QED BY ONLY <2>1, <2>2, <3>1, ThreeInARow
    <2> QED BY <2>5, <2>6
<1>5. inbox' \in [Nodes -> Seq(Sound)] /\ inbox' \in [Nodes -> Seq(Message)]
    <2>1. \A q \in Seq(Sound) : q \in Seq(Message)
        BY OthersAreSound, SeqMonotonic
    <2>2. inbox' = [m \in Nodes |-> inbox'[m]]
        OBVIOUS
    <2> QED BY <1>4, <2>1, <2>2
<1>6. sent' \in [Nodes -> Seq(Ops)]
    BY HeadTailProperties DEF TypeOK
<1>7. childArmed' \in [Nodes -> BOOLEAN]
    BY DEF TypeOK
<1> QED BY <1>4, <1>5, <1>6, <1>7 DEF InboxesAreSound

LEMMA SessionOfIsSession ==
    ASSUME TypeOK, NEW n \in Nodes
    PROVE  SessionOf(n) \in Session /\ SessionOf(n) # NoSession /\ SessionOf(n).node = n
           /\ \A m \in Nodes : SessionOf(m) = SessionOf(n) => m = n
BY ElectionAssumption DEF TypeOK, SessionOf, Session

\* The service answers a request that changes neither /master nor the list.
LEMMA ServeQuietlyKeeps ==
    ASSUME ElectionInv, NEW n \in Nodes, NEW op \in Ops, NEW rc \in Codes \ {"loss"},
           Answer(n, op, rc, FALSE), UNCHANGED <<master, registered>>,
           nodesDir' \in BOOLEAN, armed' \in [Nodes -> Session \cup {NoSession}],
           op = "create" => rc # "ok", op = "get" /\ rc = "ok" => master # NoSession
    PROVE  ElectionInv'
<1> USE DEF Answer, watches, flags, bounds
<1>1. \A m \in Nodes : (Owns(m)' <=> Owns(m)) /\ SessionOf(m)' = SessionOf(m)
    BY DEF Owns, SessionOf
<1>2. /\ InboxesAreSound' /\ inbox' \in [Nodes -> Seq(Message)]
      /\ sent' \in [Nodes -> Seq(Ops)] /\ childArmed' \in [Nodes -> BOOLEAN]
    BY <1>1, AnswerEffects
<1>3. TypeOK'
    BY <1>2 DEF ElectionInv, TypeOK
<1>4. ConnectedIsAlive' /\ MasterHasHandle' /\ OneLiveMaster'
    BY <1>1 DEF ElectionInv, ConnectedIsAlive, MasterHasHandle, OneLiveMaster
<1> QED BY <1>2, <1>3, <1>4 DEF ElectionInv

\* Whoever creates /master is connected, and nobody who lives has owned it before.
LEMMA ServeCreateKeeps ==
    ASSUME ElectionInv, NEW n \in Nodes, ServeCreate(n)
    PROVE  ElectionInv'
<1>1. CASE master # NoSession
    <2>1. Answer(n, "create", "exists", FALSE) /\ UNCHANGED <<master, registered, nodesDir, armed>>
        BY <1>1 DEF ServeCreate
    <2> QED BY <2>1, ServeQuietlyKeeps DEF Ops, Codes, ElectionInv, TypeOK
<1>2. CASE master = NoSession
    <2>1. /\ Answer(n, "create", "ok", FALSE) /\ master' = SessionOf(n)
          /\ UNCHANGED <<registered, nodesDir, armed>>
        BY <1>2 DEF ServeCreate
    <2> USE <2>1 DEF Answer, watches, flags, bounds
    <2>2. \A m \in Nodes : SessionOf(m)' = SessionOf(m) /\ ~Owns(m)
        BY <1>2, SessionOfIsSession DEF ElectionInv, Owns, SessionOf
    <2>3. Owns(n)'
        BY DEF Owns, SessionOf
    <2>4. /\ InboxesAreSound' /\ inbox' \in [Nodes -> Seq(Message)]
          /\ sent' \in [Nodes -> Seq(Ops)] /\ childArmed' \in [Nodes -> BOOLEAN]
        BY <2>2, <2>3, AnswerEffects DEF Ops, Codes
    <2>5. SessionOf(n) \in alive
        BY DEF ElectionInv, ConnectedIsAlive
    <2>6. TypeOK'
        BY <2>4, <2>5 DEF ElectionInv, TypeOK
    <2>7. ConnectedIsAlive' /\ MasterHasHandle'
        BY <2>2 DEF ElectionInv, ConnectedIsAlive, MasterHasHandle
    <2>8. OneLiveMaster'
        BY <1>2, <2>2, SessionOfIsSession DEF ElectionInv, OneLiveMaster
    <2> QED BY <2>4, <2>6, <2>7, <2>8 DEF ElectionInv
<1> QED BY <1>1, <1>2

LEMMA ServeRegisterKeeps ==
    ASSUME ElectionInv, NEW n \in Nodes, ServeRegister(n)
    PROVE  ElectionInv'
<1>1. CASE ~nodesDir \/ registered[n] # NoSession
    <2>1. \E rc \in {"nonode", "exists"} : Answer(n, "register", rc, FALSE)
        BY <1>1 DEF ServeRegister
    <2>2. UNCHANGED <<master, registered, nodesDir, armed>>
        BY <1>1 DEF ServeRegister
    <2> QED BY <2>1, <2>2, ServeQuietlyKeeps DEF Ops, Codes, ElectionInv, TypeOK
<1>2. CASE nodesDir /\ registered[n] = NoSession
    <2>1. /\ Answer(n, "register", "ok", TRUE)
          /\ registered' = [registered EXCEPT ![n] = SessionOf(n)]
          /\ UNCHANGED <<master, nodesDir, armed>>
        BY <1>2 DEF ServeRegister
    <2> USE <2>1 DEF Answer, watches, flags, bounds
    <2>2. \A m \in Nodes : (Owns(m)' <=> Owns(m)) /\ SessionOf(m)' = SessionOf(m)
        BY DEF Owns, SessionOf
    <2>3. /\ InboxesAreSound' /\ inbox' \in [Nodes -> Seq(Message)]
          /\ sent' \in [Nodes -> Seq(Ops)] /\ childArmed' \in [Nodes -> BOOLEAN]
        BY <2>2, AnswerEffects DEF Ops, Codes
    <2>4. SessionOf(n) \in alive
        BY DEF ElectionInv, ConnectedIsAlive
    <2>5. TypeOK'
        BY <2>3, <2>4 DEF ElectionInv, TypeOK
    <2>6. ConnectedIsAlive' /\ MasterHasHandle' /\ OneLiveMaster'
        BY <2>2 DEF ElectionInv, ConnectedIsAlive, MasterHasHandle, OneLiveMaster
    <2> QED BY <2>3, <2>5, <2>6 DEF ElectionInv
<1> QED BY <1>1, <1>2

LEMMA ServeKeeps ==
    ASSUME ElectionInv, NEW n \in Nodes, Serve(n)
    PROVE  ElectionInv'
<1>1. CASE ServeBootstrap(n) \/ ServeChildren(n)
    <2>1. \E op \in {"bootstrap", "children"}, rc \in {"exists", "ok", "nonode"} :
              Answer(n, op, rc, FALSE)
        BY <1>1 DEF ServeBootstrap, ServeChildren
    <2>2. UNCHANGED <<master, registered, armed>> /\ nodesDir' \in BOOLEAN
        BY <1>1 DEF ServeBootstrap, ServeChildren, ElectionInv, TypeOK
    <2> QED BY <2>1, <2>2, ServeQuietlyKeeps DEF Ops, Codes, ElectionInv, TypeOK
<1>2. CASE ServeGet(n)
    <2>1. \E rc \in {"ok", "nonode"} :
              Answer(n, "get", rc, FALSE) /\ (rc = "ok" => master # NoSession)
        BY <1>2 DEF ServeGet
    <2>2. UNCHANGED <<master, registered, nodesDir>>
        BY <1>2 DEF ServeGet
    <2>3. armed' \in [Nodes -> Session \cup {NoSession}]
        BY <1>2 DEF ServeGet, ElectionInv, TypeOK
    <2> QED BY <2>1, <2>2, <2>3, ServeQuietlyKeeps DEF Ops, Codes, ElectionInv, TypeOK
<1> QED BY <1>1, <1>2, ServeCreateKeeps, ServeRegisterKeeps DEF Serve

\* The session of a connected client does not expire.
LEMMA ExpireKeeps ==
    ASSUME ElectionInv, NEW s \in alive, Expire(s)
    PROVE  ElectionInv'
<1> USE DEF Expire, watches, flags, bounds
<1>1. s \in Session
    BY DEF ElectionInv, TypeOK
<1>2. \A m \in Nodes : SessionOf(m)' = SessionOf(m) /\ (link[m] = "up" => SessionOf(m) # s)
    BY DEF SessionOf
<1>3. \A m \in Nodes : Owns(m) => Owns(m)'
    BY <1>2 DEF Owns
<1> DEFINE gone == {n \in Nodes : master = s /\ armed[n] # NoSession}
           fired == {n \in Nodes : registered' # registered /\ childArmed[n]}
<1>4. ASSUME NEW m \in Nodes
      PROVE  inbox'[m] \in Seq(Sound) /\ (Owns(m) \/ inbox'[m] \in Seq(Others))
    <2>1. inbox'[m] = (inbox[m] \o Notify(gone, "deleted")[m]) \o Notify(fired, "child")[m]
        OBVIOUS
    <2>2. /\ Notify(gone, "deleted")[m] \in Seq(Others) /\ Notify(fired, "child")[m] \in Seq(Others)
          /\ Notify(gone, "deleted")[m] \in Seq(Sound) /\ Notify(fired, "child")[m] \in Seq(Sound)
        <3>1. {"deleted", "child"} \subseteq Events
            BY DEF Events
        <3> QED BY <3>1, NotifiedAreOthers, OthersAreMessages
    <2>3. inbox[m] \in Seq(Sound)
        BY DEF ElectionInv, InboxesAreSound
    <2> HIDE DEF gone, fired
    <2>4. inbox'[m] \in Seq(Sound)
        BY ONLY <2>1, <2>2, <2>3, ThreeInARow
    <2>5. ASSUME ~Owns(m) PROVE inbox'[m] \in Seq(Others)
        <3>1. inbox[m] \in Seq(Others)
            BY <2>5 DEF ElectionInv, InboxesAreSound
        <3> QED BY ONLY <2>1, <2>2, <3>1, ThreeInARow
    <2> QED BY <2>4, <2>5
<1>5. inbox' \in [Nodes -> Seq(Sound)] /\ inbox' \in [Nodes -> Seq(Message)]
    <2>1. \A q \in Seq(Sound) : q \in Seq(Message)
        BY OthersAreSound, SeqMonotonic
    <2>2. inbox' = [m \in Nodes |-> inbox'[m]]
        OBVIOUS
    <2> QED BY <1>4, <2>1, <2>2
<1>6. InboxesAreSound'
    BY <1>3, <1>4, <1>5 DEF InboxesAreSound
<1>7. TypeOK'
    BY <1>1, <1>5 DEF ElectionInv, TypeOK, service
<1>8. ConnectedIsAlive' /\ MasterHasHandle'
    BY <1>2 DEF ElectionInv, ConnectedIsAlive, MasterHasHandle
<1>9. OneLiveMaster'
    BY <1>2 DEF ElectionInv, OneLiveMaster
<1> QED BY <1>6, <1>7, <1>8, <1>9 DEF ElectionInv
-----------------------------------------------------------------------------
(* Connections and processes *)

\* What is left to show of a step that gives one node another inbox.
LEMMA OneInboxIsSound ==
    ASSUME ElectionInv, NEW n \in Nodes, NEW q \in Seq(Others),
           inbox' = [inbox EXCEPT ![n] = q],
           \A m \in Nodes \ {n} : Owns(m) => Owns(m)'
    PROVE  InboxesAreSound' /\ inbox' \in [Nodes -> Seq(Message)]
<1>1. q \in Seq(Sound) /\ \A p \in Seq(Sound) : p \in Seq(Message)
    BY OthersAreMessages, OthersAreSound, SeqMonotonic
<1>2. inbox' \in [Nodes -> Seq(Sound)] /\ inbox' \in [Nodes -> Seq(Message)]
    BY <1>1 DEF ElectionInv, InboxesAreSound
<1>3. ASSUME NEW m \in Nodes PROVE Owns(m)' \/ inbox'[m] \in Seq(Others)
    <2>1. CASE m = n
        BY <2>1 DEF ElectionInv, InboxesAreSound
    <2>2. CASE m # n
        <3>1. inbox'[m] = inbox[m] /\ (Owns(m) \/ inbox[m] \in Seq(Others))
            BY <2>2 DEF ElectionInv, InboxesAreSound
        <3> QED BY <2>2, <3>1
    <2> QED BY <2>1, <2>2
<1> QED BY <1>2, <1>3 DEF InboxesAreSound

\* A node whose connection is down, or that has none, does not own /master in this
\* sense: its inbox may be added to.
LEMMA UnconnectedInbox ==
    ASSUME ElectionInv, NEW n \in Nodes, link[n] # "up"
    PROVE  inbox[n] \in Seq(Others)
BY DEF ElectionInv, InboxesAreSound, Owns

\* A new session is nobody's master, and its node has cleared the flag.
LEMMA ConnectKeeps ==
    ASSUME ElectionInv, NEW n \in Nodes, Connect(n)
    PROVE  ElectionInv'
<1> USE DEF Connect, watches, flags, arms
<1>1. inbox[n] \in Seq(Others) /\ Event("connected") \in Others
    BY UnconnectedInbox, EventIsOther DEF Events
<1>2. Append(inbox[n], Event("connected")) \in Seq(Others)
    BY <1>1, AppendProperties
<1>3. \A m \in Nodes \ {n} : SessionOf(m)' = SessionOf(m) /\ link'[m] = link[m]
    BY DEF SessionOf, ElectionInv, TypeOK
<1>4. SessionOf(n)' = [node |-> n, number |-> number[n] + 1] /\ SessionOf(n)' \in Session
    BY DEF SessionOf, Session, ElectionInv, TypeOK
<1>5. InboxesAreSound' /\ inbox' \in [Nodes -> Seq(Message)]
    <2>1. \A m \in Nodes \ {n} : Owns(m) => Owns(m)'
        BY <1>3 DEF Owns
    <2>2. inbox' = [inbox EXCEPT ![n] = Append(inbox[n], Event("connected"))]
        OBVIOUS
    <2> QED BY <1>2, <2>1, <2>2, OneInboxIsSound
<1>6. TypeOK'
    BY <1>4, <1>5 DEF ElectionInv, TypeOK, SessionOf
<1>7. ConnectedIsAlive'
    BY <1>3, <1>4 DEF ElectionInv, ConnectedIsAlive
<1>8. MasterHasHandle' /\ ~kIsMaster[n]
    BY <1>3 DEF ElectionInv, MasterHasHandle, TypeOK
<1>9. OneLiveMaster'
    <2>1. ASSUME NEW m \in Nodes, kIsMaster'[m], SessionOf(m)' \in alive'
          PROVE  master' = SessionOf(m)'
        <3>1. m # n /\ SessionOf(m)' = SessionOf(m) /\ kIsMaster[m]
            BY <1>3, <1>8, <2>1
        <3>2. SessionOf(m) \in alive
            BY <1>4, <2>1, <3>1, SessionOfIsSession DEF ElectionInv
        <3> QED BY <3>1, <3>2 DEF ElectionInv, OneLiveMaster
    <2> QED BY <2>1 DEF OneLiveMaster
<1> QED BY <1>5, <1>6, <1>7, <1>8, <1>9 DEF ElectionInv

LEMMA AssignHandleKeeps ==
    ASSUME ElectionInv, NEW n \in Nodes, AssignHandle(n)
    PROVE  ElectionInv'
<1> USE DEF AssignHandle, service, arms, watches, bounds
<1>1. \A m \in Nodes : SessionOf(m)' = SessionOf(m) /\ (Owns(m)' <=> Owns(m))
    BY DEF SessionOf, Owns
<1>2. TypeOK'
    BY DEF ElectionInv, TypeOK
<1>3. InboxesAreSound'
    BY <1>1 DEF ElectionInv, InboxesAreSound
<1> QED BY <1>1, <1>2, <1>3 DEF ElectionInv, ConnectedIsAlive, MasterHasHandle, OneLiveMaster

\* What a broken connection leaves in the inbox: nothing that the service has sent.
LEMMA DisconnectKeeps ==
    ASSUME ElectionInv, NEW n \in Nodes, Disconnect(n)
    PROVE  ElectionInv'
<1> USE DEF Disconnect, service, watches, flags
<1>1. inbox[n] \in Seq(Sound) /\ sent[n] \in Seq(Ops)
    BY DEF ElectionInv, InboxesAreSound, TypeOK
<1> DEFINE locals == {i \in DOMAIN inbox[n] : IsLocal(inbox[n][i])}
           answers == {i \in DOMAIN inbox[n] : IsAnswer(inbox[n][i])}
<1>2. PICK kept \in InOrder(locals), unanswered \in InOrder(answers) :
          inbox' = [inbox EXCEPT ![n] =
                       Append([i \in DOMAIN kept |-> inbox[n][kept[i]]], Event("connecting"))
                       \o [i \in DOMAIN unanswered |-> Loss(inbox[n][unanswered[i]].op)]
                       \o [i \in DOMAIN sent[n] |-> Loss(sent[n][i])]]
    OBVIOUS
<1> DEFINE local == [i \in DOMAIN kept |-> inbox[n][kept[i]]]
           lost == [i \in DOMAIN unanswered |-> Loss(inbox[n][unanswered[i]].op)]
           unserved == [i \in DOMAIN sent[n] |-> Loss(sent[n][i])]
<1>3. local \in Seq(Others)
    <2>1. \A i \in locals : inbox[n][i] \in Others
        <3>1. \A i \in DOMAIN inbox[n] : inbox[n][i] \in Sound
            BY <1>1, ElementOfSeq, LenProperties
        <3> QED BY <3>1 DEF IsLocal, Others, IsVictory
    <2>2. Cardinality(locals) \in Nat /\ kept \in [1..Cardinality(locals) -> locals]
        BY <1>1, InOrderIsSeq
    <2>3. local \in [1..Cardinality(locals) -> Others]
        BY <2>1, <2>2
    <2> HIDE DEF local, locals
    <2> QED BY <2>2, <2>3, FunctionIsSeq
<1>4. lost \in Seq(Others)
    <2>1. \A i \in answers : Loss(inbox[n][i].op) \in Others
        BY LossIsOther DEF IsAnswer
    <2>2. Cardinality(answers) \in Nat /\ unanswered \in [1..Cardinality(answers) -> answers]
        BY <1>1, InOrderIsSeq
    <2>3. lost \in [1..Cardinality(answers) -> Others]
        BY <2>1, <2>2
    <2> HIDE DEF lost, answers
    <2> QED BY <2>2, <2>3, FunctionIsSeq
<1>5. unserved \in Seq(Others)
    <2>1. DOMAIN sent[n] = 1..Len(sent[n]) /\ Len(sent[n]) \in Nat
        BY <1>1, LenProperties
    <2>2. \A i \in DOMAIN sent[n] : Loss(sent[n][i]) \in Others
        BY <1>1, <2>1, ElementOfSeq, LossIsOther
    <2>3. unserved \in [1..Len(sent[n]) -> Others]
        BY <2>1, <2>2
    <2> HIDE DEF unserved
    <2> QED BY <2>1, <2>3, FunctionIsSeq
<1>6. Append(local, Event("connecting")) \o lost \o unserved \in Seq(Others)
    <2>1. Event("connecting") \in Others
        BY EventIsOther DEF Events
    <2> HIDE DEF local, lost, unserved
    <2>2. Append(local, Event("connecting")) \in Seq(Others)
        BY <1>3, <2>1, AppendProperties
    <2>3. Append(local, Event("connecting")) \o lost \in Seq(Others)
        BY <1>4, <2>2, ConcatProperties
    <2> QED BY <1>5, <2>3, ConcatProperties
<1>7. \A m \in Nodes \ {n} : link'[m] = link[m]
    BY DEF ElectionInv, TypeOK
<1>8. \A m \in Nodes : SessionOf(m)' = SessionOf(m)
    BY DEF SessionOf
<1>9. InboxesAreSound' /\ inbox' \in [Nodes -> Seq(Message)]
    <2>1. \A m \in Nodes \ {n} : Owns(m) => Owns(m)'
        BY <1>7, <1>8 DEF Owns
    <2>2. inbox' = [inbox EXCEPT ![n] = Append(local, Event("connecting")) \o lost \o unserved]
        BY <1>2
    <2> HIDE DEF local, lost, unserved
    <2> QED BY <1>6, <2>1, <2>2, OneInboxIsSound
<1>10. TypeOK'
    <2>1. sent' \in [Nodes -> Seq(Ops)]
        BY EmptySeq DEF ElectionInv, TypeOK
    <2>2. link' \in [Nodes -> {"none", "up", "down", "expired"}]
        BY DEF ElectionInv, TypeOK
    <2>3. /\ armed' \in [Nodes -> Session \cup {NoSession}]
          /\ childArmed' \in [Nodes -> BOOLEAN]
        BY DEF ElectionInv, TypeOK
    <2>4. UNCHANGED <<service, up, number, watches, flags, crashes, races>> /\ disconnects' \in Nat
        BY DEF ElectionInv, TypeOK
    <2> HIDE DEF Disconnect
    <2>5. /\ alive' \subseteq Session /\ master' \in alive' \cup {NoSession}
          /\ registered' \in [Nodes -> alive' \cup {NoSession}] /\ nodesDir' \in BOOLEAN
          /\ up' \in [Nodes -> BOOLEAN] /\ number' \in [Nodes -> Nat]
          /\ disconnects' \in Nat /\ crashes' \in Nat /\ races' \in Nat
        BY ONLY ElectionInv, <2>4 DEF ElectionInv, TypeOK
    <2>6. /\ watcher' \in [Nodes -> Session \cup {NoSession}]
          /\ childWatcher' \in [Nodes -> BOOLEAN]
          /\ kZh' \in [Nodes -> BOOLEAN] /\ kExpired' \in [Nodes -> BOOLEAN]
          /\ kIsMaster' \in [Nodes -> BOOLEAN]
          /\ kMasterNode' \in [Nodes -> Nodes \cup {NotSet}]
          /\ kNodes' \in [Nodes -> {NotSet} \cup SUBSET Nodes]
        BY ONLY ElectionInv, <2>4 DEF ElectionInv, TypeOK
    <2> QED BY ONLY <1>9, <2>1, <2>2, <2>3, <2>5, <2>6 DEF TypeOK
<1>11. ConnectedIsAlive' /\ MasterHasHandle' /\ OneLiveMaster'
    <2>1. UNCHANGED <<alive, master, kIsMaster>> /\ link[n] = "up" /\ link'[n] = "down"
        <3>1. DOMAIN link = Nodes
            BY DEF ElectionInv, TypeOK
        <3> QED BY ONLY Disconnect(n), <3>1, n \in Nodes
    <2>2. ConnectedIsAlive /\ MasterHasHandle /\ OneLiveMaster
        BY DEF ElectionInv
    <2>3. \A m \in Nodes : link'[m] = link[m] \/ (link[m] = "up" /\ link'[m] = "down")
        BY ONLY <1>7, <2>1
    <2>4. ConnectedIsAlive'
        BY ONLY <1>8, <2>1, <2>2, <2>3 DEF ConnectedIsAlive
    <2>5. MasterHasHandle'
        BY ONLY <2>1, <2>2, <2>3 DEF MasterHasHandle
    <2>6. OneLiveMaster'
        BY ONLY <1>8, <2>1, <2>2 DEF OneLiveMaster
    <2> QED BY <2>4, <2>5, <2>6
<1> QED BY <1>9, <1>10, <1>11 DEF ElectionInv

\* A client that reconnects before its session has expired goes on with it.
LEMMA ReconnectKeeps ==
    ASSUME ElectionInv, NEW n \in Nodes, Reconnect(n)
    PROVE  ElectionInv'
<1> USE DEF Reconnect, service, watches, flags, bounds
<1> DEFINE deleted == watcher[n] # NoSession /\ master = NoSession
           changed == watcher[n] # NoSession /\ master \notin {NoSession, watcher[n]}
           child == childWatcher[n] /\ kNodes[n] # Listed
           one == IF deleted THEN <<Event("deleted")>> ELSE <<>>
           two == IF changed THEN <<Event("changed")>> ELSE <<>>
           three == IF child THEN <<Event("child")>> ELSE <<>>
           before == Append(inbox[n], Event("connected"))
<1>1. inbox' = [inbox EXCEPT ![n] = before \o ((one \o two) \o three)]
    OBVIOUS
<1>2. one \in Seq(Others) /\ two \in Seq(Others) /\ three \in Seq(Others)
    <2>1. {"deleted", "changed", "child"} \subseteq Events
        BY DEF Events
    <2>2. <<Event("deleted")>> \in Seq(Others) /\ <<Event("changed")>> \in Seq(Others)
          /\ <<Event("child")>> \in Seq(Others) /\ <<>> \in Seq(Others)
        BY <2>1, EventIsOther, FunctionIsSeq
    <2> QED BY <2>2
<1>3. before \in Seq(Others)
    <2>1. inbox[n] \in Seq(Others) /\ Event("connected") \in Others
        BY UnconnectedInbox, EventIsOther DEF Events
    <2> QED BY <2>1, AppendProperties
<1>4. \A m \in Nodes : SessionOf(m)' = SessionOf(m)
    BY DEF SessionOf
<1>5. \A m \in Nodes \ {n} : link'[m] = link[m]
    BY DEF ElectionInv, TypeOK
<1>6. InboxesAreSound' /\ inbox' \in [Nodes -> Seq(Message)]
    <2>1. \A m \in Nodes \ {n} : Owns(m) => Owns(m)'
        BY <1>4, <1>5 DEF Owns
    <2> HIDE DEF one, two, three, before
    <2>2. one \o two \in Seq(Others)
        BY <1>2, ConcatProperties
    <2>3. (one \o two) \o three \in Seq(Others)
        BY <1>2, <2>2, ConcatProperties
    <2>4. before \o ((one \o two) \o three) \in Seq(Others)
        BY <1>3, <2>3, ConcatProperties
    <2> QED BY <1>1, <2>1, <2>4, OneInboxIsSound
<1>7. TypeOK'
    <2>1. /\ armed' \in [Nodes -> Session \cup {NoSession}]
          /\ childArmed' \in [Nodes -> BOOLEAN]
          /\ link' \in [Nodes -> {"none", "up", "down", "expired"}]
        BY DEF ElectionInv, TypeOK
    <2> QED BY <1>6, <2>1 DEF ElectionInv, TypeOK
<1>8. ConnectedIsAlive' /\ MasterHasHandle' /\ OneLiveMaster'
    BY <1>4, <1>5 DEF ElectionInv, TypeOK, ConnectedIsAlive, MasterHasHandle, OneLiveMaster
<1> QED BY <1>6, <1>7, <1>8 DEF ElectionInv

LEMMA LearnExpiredKeeps ==
    ASSUME ElectionInv, NEW n \in Nodes, LearnExpired(n)
    PROVE  ElectionInv'
<1> USE DEF LearnExpired, service, arms, watches, flags, bounds
<1>1. Append(inbox[n], Event("expired")) \in Seq(Others)
    <2>1. inbox[n] \in Seq(Others) /\ Event("expired") \in Others
        BY UnconnectedInbox, EventIsOther DEF Events
    <2> QED BY <2>1, AppendProperties
<1>2. \A m \in Nodes : SessionOf(m)' = SessionOf(m)
    BY DEF SessionOf
<1>3. \A m \in Nodes \ {n} : link'[m] = link[m]
    BY DEF ElectionInv, TypeOK
<1>4. InboxesAreSound' /\ inbox' \in [Nodes -> Seq(Message)]
    <2>1. \A m \in Nodes \ {n} : Owns(m) => Owns(m)'
        BY <1>2, <1>3 DEF Owns
    <2>2. inbox' = [inbox EXCEPT ![n] = Append(inbox[n], Event("expired"))]
        OBVIOUS
    <2> QED BY <1>1, <2>1, <2>2, OneInboxIsSound
<1>5. TypeOK'
    BY <1>4 DEF ElectionInv, TypeOK
<1>6. ConnectedIsAlive' /\ MasterHasHandle' /\ OneLiveMaster'
    BY <1>2, <1>3 DEF ElectionInv, TypeOK, ConnectedIsAlive, MasterHasHandle, OneLiveMaster
<1> QED BY <1>4, <1>5, <1>6 DEF ElectionInv

LEMMA StartKeeps ==
    ASSUME ElectionInv, NEW n \in Nodes, Start(n)
    PROVE  ElectionInv'
<1> USE DEF Start, service, arms, watches, bounds
<1>1. \A m \in Nodes : SessionOf(m)' = SessionOf(m) /\ (Owns(m)' <=> Owns(m))
    BY DEF SessionOf, Owns
<1>2. TypeOK'
    <2>1. <<"bootstrap", "create">> \in Seq(Ops)
        BY DEF Ops
    <2>2. sent' \in [Nodes -> Seq(Ops)]
        BY <2>1 DEF ElectionInv, TypeOK
    <2> QED BY <2>2 DEF ElectionInv, TypeOK
<1>3. InboxesAreSound'
    BY <1>1 DEF ElectionInv, InboxesAreSound
<1> QED BY <1>1, <1>2, <1>3 DEF ElectionInv, ConnectedIsAlive, MasterHasHandle, OneLiveMaster

\* A process that ends loses what it knew.  Its session lives on.
LEMMA WithoutHandleKeeps ==
    ASSUME ElectionInv, NEW n \in Nodes, UNCHANGED <<service, number>>,
           inbox' = [inbox EXCEPT ![n] = <<>>], link' = [link EXCEPT ![n] = "none"],
           kIsMaster' = [kIsMaster EXCEPT ![n] = FALSE], TypeOK'
    PROVE  ElectionInv'
<1>1. \A m \in Nodes : SessionOf(m)' = SessionOf(m)
    BY DEF SessionOf
<1>2. \A m \in Nodes \ {n} : link'[m] = link[m] /\ kIsMaster'[m] = kIsMaster[m]
    BY DEF ElectionInv, TypeOK
<1>3. InboxesAreSound'
    <2>1. \A m \in Nodes \ {n} : Owns(m) => Owns(m)'
        BY <1>1, <1>2 DEF Owns, service
    <2> QED BY <2>1, EmptySeq, OneInboxIsSound
<1>4. link'[n] = "none" /\ ~kIsMaster'[n]
    BY DEF ElectionInv, TypeOK
<1>5. ConnectedIsAlive' /\ MasterHasHandle' /\ OneLiveMaster'
    BY <1>1, <1>2, <1>4
       DEF ElectionInv, TypeOK, service, ConnectedIsAlive, MasterHasHandle, OneLiveMaster
<1> QED BY <1>3, <1>5 DEF ElectionInv

LEMMA CrashKeeps ==
    ASSUME ElectionInv, NEW n \in Nodes, Crash(n)
    PROVE  ElectionInv'
<1>1. TypeOK'
    <2>1. \A S : <<>> \in Seq(S)
        BY EmptySeq
    <2> QED BY <2>1 DEF ElectionInv, TypeOK, Crash, service
<1> QED BY <1>1, WithoutHandleKeeps DEF Crash

-----------------------------------------------------------------------------
(* The callbacks *)

LEMMA SessionExpiredKeeps ==
    ASSUME ElectionInv, NEW n \in Nodes, SessionExpired(n)
    PROVE  ElectionInv'
<1>1. TypeOK'
    <2>1. \A S : <<>> \in Seq(S)
        BY EmptySeq
    <2> QED BY <2>1 DEF ElectionInv, TypeOK, SessionExpired, Closed, service, arms, bounds
<1> QED BY <1>1, WithoutHandleKeeps DEF SessionExpired, Closed

LEMMA AskIsTyped ==
    ASSUME TypeOK, NEW n \in Nodes, NEW ops \in Seq(Ops), Ask(n, ops)
    PROVE  sent' \in [Nodes -> Seq(Ops)]
<1>1. sent[n] \o (IF kZh[n] THEN ops ELSE <<>>) \in Seq(Ops)
    BY EmptySeq, ConcatProperties DEF TypeOK
<1> QED BY <1>1 DEF Ask, TypeOK

LEMMA RequestsAreTyped ==
    /\ <<>> \in Seq(Ops) /\ <<"create", "register">> \in Seq(Ops)
    /\ <<"bootstrap">> \in Seq(Ops) /\ <<"create">> \in Seq(Ops) /\ <<"get">> \in Seq(Ops)
    /\ <<"register">> \in Seq(Ops) /\ <<"children">> \in Seq(Ops)
BY DEF Ops

\* The message a callback is given: the answer that a node has become the master
\* finds it connected and the owner of /master.
LEMMA HandleEffects ==
    ASSUME ElectionInv, NEW n \in Nodes, NEW op, Handle(n, op), UNCHANGED link
    PROVE  /\ InboxesAreSound' /\ inbox' \in [Nodes -> Seq(Message)]
           /\ Head(inbox[n]) \in Sound
           /\ op = "create" /\ Code(n) = "ok" => Owns(n)
<1> USE DEF Handle, service, arms, bounds
<1>1. inbox[n] \in Seq(Sound) /\ inbox[n] # <<>>
    BY DEF ElectionInv, InboxesAreSound
<1>2. Head(inbox[n]) \in Sound /\ Tail(inbox[n]) \in Seq(Sound)
    BY <1>1, HeadTailProperties
<1>3. inbox[n] \in Seq(Others) => Head(inbox[n]) \in Others /\ Tail(inbox[n]) \in Seq(Others)
    BY <1>1, HeadTailProperties
<1>4. inbox' \in [Nodes -> Seq(Sound)] /\ inbox' \in [Nodes -> Seq(Message)]
    <2>1. Tail(inbox[n]) \in Seq(Message)
        BY <1>2, OthersAreSound, SeqMonotonic
    <2> QED BY <1>2, <2>1 DEF ElectionInv, InboxesAreSound, TypeOK
<1>5. \A m \in Nodes : SessionOf(m)' = SessionOf(m)
    BY DEF SessionOf
<1>6. ASSUME NEW m \in Nodes PROVE Owns(m)' \/ inbox'[m] \in Seq(Others)
    <2>1. Owns(m)' <=> Owns(m)
        BY <1>5 DEF Owns
    <2>2. Owns(m) \/ inbox[m] \in Seq(Others)
        BY DEF ElectionInv, InboxesAreSound
    <2>3. inbox[m] \in Seq(Others) => inbox'[m] \in Seq(Others)
        BY <1>3 DEF ElectionInv, InboxesAreSound
    <2> QED BY <2>1, <2>2, <2>3
<1>7. op = "create" /\ Code(n) = "ok" => Owns(n)
    <2> SUFFICES ASSUME op = "create", Code(n) = "ok" PROVE Owns(n)
        OBVIOUS
    <2>1. Head(inbox[n]) \notin Others
        BY DEF Code, Others, IsVictory
    <2> QED BY <1>3, <2>1 DEF ElectionInv, InboxesAreSound
<1> QED BY <1>2, <1>4, <1>6, <1>7 DEF InboxesAreSound

\* A callback that leaves the flag alone.
LEMMA CallbackKeeps ==
    ASSUME ElectionInv, NEW n \in Nodes, NEW op, Handle(n, op),
           UNCHANGED <<link, kIsMaster>>, TypeOK'
    PROVE  ElectionInv'
<1>1. InboxesAreSound'
    BY HandleEffects
<1>2. \A m \in Nodes : SessionOf(m)' = SessionOf(m)
    BY DEF SessionOf, Handle
<1> QED BY <1>1, <1>2
        DEF ElectionInv, Handle, service, ConnectedIsAlive, MasterHasHandle, OneLiveMaster

LEMMA TryBecomeMasterKeeps ==
    ASSUME ElectionInv, NEW n \in Nodes, TryBecomeMasterCompletion(n)
    PROVE  ElectionInv'
<1> USE DEF TryBecomeMasterCompletion, SetMasterNode, watches
<1>1. Handle(n, "create") /\ UNCHANGED link
    OBVIOUS
<1>2. InboxesAreSound' /\ inbox' \in [Nodes -> Seq(Message)]
    BY <1>1, HandleEffects
<1>3. TypeOK'
    <2>1. sent' \in [Nodes -> Seq(Ops)]
        BY AskIsTyped, RequestsAreTyped DEF ElectionInv, TypeOK
    <2>2. kIsMaster' \in [Nodes -> BOOLEAN] /\ kMasterNode' \in [Nodes -> Nodes \cup {NotSet}]
        <3>1. /\ kIsMaster \in [Nodes -> BOOLEAN]
              /\ kMasterNode \in [Nodes -> Nodes \cup {NotSet}]
            BY DEF ElectionInv, TypeOK
        <3>2. \/ UNCHANGED <<kIsMaster, kMasterNode>>
              \/ /\ kIsMaster' = [kIsMaster EXCEPT ![n] = TRUE]
                 /\ kMasterNode' = [kMasterNode EXCEPT ![n] = n]
            OBVIOUS
        <3> HIDE DEF TryBecomeMasterCompletion
        <3> QED BY <3>1, <3>2
    <2>3. UNCHANGED <<service, arms, up, number, link, watches, kZh, kExpired, kNodes, bounds>>
        BY <1>1 DEF Handle
    <2>4. TypeOK
        BY DEF ElectionInv
    <2> HIDE DEF TryBecomeMasterCompletion, SetMasterNode
    <2> QED BY <1>2, <2>1, <2>2, <2>3, <2>4 DEF TypeOK, service, arms, bounds
<1>4. CASE UNCHANGED kIsMaster
    BY <1>1, <1>3, <1>4, CallbackKeeps
<1>5. CASE Code(n) = "ok" /\ kIsMaster' = [kIsMaster EXCEPT ![n] = TRUE]
    <2>1. Owns(n)
        BY <1>1, <1>5, HandleEffects
    <2>2. UNCHANGED <<alive, master>> /\ \A m \in Nodes : SessionOf(m)' = SessionOf(m)
        BY <1>1 DEF SessionOf, Handle, service
    <2>3. \A m \in Nodes \ {n} : kIsMaster'[m] = kIsMaster[m]
        BY <1>5 DEF ElectionInv, TypeOK
    <2>4. ConnectedIsAlive' /\ MasterHasHandle' /\ OneLiveMaster'
        BY <2>1, <2>2, <2>3
           DEF ElectionInv, Owns, ConnectedIsAlive, MasterHasHandle, OneLiveMaster
    <2> QED BY <1>2, <1>3, <2>4 DEF ElectionInv
<1> QED BY <1>4, <1>5

LEMMA CallbacksAreTyped ==
    ASSUME ElectionInv, NEW n \in Nodes, Callback(n), ~SessionExpired(n)
    PROVE  /\ TypeOK'
           /\ \/ TryBecomeMasterCompletion(n)
              \/ UNCHANGED <<link, kIsMaster>> /\ \E op \in Ops \cup Events : Handle(n, op)
<1> USE DEF watches, flags, Ops, Events
<1>1. PICK op \in Ops \cup Events : Handle(n, op) /\ UNCHANGED link
    BY DEF Callback, Connected, Disconnected, CheckMasterCompletion, CheckMasterWatch,
           TryBecomeMasterCompletion, BootstrapServiceDiscoveryCompletion,
           RegisterNodeCompletion, DiscoverNodesCompletion, DiscoverNodesWatch
<1>2. inbox' \in [Nodes -> Seq(Message)] /\ Head(inbox[n]) \in Sound
    BY <1>1, HandleEffects
<1>3. sent' \in [Nodes -> Seq(Ops)]
    <2> HIDE DEF Ops, Events
    <2>1. sent \in [Nodes -> Seq(Ops)] /\ TypeOK
        BY DEF ElectionInv, TypeOK
    <2>2. \/ UNCHANGED sent
          \/ \E ops \in {<<>>, <<"create", "register">>, <<"bootstrap">>, <<"create">>,
                         <<"get">>, <<"register">>, <<"children">>} : Ask(n, ops)
        BY DEF Callback, Connected, Disconnected, CheckMasterCompletion, CheckMasterWatch,
               TryBecomeMasterCompletion, BootstrapServiceDiscoveryCompletion,
               RegisterNodeCompletion, DiscoverNodesCompletion, DiscoverNodesWatch
    <2> QED BY <2>1, <2>2, AskIsTyped, RequestsAreTyped
<1>4. TryBecomeMasterCompletion(n) \/ UNCHANGED kIsMaster
    BY DEF Callback, Connected, Disconnected, CheckMasterCompletion, CheckMasterWatch,
           BootstrapServiceDiscoveryCompletion, RegisterNodeCompletion, DiscoverNodesCompletion,
           DiscoverNodesWatch
<1>5. /\ kExpired' \in [Nodes -> BOOLEAN] /\ kIsMaster' \in [Nodes -> BOOLEAN]
      /\ kZh' \in [Nodes -> BOOLEAN]
    BY DEF ElectionInv, TypeOK, Callback, Connected, Disconnected, CheckMasterCompletion,
           CheckMasterWatch, TryBecomeMasterCompletion, BootstrapServiceDiscoveryCompletion,
           RegisterNodeCompletion, DiscoverNodesCompletion, DiscoverNodesWatch
<1>6. /\ watcher' \in [Nodes -> Session \cup {NoSession}]
      /\ kMasterNode' \in [Nodes -> Nodes \cup {NotSet}]
    <2>1. CASE CheckMasterCompletion(n)
        <3>1. Head(inbox[n]).op = "get"
            BY <2>1 DEF CheckMasterCompletion, Handle
        <3>2. Code(n) = "ok" => Owner(n) \in Session
            BY <1>2, <3>1 DEF Code, Owner, Sound, Message
        <3>3. Code(n) = "ok" => Owner(n).node \in Nodes
            BY <3>2 DEF Session
        <3>4. \/ UNCHANGED <<watcher, kMasterNode>>
              \/ /\ Code(n) = "ok"
                 /\ watcher' = [watcher EXCEPT ![n] = Owner(n)]
                 /\ kMasterNode' = [kMasterNode EXCEPT ![n] = Owner(n).node]
            BY <2>1 DEF CheckMasterCompletion, SetMasterNode
        <3>5. /\ watcher \in [Nodes -> Session \cup {NoSession}]
              /\ kMasterNode \in [Nodes -> Nodes \cup {NotSet}]
            BY DEF ElectionInv, TypeOK
        <3> QED BY <3>2, <3>3, <3>4, <3>5
    <2>2. CASE \/ Connected(n) \/ Disconnected(n) \/ CheckMasterWatch(n)
               \/ TryBecomeMasterCompletion(n) \/ BootstrapServiceDiscoveryCompletion(n)
               \/ RegisterNodeCompletion(n) \/ DiscoverNodesCompletion(n) \/ DiscoverNodesWatch(n)
        <3>1. /\ UNCHANGED watcher \/ watcher' = [watcher EXCEPT ![n] = NoSession]
              /\ UNCHANGED kMasterNode \/ kMasterNode' = [kMasterNode EXCEPT ![n] = n]
            BY <2>2
               DEF Connected, Disconnected, CheckMasterWatch,
                   TryBecomeMasterCompletion, BootstrapServiceDiscoveryCompletion, SetMasterNode,
                   RegisterNodeCompletion, DiscoverNodesCompletion, DiscoverNodesWatch
        <3>2. /\ watcher \in [Nodes -> Session \cup {NoSession}]
              /\ kMasterNode \in [Nodes -> Nodes \cup {NotSet}]
            BY DEF ElectionInv, TypeOK
        <3> QED BY <3>1, <3>2
    <2> QED BY <2>1, <2>2 DEF Callback
<1>7. /\ childWatcher' \in [Nodes -> BOOLEAN]
      /\ kNodes' \in [Nodes -> {NotSet} \cup SUBSET Nodes]
    <2>1. Head(inbox[n]).list \in SUBSET Nodes
        BY <1>2 DEF Sound, Message
    <2> QED BY <2>1
        DEF ElectionInv, TypeOK, Callback, Connected, Disconnected, CheckMasterCompletion,
            CheckMasterWatch, TryBecomeMasterCompletion, BootstrapServiceDiscoveryCompletion,
            RegisterNodeCompletion, DiscoverNodesCompletion, DiscoverNodesWatch
<1>8. TypeOK'
    <2>1. UNCHANGED <<service, arms, up, number, link, bounds>>
        BY <1>1 DEF Handle
    <2> QED BY <1>2, <1>3, <1>5, <1>6, <1>7, <2>1
        DEF ElectionInv, TypeOK, service, arms, bounds
<1> QED BY <1>1, <1>4, <1>8

-----------------------------------------------------------------------------
(* The specification *)

LEMMA InitHolds == Init => ElectionInv
<1> SUFFICES ASSUME Init PROVE ElectionInv
    OBVIOUS
<1>1. \A S : <<>> \in Seq(S)
    BY EmptySeq
<1>2. TypeOK
    BY <1>1 DEF Init, TypeOK
<1>3. InboxesAreSound
    BY <1>1 DEF Init, InboxesAreSound
<1> QED BY <1>2, <1>3
        DEF Init, ElectionInv, ConnectedIsAlive, MasterHasHandle, OneLiveMaster

LEMMA NodeStepKeeps ==
    ASSUME ElectionInv, NEW n \in Nodes, NodeStep(n)
    PROVE  ElectionInv'
<1>1. CASE Callback(n)
    <2>1. CASE SessionExpired(n) \/ TryBecomeMasterCompletion(n)
        BY <2>1, SessionExpiredKeeps, TryBecomeMasterKeeps
    <2>2. CASE ~SessionExpired(n) /\ ~TryBecomeMasterCompletion(n)
        <3>1. TypeOK' /\ UNCHANGED <<link, kIsMaster>> /\ \E op \in Ops \cup Events : Handle(n, op)
            BY <1>1, <2>2, CallbacksAreTyped
        <3> QED BY <3>1, CallbackKeeps
    <2> QED BY <2>1, <2>2
<1> QED BY <1>1, ServeKeeps, ConnectKeeps, AssignHandleKeeps, ReconnectKeeps, LearnExpiredKeeps
        DEF NodeStep

LEMMA StepKeeps == ElectionInv /\ [Next]_vars => ElectionInv'
<1> SUFFICES ASSUME ElectionInv, [Next]_vars PROVE ElectionInv'
    OBVIOUS
<1>1. CASE \E n \in Nodes : NodeStep(n) \/ Start(n) \/ Crash(n) \/ Disconnect(n)
    BY <1>1, NodeStepKeeps, StartKeeps, CrashKeeps, DisconnectKeeps
<1>2. CASE \E s \in alive : Expire(s)
    BY <1>2, ExpireKeeps
<1>3. CASE UNCHANGED vars
    <2> USE <1>3 DEF vars, service, arms, watches, flags, bounds
    <2>1. \A m \in Nodes : (Owns(m)' <=> Owns(m)) /\ SessionOf(m)' = SessionOf(m)
        BY DEF Owns, SessionOf
    <2>2. TypeOK'
        BY DEF ElectionInv, TypeOK
    <2>3. InboxesAreSound'
        BY <2>1 DEF ElectionInv, InboxesAreSound
    <2> QED BY <2>1, <2>2, <2>3
        DEF ElectionInv, ConnectedIsAlive, MasterHasHandle, OneLiveMaster
<1> QED BY <1>1, <1>2, <1>3 DEF Next, Quiet

\* Everything above holds in every state of the election, with any number of hosts and
\* with connections that break and processes that die any number of times.
THEOREM ElectionIsSound == Spec => []ElectionInv
<1> QED BY InitHolds, StepKeeps, PTL DEF Spec

\* The services and the callbacks keep to the types of their state
\* (coordination/zookeeper.cpp).
THEOREM ElectionTypeCorrect == Spec => []TypeOK
<1>1. ElectionInv => TypeOK
    BY DEF ElectionInv
<1> QED BY <1>1, ElectionIsSound, PTL

\* Of the nodes that take themselves for the master, at most one has a session that the
\* service has not given up, and it is the owner of /master
\* (zookeeper.cpp:47-76, 124-143).
THEOREM AtMostOneLiveMaster == Spec => []OneLiveMaster
<1>1. ElectionInv => OneLiveMaster
    BY DEF ElectionInv
<1> QED BY <1>1, ElectionIsSound, PTL

-----------------------------------------------------------------------------
(* While no connection breaks *)

Some(q, S) == \E i \in DOMAIN q : q[i] \in S

\* What makes a node ask again, and what would end its session.
Unsettled ==
    {m \in Message : (m.op \in {"create", "get"} /\ m.rc # "ok") \/ m.op = "deleted"}
Expiry == {m \in Message : m.op = "expired"}
Asking == {"create", "get"}

\* Sessions only end with their processes, and whoever has started is to ask for /master.
Undisturbed ==
    /\ disconnects = 0
    /\ \A n \in Nodes :
          /\ link[n] \in {"none", "up"} /\ (up[n] => kZh[n]) /\ (link[n] = "up" => up[n])
          /\ ~Some(inbox[n], Expiry)
          /\ up[n] /\ link[n] = "none" => Some(sent[n], {"create"})

\* A node that has an answer which settles the matter owns /master or watches it: such an
\* answer need not be waited for.
InPlay(n) ==
    \/ master = SessionOf(n)
    \/ armed[n] # NoSession
    \/ Some(sent[n], Asking)
    \/ Some(inbox[n], Unsettled)

TakesPartInv ==
    ElectionInv /\ Undisturbed /\ \A n \in Nodes : link[n] = "up" => InPlay(n)

LEMMA SomeInConcat ==
    ASSUME NEW T, NEW p \in Seq(T), NEW q \in Seq(T), NEW S
    PROVE  Some(p \o q, S) <=> Some(p, S) \/ Some(q, S)
<1>1. /\ DOMAIN p = 1..Len(p) /\ DOMAIN q = 1..Len(q) /\ Len(p) \in Nat /\ Len(q) \in Nat
      /\ p \o q \in Seq(T) /\ DOMAIN (p \o q) = 1..(Len(p) + Len(q))
    BY ConcatProperties, LenProperties
<1>2. \A i \in 1..(Len(p) + Len(q)) :
          (p \o q)[i] = IF i \leq Len(p) THEN p[i] ELSE q[i - Len(p)]
    BY ConcatProperties
<1>3. ASSUME Some(p, S) PROVE Some(p \o q, S)
    BY <1>1, <1>2, <1>3 DEF Some
<1>4. ASSUME Some(q, S) PROVE Some(p \o q, S)
    <2>1. PICK i \in 1..Len(q) : q[i] \in S
        BY <1>1, <1>4 DEF Some
    <2>2. /\ Len(p) + i \in 1..(Len(p) + Len(q)) /\ ~(Len(p) + i \leq Len(p))
          /\ (Len(p) + i) - Len(p) = i
        BY <1>1
    <2>3. (p \o q)[Len(p) + i] = q[i]
        BY <1>2, <2>2
    <2> QED BY <1>1, <2>1, <2>2, <2>3 DEF Some
<1>5. ASSUME Some(p \o q, S) PROVE Some(p, S) \/ Some(q, S)
    <2>1. PICK i \in 1..(Len(p) + Len(q)) : (p \o q)[i] \in S
        BY <1>1, <1>5 DEF Some
    <2>2. CASE i \leq Len(p)
        <3>1. i \in 1..Len(p) /\ p[i] \in S
            BY <1>1, <1>2, <2>1, <2>2
        <3> QED BY <1>1, <3>1 DEF Some
    <2>3. CASE ~(i \leq Len(p))
        <3>1. i - Len(p) \in 1..Len(q) /\ q[i - Len(p)] \in S
            BY <1>1, <1>2, <2>1, <2>3
        <3> QED BY <1>1, <3>1 DEF Some
    <2> QED BY <2>2, <2>3
<1> QED BY <1>3, <1>4, <1>5

LEMMA SomeInTail ==
    ASSUME NEW T, NEW q \in Seq(T), q # <<>>, NEW S
    PROVE  Some(q, S) <=> Head(q) \in S \/ Some(Tail(q), S)
<1>1. /\ DOMAIN q = 1..Len(q) /\ Len(q) \in Nat \ {0} /\ Head(q) = q[1]
      /\ Tail(q) \in Seq(T) /\ DOMAIN Tail(q) = 1..(Len(q) - 1)
      /\ \A i \in 1..(Len(q) - 1) : Tail(q)[i] = q[i + 1]
    BY HeadTailProperties, LenProperties, EmptySeq
<1>2. ASSUME Some(q, S) PROVE Head(q) \in S \/ Some(Tail(q), S)
    <2>1. PICK i \in 1..Len(q) : q[i] \in S
        BY <1>1, <1>2 DEF Some
    <2>2. CASE i = 1
        BY <1>1, <2>1, <2>2
    <2>3. CASE i # 1
        <3>1. i - 1 \in 1..(Len(q) - 1) /\ (i - 1) + 1 = i
            BY <1>1, <2>3
        <3>2. Tail(q)[i - 1] \in S
            BY <1>1, <2>1, <3>1
        <3> QED BY <1>1, <3>1, <3>2 DEF Some
    <2> QED BY <2>2, <2>3
<1>3. ASSUME Some(Tail(q), S) PROVE Some(q, S)
    <2>1. PICK i \in 1..(Len(q) - 1) : Tail(q)[i] \in S
        BY <1>1, <1>3 DEF Some
    <2>2. i + 1 \in 1..Len(q) /\ q[i + 1] \in S
        BY <1>1, <2>1
    <2> QED BY <1>1, <2>2 DEF Some
<1>4. ASSUME Head(q) \in S PROVE Some(q, S)
    <2>1. 1 \in 1..Len(q)
        BY <1>1
    <2> QED BY <1>1, <1>4, <2>1 DEF Some
<1> QED BY <1>2, <1>3, <1>4

LEMMA SomeInShort ==
    /\ \A S : ~Some(<<>>, S)
    /\ \A x, S : Some(<<x>>, S) <=> x \in S
    /\ \A x, y, S : Some(<<x, y>>, S) <=> x \in S \/ y \in S
BY DEF Some

LEMMA SomeInAppend ==
    ASSUME NEW T, NEW q \in Seq(T), NEW x \in T, NEW S
    PROVE  Some(Append(q, x), S) <=> Some(q, S) \/ x \in S
<1>1. Append(q, x) = q \o <<x>>
    BY AppendIsConcat
<1>2. <<x>> \in Seq(T)
    OBVIOUS
<1>3. Some(<<x>>, S) <=> x \in S
    BY SomeInShort, Zenon
<1>4. Some(q \o <<x>>, S) <=> Some(q, S) \/ Some(<<x>>, S)
    BY <1>2, SomeInConcat
<1> QED BY <1>1, <1>3, <1>4

\* An inbox of messages that were there, or are no expiry, has none.
LEMMA NotifiedAreNoExpiry ==
    ASSUME NEW fired, NEW type \in Events \ {"expired"}, NEW n \in Nodes
    PROVE  /\ Notify(fired, type)[n] \in Seq(Message)
           /\ ~Some(Notify(fired, type)[n], Expiry)
           /\ type = "deleted" /\ n \in fired => Some(Notify(fired, type)[n], Unsettled)
<1>1. Event(type) \in Message \ Expiry /\ (type = "deleted" => Event(type) \in Unsettled)
    BY DEF Event, Reply, Message, Expiry, Unsettled, Codes, Ops, Events
<1>2. Notify(fired, type)[n] \in {<<>>, <<Event(type)>>}
      /\ (n \in fired => Notify(fired, type)[n] = <<Event(type)>>)
    BY DEF Notify
<1>3. <<>> \in Seq(Message) /\ <<Event(type)>> \in Seq(Message)
    BY <1>1
<1>4. /\ ~Some(<<>>, Expiry) /\ ~Some(<<Event(type)>>, Expiry)
      /\ type = "deleted" => Some(<<Event(type)>>, Unsettled)
    BY <1>1, SomeInShort, Zenon
<1> QED BY <1>2, <1>3, <1>4

\* Answers add to the inboxes and take one request away.
LEMMA AnswerAdds ==
    ASSUME TypeOK, NEW n \in Nodes, NEW op \in Ops, NEW rc \in Codes,
           NEW listChanged \in BOOLEAN, Answer(n, op, rc, listChanged)
    PROVE  /\ \A m \in Nodes : \A S : Some(inbox[m], S) => Some(inbox'[m], S)
           /\ \A m \in Nodes : ~Some(inbox[m], Expiry) => ~Some(inbox'[m], Expiry)
           /\ op \in Asking /\ rc # "ok" => Some(inbox'[n], Unsettled)
           /\ Some(sent[n], Asking) => op \in Asking \/ Some(sent'[n], Asking)
           /\ \A m \in Nodes \ {n} : sent'[m] = sent[m]
<1> USE DEF Answer
<1> DEFINE reply == Reply(op, rc, master, Listed)
           told == Notify({m \in Nodes : listChanged /\ childArmed[m]}, "child")
           answer(m) == IF m = n THEN <<reply>> ELSE <<>>
<1>1. reply \in Message \ Expiry /\ (op \in Asking /\ rc # "ok" => reply \in Unsettled)
    <2>1. Listed \in SUBSET Nodes /\ master \in Session \cup {NoSession}
        BY DEF Listed, TypeOK
    <2> QED BY <2>1 DEF Reply, Message, Expiry, Unsettled, Asking, Ops
<1>2. ASSUME NEW m \in Nodes
      PROVE  /\ \A S : Some(inbox'[m], S) <=>
                    Some(inbox[m], S) \/ Some(answer(m), S) \/ Some(told[m], S)
             /\ ~Some(answer(m), Expiry) /\ ~Some(told[m], Expiry)
    <2>1. inbox'[m] = (inbox[m] \o answer(m)) \o told[m]
        OBVIOUS
    <2>2. told[m] \in Seq(Message) /\ ~Some(told[m], Expiry)
        <3>1. "child" \in Events \ {"expired"}
            BY DEF Events
        <3> QED BY <3>1, NotifiedAreNoExpiry
    <2>3. answer(m) \in Seq(Message) /\ ~Some(answer(m), Expiry)
        <3> HIDE DEF reply
        <3>1. <<reply>> \in Seq(Message) /\ <<>> \in Seq(Message)
            BY <1>1
        <3>2. ~Some(<<>>, Expiry) /\ ~Some(<<reply>>, Expiry)
            BY <1>1, SomeInShort, Zenon
        <3> QED BY <3>1, <3>2
    <2>4. inbox[m] \in Seq(Message)
        BY DEF TypeOK
    <2> HIDE DEF told, answer
    <2>5. inbox[m] \o answer(m) \in Seq(Message)
        BY <2>3, <2>4, ConcatProperties
    <2>6. \A S : Some(inbox'[m], S) <=> Some(inbox[m] \o answer(m), S) \/ Some(told[m], S)
        <3>1. \A S : Some((inbox[m] \o answer(m)) \o told[m], S) <=>
                      Some(inbox[m] \o answer(m), S) \/ Some(told[m], S)
            BY <2>2, <2>5, SomeInConcat
        <3> QED BY <2>1, <3>1, Zenon
    <2>7. \A S : Some(inbox[m] \o answer(m), S) <=> Some(inbox[m], S) \/ Some(answer(m), S)
        BY <2>3, <2>4, SomeInConcat
    <2> QED BY <2>2, <2>3, <2>6, <2>7
<1>3. op \in Asking /\ rc # "ok" => Some(inbox'[n], Unsettled)
    <2> SUFFICES ASSUME op \in Asking, rc # "ok" PROVE Some(inbox'[n], Unsettled)
        OBVIOUS
    <2>1. Some(answer(n), Unsettled)
        <3> HIDE DEF reply
        <3> QED BY <1>1, SomeInShort
    <2> HIDE DEF answer
    <2> QED BY <1>2, <2>1
<1>4. Some(sent[n], Asking) => op \in Asking \/ Some(sent'[n], Asking)
    <2>1. sent[n] \in Seq(Ops) /\ sent[n] # <<>> /\ Head(sent[n]) = op /\ sent'[n] = Tail(sent[n])
        BY DEF TypeOK
    <2> QED BY <2>1, SomeInTail
<1>5. \A m \in Nodes \ {n} : sent'[m] = sent[m]
    BY DEF TypeOK
<1> HIDE DEF answer, told, Answer
<1> QED BY <1>2, <1>3, <1>4, <1>5

\* What a step leaves to the nodes that it is not about.
LEMMA BystandersTakePart ==
    ASSUME TakesPartInv, ElectionInv', NEW n \in Nodes, disconnects' = 0,
           \A m \in Nodes \ {n} :
               /\ UNCHANGED <<link[m], up[m], kZh[m], sent[m], number[m]>>
               /\ link[m] = "up" /\ master = SessionOf(m) => UNCHANGED master
               /\ link[m] = "up" /\ armed[m] # NoSession =>
                      armed'[m] # NoSession \/ Some(inbox'[m], Unsettled)
               /\ Some(inbox[m], Unsettled) => Some(inbox'[m], Unsettled)
               /\ ~Some(inbox'[m], Expiry),
           link'[n] \in {"none", "up"}, up'[n] => kZh'[n], link'[n] = "up" => up'[n],
           ~Some(inbox'[n], Expiry),
           up'[n] /\ link'[n] = "none" => Some(sent'[n], {"create"}),
           link'[n] = "up" => InPlay(n)'
    PROVE  TakesPartInv'
<1>1. Undisturbed'
    BY DEF TakesPartInv, Undisturbed
<1>2. ASSUME NEW m \in Nodes \ {n}, link'[m] = "up" PROVE InPlay(m)'
    <2>1. SessionOf(m)' = SessionOf(m) /\ InPlay(m) /\ link[m] = "up"
        BY <1>2 DEF SessionOf, TakesPartInv
    <2> QED BY <1>2, <2>1 DEF InPlay
<1> QED BY <1>1, <1>2 DEF TakesPartInv

LEMMA ServeTakesPart ==
    ASSUME TakesPartInv, NEW n \in Nodes, Serve(n)
    PROVE  TakesPartInv'
<1>1. PICK op \in Ops, rc \in Codes, listChanged \in BOOLEAN :
          /\ Answer(n, op, rc, listChanged)
          /\ op = "create" /\ rc = "ok" => master' = SessionOf(n)
          /\ op = "get" /\ rc = "ok" => armed'[n] # NoSession
    BY DEF Serve, ServeBootstrap, ServeCreate, ServeGet, ServeRegister, ServeChildren, Ops,
           Codes, TakesPartInv, ElectionInv, TypeOK
<1>2. /\ UNCHANGED master \/ master = NoSession
      /\ \A m \in Nodes \ {n} : UNCHANGED armed[m]
      /\ armed[n] # NoSession => armed'[n] # NoSession
    BY DEF Serve, ServeBootstrap, ServeCreate, ServeGet, ServeRegister, ServeChildren,
           TakesPartInv, ElectionInv, TypeOK
<1>3. /\ \A m \in Nodes : Some(inbox[m], Unsettled) => Some(inbox'[m], Unsettled)
      /\ \A m \in Nodes : ~Some(inbox'[m], Expiry)
      /\ op \in Asking /\ rc # "ok" => Some(inbox'[n], Unsettled)
      /\ Some(sent[n], Asking) => op \in Asking \/ Some(sent'[n], Asking)
      /\ \A m \in Nodes \ {n} : sent'[m] = sent[m]
    <2>1. TypeOK /\ \A m \in Nodes : ~Some(inbox[m], Expiry)
        BY DEF TakesPartInv, ElectionInv, Undisturbed
    <2> QED BY <1>1, <2>1, AnswerAdds
<1>4. UNCHANGED <<up, number, link, kZh, disconnects>> /\ link[n] = "up"
    BY <1>1 DEF Answer, flags, bounds
<1>5. ElectionInv' /\ \A m \in Nodes : SessionOf(m) # NoSession /\ SessionOf(m)' = SessionOf(m)
    BY <1>4, ServeKeeps, SessionOfIsSession DEF TakesPartInv, ElectionInv, SessionOf
<1>6. InPlay(n)'
    <2>1. InPlay(n)
        BY <1>4 DEF TakesPartInv
    <2>2. CASE master = SessionOf(n)
        BY <1>2, <1>5, <2>2 DEF InPlay
    <2>3. CASE armed[n] # NoSession
        BY <1>2, <2>3 DEF InPlay
    <2>4. CASE Some(inbox[n], Unsettled)
        BY <1>3, <2>4 DEF InPlay
    <2>5. CASE Some(sent[n], Asking)
        <3>1. CASE op \in Asking
            BY <1>1, <1>3, <1>5, <3>1 DEF InPlay, Asking
        <3> QED BY <1>3, <2>5, <3>1 DEF InPlay
    <2> QED BY <2>1, <2>2, <2>3, <2>4, <2>5 DEF InPlay
<1> QED BY <1>2, <1>3, <1>4, <1>5, <1>6, BystandersTakePart DEF TakesPartInv, Undisturbed

\* Who watches /master is told when it goes.
LEMMA ExpireTakesPart ==
    ASSUME TakesPartInv, NEW s \in alive, Expire(s)
    PROVE  TakesPartInv'
<1> DEFINE gone == {n \in Nodes : master = s /\ armed[n] # NoSession}
           fired == {n \in Nodes : registered' # registered /\ childArmed[n]}
<1>1. /\ \A m \in Nodes :
            inbox'[m] = (inbox[m] \o Notify(gone, "deleted")[m]) \o Notify(fired, "child")[m]
      /\ armed' = [n \in Nodes |-> IF n \in gone THEN NoSession ELSE armed[n]]
      /\ master' = IF master = s THEN NoSession ELSE master
      /\ UNCHANGED <<up, number, link, sent, kZh, disconnects>>
      /\ \A m \in Nodes : link[m] = "up" => SessionOf(m) # s
    <2> USE DEF Expire, flags, bounds
    <2>1. \A m \in Nodes : link[m] = "up" => SessionOf(m) # s
        BY DEF SessionOf
    <2> QED BY <2>1
<1>2. \A m \in Nodes : SessionOf(m)' = SessionOf(m)
    BY <1>1 DEF SessionOf
<1>3. ASSUME NEW m \in Nodes
      PROVE  /\ Some(inbox[m], Unsettled) => Some(inbox'[m], Unsettled)
             /\ m \in gone => Some(inbox'[m], Unsettled)
             /\ ~Some(inbox'[m], Expiry)
    <2> DEFINE one == Notify(gone, "deleted")[m]
               two == Notify(fired, "child")[m]
    <2>1. /\ one \in Seq(Message) /\ two \in Seq(Message)
          /\ ~Some(one, Expiry) /\ ~Some(two, Expiry)
          /\ m \in gone => Some(one, Unsettled)
        <3>1. {"deleted", "child"} \subseteq Events \ {"expired"}
            BY DEF Events
        <3> HIDE DEF gone, fired
        <3> QED BY <3>1, NotifiedAreNoExpiry
    <2>2. inbox[m] \in Seq(Message) /\ ~Some(inbox[m], Expiry)
        BY DEF TakesPartInv, ElectionInv, TypeOK, Undisturbed
    <2> HIDE DEF one, two
    <2>3. \A S : Some(inbox[m] \o one, S) <=> Some(inbox[m], S) \/ Some(one, S)
        BY <2>1, <2>2, SomeInConcat
    <2>4. \A S : Some((inbox[m] \o one) \o two, S) <=> Some(inbox[m] \o one, S) \/ Some(two, S)
        <3>1. inbox[m] \o one \in Seq(Message)
            BY <2>1, <2>2, ConcatProperties
        <3> QED BY <2>1, <3>1, SomeInConcat
    <2>5. inbox'[m] = (inbox[m] \o one) \o two
        BY <1>1 DEF one, two
    <2> HIDE DEF gone
    <2> QED BY <2>1, <2>2, <2>3, <2>4, <2>5, Zenon
<1>4. ElectionInv'
    BY ExpireKeeps DEF TakesPartInv
<1>5. Undisturbed'
    BY <1>1, <1>3 DEF TakesPartInv, Undisturbed
<1>6. ASSUME NEW m \in Nodes, link'[m] = "up" PROVE InPlay(m)'
    <2>1. InPlay(m) /\ SessionOf(m) # s
        BY <1>1, <1>6 DEF TakesPartInv
    <2>2. armed[m] # NoSession => armed'[m] # NoSession \/ m \in gone
        BY <1>1
    <2> QED BY <1>1, <1>2, <1>3, <2>1, <2>2 DEF InPlay
<1> QED BY <1>4, <1>5, <1>6 DEF TakesPartInv

LEMMA StartOrEndTakesPart ==
    ASSUME TakesPartInv, NEW n \in Nodes, Connect(n) \/ Start(n) \/ Crash(n)
    PROVE  TakesPartInv'
<1> USE DEF Connect, Start, Crash, service, arms, watches, flags, bounds
<1>1. ElectionInv'
    BY ConnectKeeps, StartKeeps, CrashKeeps DEF TakesPartInv
<1>2. /\ TypeOK /\ link[n] \in {"none", "up"} /\ ~Some(inbox[n], Expiry) /\ (up[n] => kZh[n])
      /\ (link[n] = "up" => up[n])
      /\ up[n] /\ link[n] = "none" => Some(sent[n], {"create"})
    BY DEF TakesPartInv, ElectionInv, Undisturbed
<1>3. disconnects' = 0
    BY DEF TakesPartInv, Undisturbed
<1>4. ASSUME NEW m \in Nodes \ {n}
      PROVE  /\ UNCHANGED <<link[m], up[m], kZh[m], sent[m], number[m], inbox[m], armed[m]>>
             /\ UNCHANGED master
             /\ ~Some(inbox[m], Expiry)
    BY <1>2 DEF TypeOK, TakesPartInv, Undisturbed
<1> HIDE DEF Connect, Start, Crash
<1>a. \A m \in Nodes \ {n} :
          /\ UNCHANGED <<link[m], up[m], kZh[m], sent[m], number[m]>>
          /\ link[m] = "up" /\ master = SessionOf(m) => UNCHANGED master
          /\ link[m] = "up" /\ armed[m] # NoSession =>
                 armed'[m] # NoSession \/ Some(inbox'[m], Unsettled)
          /\ Some(inbox[m], Unsettled) => Some(inbox'[m], Unsettled)
          /\ ~Some(inbox'[m], Expiry)
    BY <1>4
<1> USE DEF Connect, Start, Crash
<1>5. CASE Connect(n)
    <2>1. Some(sent[n], Asking)
        BY <1>2, <1>5 DEF Some, Asking
    <2>2. link'[n] = "up" /\ sent' = sent /\ up' = up /\ kZh' = kZh /\ up[n] /\ kZh[n]
          /\ inbox'[n] = Append(inbox[n], Event("connected"))
        BY <1>2, <1>5 DEF TypeOK
    <2>3. ~Some(inbox'[n], Expiry)
        <3>1. inbox[n] \in Seq(Message) /\ Event("connected") \in Message \ Expiry
            BY <1>2 DEF TypeOK, Event, Reply, Message, Expiry, Codes, Events
        <3> QED BY <1>2, <2>2, <3>1, SomeInAppend
    <2>4. InPlay(n)'
        BY <2>1, <2>2 DEF InPlay
    <2> HIDE DEF Connect, Start, Crash
    <2> QED
        BY ONLY TakesPartInv, n \in Nodes, <1>1, <1>3, <1>a, <2>2, <2>3, <2>4, BystandersTakePart
<1>6. CASE Start(n)
    <2>1. link'[n] = "none" /\ kZh'[n] /\ sent'[n] = <<"bootstrap", "create">>
          /\ inbox'[n] = inbox[n]
        BY <1>2, <1>6 DEF TypeOK
    <2>2. Some(sent'[n], {"create"})
        BY <2>1, SomeInShort
    <2> HIDE DEF Connect, Start, Crash
    <2>3. ~Some(inbox'[n], Expiry)
        BY <1>2, <2>1
    <2> QED
        BY ONLY TakesPartInv, n \in Nodes, <1>1, <1>3, <1>a, <2>1, <2>2, <2>3, BystandersTakePart
<1>7. CASE Crash(n)
    <2>1. link'[n] = "none" /\ ~up'[n] /\ inbox'[n] = <<>>
        BY <1>2, <1>7 DEF TypeOK
    <2>2. ~Some(inbox'[n], Expiry)
        BY <2>1, SomeInShort
    <2> QED
        BY ONLY TakesPartInv, n \in Nodes, <1>1, <1>3, <1>a, <2>1, <2>2, BystandersTakePart
<1> QED BY <1>5, <1>6, <1>7

\* A message that does not settle the matter makes the node ask again.
LEMMA CallbackTakesPart ==
    ASSUME TakesPartInv, NEW n \in Nodes, Callback(n)
    PROVE  TakesPartInv'
<1>1. /\ TypeOK /\ inbox[n] \in Seq(Message) /\ sent[n] \in Seq(Ops)
      /\ link[n] \in {"none", "up"} /\ ~Some(inbox[n], Expiry) /\ (up[n] => kZh[n])
      /\ up[n] /\ link[n] = "none" => Some(sent[n], {"create"})
    BY DEF TakesPartInv, ElectionInv, Undisturbed, TypeOK
<1>2. ~SessionExpired(n)
    <2> SUFFICES ASSUME SessionExpired(n) PROVE FALSE
        OBVIOUS
    <2>1. inbox[n] # <<>> /\ Head(inbox[n]).op = "expired" /\ Head(inbox[n]) \in Message
        BY <1>1, HeadTailProperties DEF SessionExpired, Closed
    <2>2. Head(inbox[n]) \in Expiry
        BY <2>1 DEF Expiry
    <2> QED BY <1>1, <2>1, <2>2, SomeInTail
<1>3. PICK op \in Ops \cup Events : Handle(n, op) /\ UNCHANGED <<link, kZh>>
    BY <1>2
       DEF Callback, Connected, Disconnected, CheckMasterCompletion, CheckMasterWatch,
           TryBecomeMasterCompletion, BootstrapServiceDiscoveryCompletion, flags,
           RegisterNodeCompletion, DiscoverNodesCompletion, DiscoverNodesWatch, Ops, Events
<1>4. PICK ops \in Seq(Ops) :
          /\ sent'[n] = sent[n] \o ops
          /\ \A m \in Nodes \ {n} : sent'[m] = sent[m]
          /\ Head(inbox[n]) \in Unsettled => Some(ops, Asking)
    <2>1. up[n] /\ kZh[n] /\ Head(inbox[n]).op = op /\ Code(n) = Head(inbox[n]).rc
        BY <1>1, <1>3 DEF Handle, Code
    <2>2. CASE Head(inbox[n]) \in Unsettled
        <3>1. \/ op \in {"create", "get"} /\ Code(n) # "ok"
              \/ op = "deleted"
            BY <2>1, <2>2 DEF Unsettled
        <3>2. CheckMasterCompletion(n) \/ CheckMasterWatch(n) \/ TryBecomeMasterCompletion(n)
            BY <2>1, <3>1
               DEF Callback, Connected, Disconnected, SessionExpired, Closed, Handle,
                   BootstrapServiceDiscoveryCompletion, RegisterNodeCompletion,
                   DiscoverNodesCompletion, DiscoverNodesWatch
        <3>3. \E ops \in {<<"create">>, <<"get">>} : Ask(n, ops)
            BY <2>1, <3>1, <3>2
               DEF CheckMasterCompletion, CheckMasterWatch, TryBecomeMasterCompletion, Handle
        <3>4. PICK request \in Asking : Ask(n, <<request>>)
            BY <3>3 DEF Asking
        <3>5. <<request>> \in Seq(Ops) /\ Some(<<request>>, Asking)
            <4>1. request \in Ops
                BY DEF Asking, Ops
            <4>2. <<request>> \in Seq(Ops)
                BY <4>1
            <4> QED BY <4>2, SomeInShort, Zenon
        <3>6. /\ sent'[n] = sent[n] \o <<request>>
              /\ \A m \in Nodes \ {n} : sent'[m] = sent[m]
            BY <1>1, <2>1, <3>4 DEF Ask, TypeOK
        <3> QED BY <3>5, <3>6
    <2>3. CASE Head(inbox[n]) \notin Unsettled
        <3>1. \/ UNCHANGED sent
              \/ \E ops \in {<<>>, <<"create", "register">>, <<"bootstrap">>, <<"create">>,
                             <<"get">>, <<"register">>, <<"children">>} : Ask(n, ops)
            BY <1>2
               DEF Callback, Connected, Disconnected, CheckMasterCompletion, CheckMasterWatch,
                   TryBecomeMasterCompletion, BootstrapServiceDiscoveryCompletion,
                   RegisterNodeCompletion, DiscoverNodesCompletion, DiscoverNodesWatch
        <3>2. CASE UNCHANGED sent
            <4>1. sent[n] = sent[n] \o <<>> /\ <<>> \in Seq(Ops)
                BY <1>1, ConcatEmptySeq, EmptySeq
            <4> QED BY <2>3, <3>2, <4>1
        <3>3. ASSUME NEW ops \in Seq(Ops), Ask(n, ops)
              PROVE  sent'[n] = sent[n] \o ops /\ \A m \in Nodes \ {n} : sent'[m] = sent[m]
            BY <1>1, <2>1, <3>3 DEF Ask, TypeOK
        <3> QED BY <2>3, <3>1, <3>2, <3>3, RequestsAreTyped
    <2> QED BY <2>2, <2>3
<1>5. /\ UNCHANGED <<alive, master, up, number, armed, disconnects>>
      /\ inbox'[n] = Tail(inbox[n]) /\ \A m \in Nodes \ {n} : inbox'[m] = inbox[m]
      /\ inbox[n] # <<>>
    BY <1>1, <1>3 DEF Handle, service, arms, bounds, TypeOK
<1>6. \A S : Some(inbox[n], S) <=> Head(inbox[n]) \in S \/ Some(inbox'[n], S)
    BY <1>1, <1>5, SomeInTail
<1>7. \A S : Some(sent'[n], S) <=> Some(sent[n], S) \/ Some(ops, S)
    BY <1>1, <1>4, SomeInConcat
<1>8. ElectionInv' /\ disconnects' = 0 /\ SessionOf(n)' = SessionOf(n)
      /\ \A m \in Nodes : ~Some(inbox[m], Expiry)
    BY <1>5, NodeStepKeeps DEF TakesPartInv, Undisturbed, NodeStep, SessionOf
<1>9. link'[n] = "up" => InPlay(n)'
    <2> SUFFICES ASSUME link'[n] = "up" PROVE InPlay(n)'
        OBVIOUS
    <2>1. InPlay(n)
        BY <1>3 DEF TakesPartInv
    <2> QED BY <1>4, <1>5, <1>6, <1>7, <1>8, <2>1 DEF InPlay
<1>10. link[n] = "up" => up[n]
    BY DEF TakesPartInv, Undisturbed
<1> QED BY <1>1, <1>3, <1>4, <1>5, <1>6, <1>7, <1>8, <1>9, <1>10, BystandersTakePart

LEMMA StepTakesPart ==
    ASSUME TakesPartInv, [Next]_vars, disconnects' = 0
    PROVE  TakesPartInv'
<1>1. CASE \E n \in Nodes : Serve(n) \/ Connect(n) \/ Start(n) \/ Crash(n) \/ Callback(n)
    BY <1>1, ServeTakesPart, StartOrEndTakesPart, CallbackTakesPart
<1>2. CASE \E s \in alive : Expire(s)
    BY <1>2, ExpireTakesPart
<1>3. CASE UNCHANGED vars
    <2>1. ElectionInv'
        BY StepKeeps DEF TakesPartInv
    <2> USE <1>3 DEF vars, service, arms, watches, flags, bounds
    <2>2. \A m \in Nodes : InPlay(m)' <=> InPlay(m)
        BY DEF InPlay, SessionOf
    <2>3. Undisturbed'
        BY DEF TakesPartInv, Undisturbed
    <2> QED BY <2>1, <2>2, <2>3 DEF TakesPartInv
<1>4. ASSUME NEW n \in Nodes,
             AssignHandle(n) \/ Reconnect(n) \/ LearnExpired(n) \/ Disconnect(n)
      PROVE  FALSE
    <2>1. (up[n] => kZh[n]) /\ link[n] \in {"none", "up"} /\ disconnects = 0
        BY DEF TakesPartInv, Undisturbed
    <2>2. CASE AssignHandle(n)
        BY <2>1, <2>2 DEF AssignHandle
    <2>3. CASE Reconnect(n) \/ LearnExpired(n)
        BY <2>1, <2>3 DEF Reconnect, LearnExpired
    <2>4. CASE Disconnect(n)
        BY <2>1, <2>4 DEF Disconnect
    <2> QED BY <1>4, <2>2, <2>3, <2>4
<1> QED BY <1>1, <1>2, <1>3, <1>4 DEF Next, NodeStep, Quiet

\* A connection that breaks is counted, and none is forgotten.
LEMMA DisconnectsAreCounted ==
    ASSUME [Next]_vars
    PROVE  UNCHANGED disconnects \/ (disconnects < MaxDisconnects /\ disconnects' = disconnects + 1)
<1> USE DEF bounds
<1>1. ASSUME NEW n \in Nodes, Serve(n) PROVE UNCHANGED disconnects
    BY <1>1 DEF Serve, ServeBootstrap, ServeCreate, ServeGet, ServeRegister, ServeChildren, Answer
<1>2. ASSUME NEW s \in alive, Expire(s) PROVE UNCHANGED disconnects
    BY <1>2 DEF Expire
<1>3. ASSUME NEW n \in Nodes,
             Connect(n) \/ Start(n) \/ Crash(n) \/ AssignHandle(n) \/ Reconnect(n) \/ LearnExpired(n)
      PROVE  UNCHANGED disconnects
    BY <1>3 DEF Connect, Start, Crash, AssignHandle, Reconnect, LearnExpired
<1>4. ASSUME NEW n \in Nodes, Callback(n) PROVE UNCHANGED disconnects
    BY <1>4 DEF Callback, Connected, Disconnected, SessionExpired, Closed, Handle,
                CheckMasterCompletion, CheckMasterWatch, TryBecomeMasterCompletion,
                BootstrapServiceDiscoveryCompletion, RegisterNodeCompletion,
                DiscoverNodesCompletion, DiscoverNodesWatch
<1>5. ASSUME NEW n \in Nodes, Disconnect(n)
      PROVE  disconnects < MaxDisconnects /\ disconnects' = disconnects + 1
    BY <1>5 DEF Disconnect
<1>6. CASE UNCHANGED vars
    BY <1>6 DEF vars
<1> QED BY <1>1, <1>2, <1>3, <1>4, <1>5, <1>6 DEF Next, NodeStep, Quiet

\* "current master is gone, trying to become master" (zookeeper.cpp:109): until a
\* connection breaks, every connected node is the master, watches it, or is about to find
\* out who it is, however many processes die and start.
THEOREM ConnectedTakePart == Spec => [](disconnects = 0 => TakesPart)
<1> DEFINE UntilOneBreaks == TypeOK /\ (disconnects = 0 => TakesPartInv)
<1>1. Init => UntilOneBreaks
    <2> SUFFICES ASSUME Init PROVE TypeOK /\ TakesPartInv
        OBVIOUS
    <2>1. Undisturbed
        BY SomeInShort DEF Init, Undisturbed
    <2> QED BY <2>1, InitHolds DEF Init, TakesPartInv, ElectionInv
<1>2. UntilOneBreaks /\ [Next]_vars /\ TypeOK' => UntilOneBreaks'
    <2> SUFFICES ASSUME UntilOneBreaks, [Next]_vars, disconnects' = 0 PROVE TakesPartInv'
        OBVIOUS
    <2>1. disconnects = 0
        BY DisconnectsAreCounted DEF TypeOK
    <2> QED BY <2>1, StepTakesPart
<1>3. UntilOneBreaks => (disconnects = 0 => TakesPart)
    BY DEF TakesPartInv, TakesPart, InPlay, Awaits, Some, Asking, Unsettled
<1> HIDE DEF UntilOneBreaks
<1> QED BY <1>1, <1>2, <1>3, ElectionTypeCorrect, PTL DEF Spec

\* In a configuration in which no connection breaks every connected node always takes
\* part (zookeeper.cpp:109).
THEOREM AllTakePartWhileConnected == MaxDisconnects = 0 => (Spec => []TakesPart)
<1> SUFFICES ASSUME MaxDisconnects = 0 PROVE Spec => []TakesPart
    OBVIOUS
<1>1. Init => disconnects = 0
    BY DEF Init
<1>2. disconnects = 0 /\ [Next]_vars => (disconnects = 0)'
    BY DisconnectsAreCounted
<1>3. Spec => [](disconnects = 0)
    BY <1>1, <1>2, PTL DEF Spec
<1> QED BY <1>3, ConnectedTakePart, PTL
=============================================================================
