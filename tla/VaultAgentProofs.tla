-------------------------- MODULE VaultAgentProofs --------------------------
(***************************************************************************)
(* For any set of agents on the one socket path, any clients and any        *)
(* timeout: an agent that has stopped is locked, one that was told to lock  *)
(* serves nobody, and whoever is connected waits for one agent that listens *)
(* (serve, _handle).                                                        *)
(***************************************************************************)
EXTENDS VaultAgent, SequenceTheorems, TLAPS

\* EndsLocked is not kept by Bind, unless the flag was cleared when it started.
LockInv ==
  /\ phase \in [Agents -> Phase]
  /\ EndsLocked
  /\ \A a \in Agents : phase[a] = "binding" => a \notin lockFlag

LEMMA LockInit == Init => LockInv
BY DEF Init, LockInv, EndsLocked, Phase

\* What a step of one agent may do: it leaves the phases, locks and flags of the
\* others alone.
Alone(a) ==
  /\ \E p \in Phase : Go(a, p)
  /\ \A b \in Agents : b # a => /\ b \in unlocked' <=> b \in unlocked
                                /\ b \in lockFlag' <=> b \in lockFlag

LEMMA AloneKeepsLock ==
  ASSUME LockInv, NEW a \in Agents, Alone(a),
         phase'[a] \in {"off", "unlinking"} => a \notin unlocked',
         a \in lockFlag' => phase'[a] \notin {"binding", "accept", "recv"}
  PROVE  LockInv'
<1>1. PICK p \in Phase : phase' = [phase EXCEPT ![a] = p]
  BY DEF Alone, Go
<1>2. phase' \in [Agents -> Phase] /\ \A b \in Agents : b # a => phase'[b] = phase[b]
  BY <1>1 DEF LockInv
<1>3. \A b \in Agents : b # a =>
        /\ phase'[b] \in {"off", "unlinking"} => b \notin unlocked'
        /\ b \in lockFlag' => phase'[b] \notin {"binding", "accept", "recv"}
  BY <1>2 DEF LockInv, EndsLocked, Alone
<1> QED
  BY <1>2, <1>3 DEF LockInv, EndsLocked

LEMMA StartingKeepsLock ==
  ASSUME LockInv, NEW a \in Agents, Start(a) \/ Bind(a) \/ BindRaises(a)
  PROVE  LockInv'
<1>1. CASE Start(a)
  <2>1. Go(a, "binding") /\ unlocked' = unlocked \cup {a} /\ lockFlag' = lockFlag \ {a}
    BY <1>1 DEF Start
  <2>2. phase'[a] = "binding"
    BY <2>1 DEF Go, LockInv
  <2> QED
    BY <2>1, <2>2, AloneKeepsLock DEF Alone, Phase
<1>2. CASE Bind(a)
  <2>1. Go(a, "accept") /\ UNCHANGED <<unlocked, lockFlag>> /\ phase[a] = "binding"
    BY <1>2 DEF Bind
  <2>2. phase'[a] = "accept" /\ a \notin lockFlag
    BY <2>1 DEF Go, LockInv
  <2> QED
    BY <2>1, <2>2, AloneKeepsLock DEF Alone, Phase
<1>3. CASE BindRaises(a)
  <2>1. Go(a, "off") /\ unlocked' = unlocked \ {a} /\ UNCHANGED lockFlag
    BY <1>3 DEF BindRaises
  <2>2. phase'[a] = "off"
    BY <2>1 DEF Go, LockInv
  <2> QED
    BY <2>1, <2>2, AloneKeepsLock DEF Alone, Phase
<1> QED
  BY <1>1, <1>2, <1>3

\* Between accept() and the end of the loop the flag is not set.
LEMMA ServingKeepsLock ==
  ASSUME LockInv, NEW a \in Agents,
         Accept(a) \/ Tick(a) \/ IdleTimeout(a) \/ Recv(a) \/ RecvNothing(a) \/ RecvRaises(a)
  PROVE  LockInv'
<1>1. phase[a] \in {"accept", "recv"} /\ UNCHANGED unlocked
  BY DEF Accept, Tick, IdleTimeout, Recv, RecvNothing, RecvRaises, Served
<1>2. a \notin lockFlag
  BY <1>1 DEF LockInv, EndsLocked
<1>3. CASE Tick(a)
  BY <1>3 DEF Tick, LockInv, EndsLocked
<1>4. CASE UNCHANGED lockFlag /\ \E p \in {"accept", "recv", "finally"} : Go(a, p)
  <2>1. PICK p \in {"accept", "recv", "finally"} : Go(a, p)
    BY <1>4
  <2>2. phase'[a] = p
    BY <2>1 DEF Go, LockInv
  <2> QED
    BY <1>1, <1>2, <1>4, <2>1, <2>2, AloneKeepsLock DEF Alone, Phase
<1>5. CASE Go(a, "finally") /\ lockFlag' = lockFlag \cup {a}
  <2>1. phase'[a] = "finally"
    BY <1>5 DEF Go, LockInv
  <2> QED
    BY <1>1, <1>5, <2>1, AloneKeepsLock DEF Alone, Phase
<1> QED
  BY <1>3, <1>4, <1>5 DEF Accept, IdleTimeout, Recv, RecvNothing, RecvRaises, Served

LEMMA StoppingKeepsLock ==
  ASSUME LockInv, NEW a \in Agents, Finally(a) \/ Unlink(a) \/ Kill(a)
  PROVE  LockInv'
<1>1. CASE Finally(a) \/ Kill(a)
  <2>1. PICK p \in {"unlinking", "off"} : Go(a, p)
    BY <1>1 DEF Finally, Kill
  <2>2. unlocked' = unlocked \ {a} /\ UNCHANGED lockFlag
    BY <1>1 DEF Finally, Kill
  <2>3. phase'[a] = p
    BY <2>1 DEF Go, LockInv
  <2> QED
    BY <2>1, <2>2, <2>3, AloneKeepsLock DEF Alone, Phase
<1>2. CASE Unlink(a)
  <2>1. Go(a, "off") /\ UNCHANGED <<unlocked, lockFlag>> /\ phase[a] = "unlinking"
    BY <1>2 DEF Unlink
  <2>2. phase'[a] = "off" /\ a \notin unlocked
    BY <2>1 DEF Go, LockInv, EndsLocked
  <2> QED
    BY <2>1, <2>2, AloneKeepsLock DEF Alone, Phase
<1> QED
  BY <1>1, <1>2

LEMMA StepKeepsLock == LockInv /\ [Next]_vars => LockInv'
<1> SUFFICES ASSUME LockInv, [Next]_vars PROVE LockInv'
  OBVIOUS
<1>1. ASSUME NEW a \in Agents, Agent(a) \/ Start(a) \/ Kill(a) PROVE LockInv'
  BY <1>1, StartingKeepsLock, ServingKeepsLock, StoppingKeepsLock DEF Agent
<1>2. ASSUME NEW c \in Clients, Connect(c) \/ Client(c) PROVE LockInv'
  BY <1>2 DEF Connect, Client, HangUp, Send, server, LockInv, EndsLocked
<1>3. CASE UNCHANGED vars
  BY <1>3 DEF vars, LockInv, EndsLocked
<1> QED
  BY <1>1, <1>2, <1>3 DEF Next

-----------------------------------------------------------------------------
(* Where a connection is. *)

\* A queue holds no connection twice, nor the one being served, and only an agent
\* that listens has one.
QueueIs(a) ==
  /\ phase[a] \notin Listening => queue[a] = <<>>
  /\ \A i, j \in 1..Len(queue[a]) : queue[a][i] = queue[a][j] => i = j
  /\ ~Dropped(a, peer[a])

PlaceInv ==
  /\ TypeOK /\ WaitsForOneAgent
  /\ \A a \in Agents : QueueIs(a)

LEMMA EmptyQueue ==
  ASSUME NEW a \in Agents, queue[a] = <<>>
  PROVE  /\ queue[a] \in Seq(Clients) /\ \A c : ~Dropped(a, c)
         /\ \A i, j \in 1..Len(queue[a]) : queue[a][i] = queue[a][j] => i = j
<1>1. Len(queue[a]) = 0 /\ queue[a] \in Seq(Clients)
  OBVIOUS
<1>2. 1..Len(queue[a]) = {}
  BY <1>1
<1> QED
  BY <1>1, <1>2 DEF Dropped

LEMMA PlaceInit == Init => PlaceInv
<1> SUFFICES ASSUME Init PROVE PlaceInv
  OBVIOUS
<1>1. \A a \in Agents : queue[a] = <<>>
  BY DEF Init
<1>2. \A a \in Agents : /\ queue[a] \in Seq(Clients) /\ \A c : ~Dropped(a, c)
                        /\ \A i, j \in 1..Len(queue[a]) : queue[a][i] = queue[a][j] => i = j
  BY <1>1, EmptyQueue
<1>3. TypeOK
  BY <1>2, AgentAssumption DEF Init, TypeOK, Phase, Answer
<1>4. WaitsForOneAgent
  BY <1>2, AgentAssumption DEF Init, WaitsForOneAgent, Holds
<1>5. \A a \in Agents : QueueIs(a)
  BY <1>1, <1>2 DEF QueueIs
<1> QED
  BY <1>3, <1>4, <1>5 DEF PlaceInv

\* The connections in `gone` are closed, and the others stay where they are.
Closes(gone) ==
  /\ \A b \in Agents, c \in Clients : Holds(b, c)' <=> Holds(b, c) /\ c \notin gone
  /\ \A c \in Clients : conn'[c] # "none" <=> conn[c] # "none" /\ c \notin gone
  /\ \A b \in Agents : phase[b] \in Listening =>
       phase'[b] \in Listening \/ \A c \in Clients : Holds(b, c) => c \in gone

LEMMA ClosesKeepsWaits ==
  ASSUME WaitsForOneAgent, NEW gone, Closes(gone) PROVE WaitsForOneAgent'
<1>1. ASSUME NEW c \in Clients, conn'[c] # "none"
      PROVE  \E a \in Agents : phase'[a] \in Listening /\ Holds(a, c)'
  <2>1. conn[c] # "none" /\ c \notin gone
    BY <1>1 DEF Closes
  <2>2. PICK a \in Agents : phase[a] \in Listening /\ Holds(a, c)
    BY <2>1 DEF WaitsForOneAgent
  <2>3. phase'[a] \in Listening /\ Holds(a, c)'
    BY <2>1, <2>2 DEF Closes
  <2> QED
    BY <2>3
<1>2. ASSUME NEW c \in Clients, NEW a \in Agents, NEW b \in Agents, Holds(a, c)', Holds(b, c)'
      PROVE  a = b /\ conn'[c] # "none"
  <2>1. Holds(a, c) /\ Holds(b, c) /\ c \notin gone
    BY <1>2 DEF Closes
  <2>2. a = b /\ conn[c] # "none"
    BY <2>1 DEF WaitsForOneAgent
  <2> QED
    BY <2>1, <2>2 DEF Closes
<1> QED
  BY <1>1, <1>2 DEF WaitsForOneAgent

\* Only `a` moves.
Moves(a, p) ==
  /\ p \in Phase /\ Go(a, p)
  /\ \A b \in Agents : b # a => queue'[b] = queue[b] /\ peer'[b] = peer[b]

LEMMA Moved ==
  ASSUME PlaceInv, NEW a \in Agents, NEW p, Moves(a, p)
  PROVE  /\ phase' \in [Agents -> Phase] /\ phase'[a] = p
         /\ \A b \in Agents : b # a =>
              /\ phase'[b] = phase[b] /\ QueueIs(b)'
              /\ \A c : Holds(b, c)' <=> Holds(b, c)
<1>1. phase' = [phase EXCEPT ![a] = p] /\ p \in Phase /\ phase \in [Agents -> Phase]
  BY DEF Moves, Go, PlaceInv, TypeOK
<1>2. \A b \in Agents : b # a => phase'[b] = phase[b]
  BY <1>1
<1>3. \A b \in Agents : b # a => \A c : Dropped(b, c)' <=> Dropped(b, c)
  BY DEF Moves, Dropped
<1>4. \A b \in Agents : b # a => QueueIs(b)'
  BY <1>2, <1>3 DEF Moves, QueueIs, PlaceInv
<1>5. \A b \in Agents : b # a => \A c : Holds(b, c)' <=> Holds(b, c)
  BY <1>3 DEF Moves, Holds
<1> QED
  BY <1>1, <1>2, <1>4, <1>5

LEMMA KeepsTypes ==
  ASSUME socket' \in Agents \cup {Nobody}, phase' \in [Agents -> Phase],
         unlocked' \subseteq Agents, lockFlag' \subseteq Agents,
         queue' \in [Agents -> Seq(Clients)], peer' \in [Agents -> Clients \cup {Nobody}],
         idle' \in [Agents -> 0..Timeout], conn' \in [Clients -> {"none", "open", "hung-up"}],
         line' \in [Clients -> Sent \cup {"nothing"}], answer' \in [Clients -> Answer],
         \A b \in Agents : peer'[b] # Nobody <=> phase'[b] = "recv"
  PROVE  TypeOK'
BY DEF TypeOK

\* Starting, waiting and the removal of the socket leave every connection where it is.
LEMMA QuietPlaces ==
  ASSUME PlaceInv, NEW a \in Agents,
         Start(a) \/ Bind(a) \/ BindRaises(a) \/ Tick(a) \/ IdleTimeout(a) \/ Unlink(a)
  PROVE  PlaceInv'
<1>1. /\ UNCHANGED <<queue, peer, conn, line, answer>>
      /\ socket' \in Agents \cup {Nobody} /\ unlocked' \subseteq Agents /\ lockFlag' \subseteq Agents
  BY DEF PlaceInv, TypeOK, Start, Bind, BindRaises, Tick, IdleTimeout, Unlink, clients
<1>2. idle' \in [Agents -> 0..Timeout]
  BY AgentAssumption DEF PlaceInv, TypeOK, Start, Bind, BindRaises, Tick, IdleTimeout, Unlink
<1>3. PICK p : Moves(a, p) /\ p # "recv" /\ phase[a] # "recv"
               /\ (phase[a] \in Listening => p \in Listening)
  <2>1. \A b \in Agents : b # a => queue'[b] = queue[b] /\ peer'[b] = peer[b]
    BY <1>1
  <2>2. CASE Tick(a)
    <3>1. phase[a] = "accept" /\ Go(a, "accept")
      BY <2>2 DEF Tick, Go, PlaceInv, TypeOK
    <3> QED
      BY <2>1, <3>1 DEF Moves, Phase, Listening
  <2>3. CASE Start(a)
    BY <2>1, <2>3 DEF Start, Moves, Phase, Listening
  <2>4. CASE Bind(a)
    BY <2>1, <2>4 DEF Bind, Moves, Phase, Listening
  <2>5. CASE BindRaises(a)
    BY <2>1, <2>5 DEF BindRaises, Moves, Phase, Listening
  <2>6. CASE IdleTimeout(a)
    BY <2>1, <2>6 DEF IdleTimeout, Moves, Phase, Listening
  <2>7. CASE Unlink(a)
    BY <2>1, <2>7 DEF Unlink, Moves, Phase, Listening
  <2> QED
    BY <2>2, <2>3, <2>4, <2>5, <2>6, <2>7
<1>4. /\ phase' \in [Agents -> Phase] /\ phase'[a] = p
      /\ \A b \in Agents : b # a => phase'[b] = phase[b] /\ QueueIs(b)'
  BY <1>3, Moved
<1>5. \A b \in Agents, c \in Clients : Holds(b, c)' <=> Holds(b, c)
  BY <1>1 DEF Holds, Dropped
<1>6. WaitsForOneAgent'
  <2>1. Closes({})
    BY <1>1, <1>3, <1>4, <1>5 DEF Closes
  <2> QED
    BY <2>1, ClosesKeepsWaits DEF PlaceInv
<1>7. TypeOK'
  <2>1. \A b \in Agents : peer'[b] # Nobody <=> phase'[b] = "recv"
    BY <1>1, <1>3, <1>4 DEF PlaceInv, TypeOK
  <2> QED
    BY <1>1, <1>2, <1>4, <2>1 DEF PlaceInv, TypeOK
<1>8. QueueIs(a)'
  BY <1>1, <1>3, <1>4 DEF PlaceInv, QueueIs, Dropped
<1> QED
  BY <1>4, <1>6, <1>7, <1>8 DEF PlaceInv

LEMMA AcceptPlaces == ASSUME PlaceInv, NEW a \in Agents, Accept(a) PROVE PlaceInv'
<1> DEFINE q == queue[a]
<1>1. /\ phase[a] = "accept" /\ q # <<>> /\ Go(a, "recv")
      /\ peer' = [peer EXCEPT ![a] = Head(q)] /\ queue' = [queue EXCEPT ![a] = Tail(q)]
      /\ UNCHANGED <<socket, unlocked, lockFlag, idle, conn, line, answer>>
  BY DEF Accept, clients
<1>2. /\ q \in Seq(Clients) /\ Len(q) \in Nat /\ peer[a] = Nobody
      /\ \A i, j \in 1..Len(q) : q[i] = q[j] => i = j
  BY <1>1 DEF PlaceInv, TypeOK, QueueIs
<1>3. peer'[a] = Head(q) /\ queue'[a] = Tail(q)
  BY <1>1 DEF PlaceInv, TypeOK
<1> HIDE DEF q
<1>4. /\ Head(q) \in Clients /\ Head(q) = q[1] /\ Len(q) > 0
      /\ Tail(q) \in Seq(Clients) /\ Len(Tail(q)) = Len(q) - 1
      /\ \A i \in 1..Len(q) - 1 : Tail(q)[i] = q[i + 1]
  BY <1>1, <1>2, HeadTailProperties, EmptySeq
<1>5. Moves(a, "recv")
  BY <1>1 DEF Moves, Phase, PlaceInv, TypeOK
<1>6. /\ phase' \in [Agents -> Phase] /\ phase'[a] = "recv"
      /\ \A b \in Agents : b # a => /\ phase'[b] = phase[b] /\ QueueIs(b)'
                                    /\ \A c : Holds(b, c)' <=> Holds(b, c)
  BY <1>5, Moved
<1>7. \A c : Dropped(a, c)' <=> Dropped(a, c) /\ c # Head(q)
  <2>1. \A c : Dropped(a, c)' <=> \E i \in 1..Len(q) - 1 : q[i + 1] = c
    BY <1>3, <1>4 DEF Dropped
  <2>2. \A c : Dropped(a, c) <=> \E i \in 1..Len(q) : q[i] = c
    BY DEF Dropped, q
  <2>3. \A i \in 1..Len(q) - 1 : i + 1 \in 1..Len(q) /\ i + 1 # 1
    BY <1>2
  <2>4. \A i \in 1..Len(q) : i # 1 => i - 1 \in 1..Len(q) - 1 /\ (i - 1) + 1 = i
    BY <1>2
  <2>5. 1 \in 1..Len(q)
    BY <1>2, <1>4
  <2>6. \A c : Dropped(a, c)' => Dropped(a, c) /\ c # Head(q)
    BY <1>2, <1>4, <2>1, <2>2, <2>3, <2>5
  <2>7. \A c : Dropped(a, c) /\ c # Head(q) => Dropped(a, c)'
    BY <1>4, <2>1, <2>2, <2>4
  <2> QED
    BY <2>6, <2>7
<1>8. Dropped(a, Head(q))
  BY <1>2, <1>4 DEF Dropped, q
<1>9. \A c \in Clients : Holds(a, c)' <=> Holds(a, c)
  BY <1>2, <1>3, <1>7, <1>8, AgentAssumption DEF Holds
<1>10. WaitsForOneAgent'
  <2>1. \A b \in Agents, c \in Clients : Holds(b, c)' <=> Holds(b, c)
    BY <1>6, <1>9
  <2>2. Closes({})
    BY <1>1, <1>6, <2>1 DEF Closes, Listening
  <2> QED
    BY <2>2, ClosesKeepsWaits DEF PlaceInv
<1>11. QueueIs(a)'
  <2>1. phase'[a] \in Listening
    BY <1>6 DEF Listening
  <2>2. \A i, j \in 1..Len(q) - 1 : q[i + 1] = q[j + 1] => i = j
    BY <1>2
  <2>3. \A i, j \in 1..Len(queue'[a]) : queue'[a][i] = queue'[a][j] => i = j
    BY <1>3, <1>4, <2>2
  <2> QED
    BY <1>3, <1>7, <2>1, <2>3 DEF QueueIs
<1>12. TypeOK'
  <2>1. \A b \in Agents : peer'[b] # Nobody <=> phase'[b] = "recv"
    BY <1>1, <1>3, <1>4, <1>6, AgentAssumption DEF PlaceInv, TypeOK
  <2>2. peer' \in [Agents -> Clients \cup {Nobody}] /\ queue' \in [Agents -> Seq(Clients)]
    BY <1>1, <1>4 DEF PlaceInv, TypeOK
  <2>3. /\ socket' \in Agents \cup {Nobody} /\ unlocked' \subseteq Agents
        /\ lockFlag' \subseteq Agents /\ idle' \in [Agents -> 0..Timeout]
        /\ conn' \in [Clients -> {"none", "open", "hung-up"}]
        /\ line' \in [Clients -> Sent \cup {"nothing"}] /\ answer' \in [Clients -> Answer]
    BY <1>1 DEF PlaceInv, TypeOK
  <2> QED
    BY <1>6, <2>1, <2>2, <2>3, KeepsTypes
<1> QED
  BY <1>6, <1>10, <1>11, <1>12 DEF PlaceInv

\* The connection that was served is closed, whether the loop goes on or not.
LEMMA ServedPlaces ==
  ASSUME PlaceInv, NEW a \in Agents, Recv(a) \/ RecvRaises(a) \/ RecvNothing(a)
  PROVE  PlaceInv'
<1> DEFINE c == peer[a]
<1>1. /\ phase[a] = "recv" /\ c \in Clients
      /\ \E next \in {"accept", "finally"} : Served(a, next)
  BY DEF Recv, RecvRaises, RecvNothing, PlaceInv, TypeOK
<1>2. PICK next \in {"accept", "finally"} : Served(a, next)
  BY <1>1
<1>3. /\ Go(a, next) /\ peer' = [peer EXCEPT ![a] = Nobody]
      /\ idle' = [idle EXCEPT ![a] = 0] /\ conn' = [conn EXCEPT ![c] = "none"]
      /\ line' = [line EXCEPT ![c] = "nothing"] /\ UNCHANGED <<socket, unlocked, queue>>
  BY <1>2 DEF Served
<1>4. lockFlag' \subseteq Agents /\ answer' \in [Clients -> Answer]
  <2>1. \A l : Handle(a, l) \in Answer
    BY DEF Handle, Answer
  <2>2. lockFlag' = lockFlag \/ lockFlag' = lockFlag \cup {a}
    BY DEF Recv, RecvRaises, RecvNothing
  <2>3. answer' = answer \/ \E x \in Answer : answer' = [answer EXCEPT ![c] = x]
    <3>1. CASE Recv(a)
      BY <2>1, <3>1 DEF Recv
    <3>2. CASE RecvRaises(a)
      BY <3>2 DEF RecvRaises, Answer
    <3>3. CASE RecvNothing(a)
      BY <3>3 DEF RecvNothing
    <3> QED
      BY <3>1, <3>2, <3>3
  <2>4. answer' \in [Clients -> Answer]
    BY <2>3 DEF PlaceInv, TypeOK
  <2> QED
    BY <2>2, <2>4 DEF PlaceInv, TypeOK
<1>5. peer'[a] = Nobody /\ Moves(a, next)
  BY <1>3 DEF Moves, Phase, PlaceInv, TypeOK
<1> HIDE DEF c
<1>6. /\ phase' \in [Agents -> Phase] /\ phase'[a] = next
      /\ \A b \in Agents : b # a => /\ phase'[b] = phase[b] /\ QueueIs(b)'
                                    /\ \A d : Holds(b, d)' <=> Holds(b, d)
  BY <1>5, Moved
<1>7. /\ \A d : Dropped(a, d)' <=> Dropped(a, d)
      /\ ~Dropped(a, c) /\ \A b \in Agents : b # a => ~Holds(b, c)
  <2>1. ~Dropped(a, c)
    BY DEF PlaceInv, QueueIs, c
  <2>2. Holds(a, c)
    BY DEF Holds, c
  <2> QED
    BY <1>1, <1>3, <2>1, <2>2 DEF Dropped, PlaceInv, WaitsForOneAgent
<1>8. \A b \in Agents, d \in Clients : Holds(b, d)' <=> Holds(b, d) /\ d \notin {c}
  <2>1. \A d \in Clients : Holds(a, d)' <=> Holds(a, d) /\ d \notin {c}
    BY <1>5, <1>7, AgentAssumption DEF Holds, c
  <2> QED
    BY <1>6, <1>7, <2>1
<1>9. conn' \in [Clients -> {"none", "open", "hung-up"}] /\ line' \in [Clients -> Sent \cup {"nothing"}]
      /\ \A d \in Clients : conn'[d] # "none" <=> conn[d] # "none" /\ d \notin {c}
  BY <1>1, <1>3 DEF PlaceInv, TypeOK
<1>10. WaitsForOneAgent'
  <2>1. Closes({c})
    BY <1>1, <1>6, <1>8, <1>9 DEF Closes, Listening
  <2> QED
    BY <2>1, ClosesKeepsWaits DEF PlaceInv
<1>11. QueueIs(a)'
  <2>1. ~Dropped(a, Nobody)
    <3>1. queue[a] \in Seq(Clients)
      BY DEF PlaceInv, TypeOK
    <3> QED
      BY <3>1, AgentAssumption DEF Dropped
  <2>2. ~Dropped(a, peer[a])'
    BY <1>5, <1>7, <2>1 DEF Dropped
  <2>3. phase'[a] \in Listening
    BY <1>6 DEF Listening
  <2> QED
    BY <1>3, <2>2, <2>3 DEF QueueIs, PlaceInv
<1>12. TypeOK'
  <2>1. \A b \in Agents : peer'[b] # Nobody <=> phase'[b] = "recv"
    BY <1>3, <1>5, <1>6 DEF PlaceInv, TypeOK
  <2>2. /\ peer' \in [Agents -> Clients \cup {Nobody}] /\ idle' \in [Agents -> 0..Timeout]
        /\ queue' \in [Agents -> Seq(Clients)] /\ socket' \in Agents \cup {Nobody}
        /\ unlocked' \subseteq Agents
    BY <1>3, AgentAssumption DEF PlaceInv, TypeOK
  <2> QED
    BY <1>4, <1>6, <1>9, <2>1, <2>2, KeepsTypes
<1> QED
  BY <1>6, <1>10, <1>11, <1>12 DEF PlaceInv

\* An agent that ends drops whoever it holds.
LEMMA StopPlaces ==
  ASSUME PlaceInv, NEW a \in Agents, Finally(a) \/ Kill(a) PROVE PlaceInv'
<1> DEFINE gone == {c \in Clients : Holds(a, c)}
<1>1. /\ HangUpOn(gone) /\ queue' = [queue EXCEPT ![a] = <<>>] /\ peer'[a] = Nobody
      /\ UNCHANGED <<socket, lockFlag, idle>> /\ unlocked' = unlocked \ {a}
      /\ peer' \in [Agents -> Clients \cup {Nobody}]
      /\ \A b \in Agents : b # a => peer'[b] = peer[b]
  <2>1. CASE Finally(a)
    <3>1. peer[a] = Nobody
      BY <2>1 DEF Finally, PlaceInv, TypeOK
    <3>2. gone = {c \in Clients : Dropped(a, c)}
      BY <3>1, AgentAssumption DEF Holds
    <3> QED
      BY <2>1, <3>1, <3>2 DEF Finally, PlaceInv, TypeOK
  <2>2. CASE Kill(a)
    <3>1. gone = {c \in Clients : Dropped(a, c) \/ peer[a] = c}
      BY DEF Holds
    <3> QED
      BY <2>2, <3>1 DEF Kill, PlaceInv, TypeOK
  <2> QED
    BY <2>1, <2>2
<1> HIDE DEF gone
<1>2. PICK p \in {"unlinking", "off"} : Moves(a, p)
  <2>1. \E p \in {"unlinking", "off"} : Go(a, p)
    BY DEF Finally, Kill
  <2> QED
    BY <1>1, <2>1 DEF Moves, Phase, PlaceInv, TypeOK
<1>3. /\ phase' \in [Agents -> Phase] /\ phase'[a] = p
      /\ \A b \in Agents : b # a => /\ phase'[b] = phase[b] /\ QueueIs(b)'
                                    /\ \A d : Holds(b, d)' <=> Holds(b, d)
  BY <1>2, Moved
<1>4. queue'[a] = <<>> /\ queue' \in [Agents -> Seq(Clients)]
  BY <1>1 DEF PlaceInv, TypeOK
<1>5. /\ \A c : ~Dropped(a, c)'
      /\ \A i, j \in 1..Len(queue'[a]) : queue'[a][i] = queue'[a][j] => i = j
  <2>1. Len(queue'[a]) = 0
    BY <1>4
  <2>2. 1..Len(queue'[a]) = {}
    BY <2>1
  <2> QED
    BY <2>2 DEF Dropped
<1>6. \A b \in Agents, d \in Clients : Holds(b, d)' <=> Holds(b, d) /\ d \notin gone
  <2>1. \A d \in Clients : ~Holds(a, d)' /\ (Holds(a, d) <=> d \in gone)
    BY <1>1, <1>5, AgentAssumption DEF Holds, gone
  <2>2. \A b \in Agents, d \in Clients : Holds(a, d) /\ Holds(b, d) => a = b
    BY DEF PlaceInv, WaitsForOneAgent
  <2> QED
    BY <1>3, <2>1, <2>2
<1>7. /\ conn' \in [Clients -> {"none", "open", "hung-up"}]
      /\ line' \in [Clients -> Sent \cup {"nothing"}] /\ answer' \in [Clients -> Answer]
      /\ \A d \in Clients : conn'[d] # "none" <=> conn[d] # "none" /\ d \notin gone
  BY <1>1 DEF HangUpOn, PlaceInv, TypeOK, Answer
<1>8. WaitsForOneAgent'
  <2>1. \A c \in Clients : Holds(a, c) => c \in gone
    BY DEF gone
  <2>2. Closes(gone)
    BY <1>3, <1>6, <1>7, <2>1 DEF Closes
  <2> QED
    BY <2>2, ClosesKeepsWaits DEF PlaceInv
<1>9. QueueIs(a)'
  BY <1>4, <1>5 DEF QueueIs
<1>10. TypeOK'
  <2>1. \A b \in Agents : peer'[b] # Nobody <=> phase'[b] = "recv"
    BY <1>1, <1>3 DEF PlaceInv, TypeOK
  <2>2. /\ idle' \in [Agents -> 0..Timeout] /\ socket' \in Agents \cup {Nobody}
        /\ unlocked' \subseteq Agents /\ lockFlag' \subseteq Agents
    BY <1>1 DEF PlaceInv, TypeOK
  <2> QED
    BY <1>1, <1>3, <1>4, <1>7, <2>1, <2>2, KeepsTypes
<1> QED
  BY <1>3, <1>8, <1>9, <1>10 DEF PlaceInv

\* A client that connects had no connection, and gets the last place of one queue.
LEMMA ConnectPlaces == ASSUME PlaceInv, NEW c \in Clients, Connect(c) PROVE PlaceInv'
<1>0. PICK a \in Agents : a = socket
  BY AgentAssumption DEF Connect, PlaceInv, TypeOK
<1> DEFINE q == queue[a]
<1>1. /\ conn[c] = "none" /\ phase[a] \in Listening
      /\ conn' = [conn EXCEPT ![c] = "open"] /\ answer' = [answer EXCEPT ![c] = "none"]
      /\ queue' = [queue EXCEPT ![a] = Append(q, c)]
      /\ UNCHANGED <<socket, phase, unlocked, lockFlag, peer, idle, line>>
  BY <1>0 DEF Connect, PlaceInv, TypeOK
<1>2. q \in Seq(Clients) /\ Len(q) \in Nat /\ \A i, j \in 1..Len(q) : q[i] = q[j] => i = j
  BY <1>1 DEF PlaceInv, TypeOK, QueueIs
<1>3. \A b \in Agents : ~Holds(b, c)
  BY <1>1 DEF PlaceInv, WaitsForOneAgent
<1>4. \A d : Dropped(a, d) <=> \E i \in 1..Len(q) : q[i] = d
  BY DEF Dropped
<1>5. queue'[a] = Append(q, c) /\ \A b \in Agents : b # a => queue'[b] = queue[b]
  BY <1>1 DEF PlaceInv, TypeOK
<1> HIDE DEF q
<1>6. /\ Append(q, c) \in Seq(Clients) /\ Len(Append(q, c)) = Len(q) + 1
      /\ \A i \in 1..Len(q) : Append(q, c)[i] = q[i]
      /\ Append(q, c)[Len(q) + 1] = c
  BY <1>2, AppendProperties
<1>7. \A i \in 1..Len(q) + 1 : i \in 1..Len(q) \/ i = Len(q) + 1
  BY <1>2
<1>8. \A d : Dropped(a, d)' <=> Dropped(a, d) \/ d = c
  <2>1. \A d : Dropped(a, d)' <=> \E i \in 1..Len(q) + 1 : Append(q, c)[i] = d
    BY <1>1, <1>5, <1>6 DEF Dropped
  <2>2. Len(q) + 1 \in 1..Len(q) + 1 /\ \A i \in 1..Len(q) : i \in 1..Len(q) + 1
    BY <1>2
  <2> QED
    BY <1>4, <1>6, <1>7, <2>1, <2>2
<1>9. \A b \in Agents, d \in Clients : Holds(b, d)' <=> Holds(b, d) \/ (b = a /\ d = c)
  <2>1. \A b \in Agents, d \in Clients : b # a => (Dropped(b, d)' <=> Dropped(b, d))
    BY <1>5 DEF Dropped
  <2>2. \A b \in Agents, d \in Clients : Holds(b, d)' <=> Dropped(b, d)' \/ peer[b] = d
    BY <1>1 DEF Holds
  <2>3. ASSUME NEW b \in Agents, NEW d \in Clients
        PROVE  Holds(b, d)' <=> Holds(b, d) \/ (b = a /\ d = c)
    <3>1. CASE b = a
      <4>1. Dropped(b, d)' <=> Dropped(b, d) \/ d = c
        BY <1>8, <3>1
      <4> QED
        BY <2>2, <3>1, <4>1 DEF Holds
    <3>2. CASE b # a
      BY <2>1, <2>2, <3>2 DEF Holds
    <3> QED
      BY <3>1, <3>2
  <2> QED
    BY <2>3
<1>10. /\ conn' \in [Clients -> {"none", "open", "hung-up"}] /\ answer' \in [Clients -> Answer]
       /\ conn'[c] # "none" /\ \A d \in Clients : d # c => conn'[d] = conn[d]
  BY <1>1 DEF PlaceInv, TypeOK, Answer
<1>11. WaitsForOneAgent'
  <2>1. ASSUME NEW d \in Clients, conn'[d] # "none"
        PROVE  \E b \in Agents : phase'[b] \in Listening /\ Holds(b, d)'
    <3>1. CASE d = c
      BY <1>1, <1>9, <3>1
    <3>2. CASE d # c
      <4>1. PICK b \in Agents : phase[b] \in Listening /\ Holds(b, d)
        BY <1>10, <2>1, <3>2 DEF PlaceInv, WaitsForOneAgent
      <4> QED
        BY <1>1, <1>9, <4>1
    <3> QED
      BY <3>1, <3>2
  <2>2. ASSUME NEW d \in Clients, NEW b \in Agents, NEW e \in Agents, Holds(b, d)', Holds(e, d)'
        PROVE  b = e /\ conn'[d] # "none"
    <3>1. CASE d = c
      BY <1>3, <1>9, <1>10, <2>2, <3>1
    <3>2. CASE d # c
      <4>1. Holds(b, d) /\ Holds(e, d)
        BY <1>9, <2>2, <3>2
      <4> QED
        BY <1>10, <3>2, <4>1 DEF PlaceInv, WaitsForOneAgent
    <3> QED
      BY <3>1, <3>2
  <2> QED
    BY <2>1, <2>2 DEF WaitsForOneAgent
<1>12. \A b \in Agents : QueueIs(b)'
  <2>1. \A b \in Agents : b # a => QueueIs(b)'
    BY <1>1, <1>5 DEF PlaceInv, QueueIs, Dropped
  <2>2. \A i \in 1..Len(q) : q[i] # c
    BY <1>1, <1>3, <1>4 DEF Holds
  <2>3. \A i, j \in 1..Len(q) + 1 : Append(q, c)[i] = Append(q, c)[j] => i = j
    BY <1>2, <1>6, <1>7, <2>2
  <2>4. ~Dropped(a, peer[a])'
    <3>1. peer[a] # c /\ ~Dropped(a, peer[a])
      BY <1>1, <1>3 DEF Holds, PlaceInv, QueueIs
    <3>2. ~Dropped(a, peer[a]) /\ peer' = peer
      BY <1>1, <3>1
    <3> QED
      BY <1>5, <1>6, <1>8, <3>1, <3>2 DEF Dropped
  <2>5. QueueIs(a)'
    BY <1>1, <1>5, <1>6, <2>3, <2>4 DEF QueueIs
  <2> QED
    BY <2>1, <2>5
<1>13. TypeOK'
  <2>1. queue' \in [Agents -> Seq(Clients)]
    BY <1>1, <1>6 DEF PlaceInv, TypeOK
  <2> QED
    BY <1>1, <1>10, <2>1 DEF PlaceInv, TypeOK
<1> QED
  BY <1>11, <1>12, <1>13 DEF PlaceInv

\* A client that sends a line or closes its end moves nowhere.
LEMMA ClientPlaces == ASSUME PlaceInv, NEW c \in Clients, Client(c) PROVE PlaceInv'
<1>1. UNCHANGED server /\ UNCHANGED answer
  BY DEF Client, HangUp, Send
<1>2. UNCHANGED <<socket, phase, unlocked, lockFlag, queue, peer, idle, answer>>
  BY <1>1 DEF server
<1>3. /\ conn' \in [Clients -> {"none", "open", "hung-up"}]
      /\ line' \in [Clients -> Sent \cup {"nothing"}]
      /\ \A d \in Clients : conn'[d] # "none" <=> conn[d] # "none"
  <2>1. CASE HangUp(c)
    BY <2>1 DEF HangUp, PlaceInv, TypeOK
  <2>2. CASE \E l \in Sent : Send(c, l)
    BY <2>2 DEF Send, PlaceInv, TypeOK
  <2> QED
    BY <2>1, <2>2 DEF Client
<1>4. WaitsForOneAgent'
  <2>1. Closes({})
    BY <1>2, <1>3 DEF Closes, Holds, Dropped
  <2> QED
    BY <2>1, ClosesKeepsWaits DEF PlaceInv
<1>5. TypeOK' /\ \A a \in Agents : QueueIs(a)'
  BY <1>2, <1>3 DEF PlaceInv, TypeOK, QueueIs, Dropped
<1> QED
  BY <1>4, <1>5 DEF PlaceInv

LEMMA StepKeepsPlaces == PlaceInv /\ [Next]_vars => PlaceInv'
<1> SUFFICES ASSUME PlaceInv, [Next]_vars PROVE PlaceInv'
  OBVIOUS
<1>1. ASSUME NEW a \in Agents, Agent(a) \/ Start(a) \/ Kill(a) PROVE PlaceInv'
  BY <1>1, QuietPlaces, AcceptPlaces, ServedPlaces, StopPlaces DEF Agent
<1>2. ASSUME NEW c \in Clients, Connect(c) \/ Client(c) PROVE PlaceInv'
  BY <1>2, ConnectPlaces, ClientPlaces
<1>3. CASE UNCHANGED vars
  BY <1>3 DEF vars, PlaceInv, TypeOK, WaitsForOneAgent, Holds, Dropped, QueueIs
<1> QED
  BY <1>1, <1>2, <1>3 DEF Next

-----------------------------------------------------------------------------
\* However serve() ends, and whoever else serves on the same path, an agent that
\* has stopped holds no vault open, and one told to lock accepts nobody (serve).
THEOREM StoppedIsLocked == Spec => []EndsLocked
<1>1. LockInv => EndsLocked
  BY DEF LockInv
<1> QED
  BY <1>1, LockInit, StepKeepsLock, PTL DEF Spec

\* However many agents are started on the one path, killed or locked, whoever is
\* connected waits for exactly one, which still listens: no connection is held by an
\* agent that has stopped, nor by two, nor left open by one that served it (serve).
THEOREM OneAgentEach == Spec => []WaitsForOneAgent
<1>1. PlaceInv => WaitsForOneAgent
  BY DEF PlaceInv
<1> QED
  BY <1>1, PlaceInit, StepKeepsPlaces, PTL DEF Spec
=============================================================================
