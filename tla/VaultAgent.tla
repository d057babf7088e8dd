----------------------------- MODULE VaultAgent -----------------------------
(***************************************************************************)
(* The agent: a process that holds an unlocked session and serves secrets  *)
(* over a Unix socket, one connection at a time, until a LOCK command, an  *)
(* exception or `timeout` seconds in accept() end its loop.  Several may   *)
(* be started on the one default socket path.                              *)
(***************************************************************************)
EXTENDS Integers, Sequences

CONSTANTS Agents, Clients, Nobody,
          Timeout,     \* seconds of the idle timeout
          Sent         \* bound: the lines that clients send

ASSUME AgentAssumption ==
  /\ Nobody \notin Agents \cup Clients
  /\ Timeout \in Nat \ {0}
  /\ Sent \subseteq {"LIST", "GET", "GET?", "CODE", "CODE?", "LOCK", "other"}

VARIABLES
  socket,      \* the agent whose bind() made the file at the path, or Nobody
  phase,       \* phase[a]: where a is in serve()
  unlocked,    \* the agents whose session holds the vault open
  lockFlag,    \* the agents whose _locked is set
  queue,       \* queue[a]: connections not yet accepted
  peer,        \* peer[a]: the connection being served, or Nobody
  idle,        \* idle[a]: seconds in the current accept()
  conn,        \* conn[c]: the connection of client c
  line,        \* line[c]: what c has sent, or "nothing"
  answer       \* answer[c]: what c got on its last connection

vars == <<socket, phase, unlocked, lockFlag, queue, peer, idle, conn, line, answer>>
server == <<socket, phase, unlocked, lockFlag, queue, peer, idle>>
clients == <<conn, line, answer>>

Phase == {"off", "binding", "accept", "recv", "finally", "unlinking"}
Listening == {"accept", "recv", "finally"}

\* GET? and CODE? are those with a name the vault does not have.
Answer == {"names", "secret", "not-found", "code", "locked", "error", "closed", "none"}

\* Every variable has its type, and an agent serves a connection while it is in recv().
TypeOK ==
  /\ socket \in Agents \cup {Nobody}
  /\ phase \in [Agents -> Phase]
  /\ unlocked \subseteq Agents
  /\ lockFlag \subseteq Agents
  /\ queue \in [Agents -> Seq(Clients)]
  /\ peer \in [Agents -> Clients \cup {Nobody}]
  /\ idle \in [Agents -> 0..Timeout]
  /\ conn \in [Clients -> {"none", "open", "hung-up"}]
  /\ line \in [Clients -> Sent \cup {"nothing"}]
  /\ answer \in [Clients -> Answer]
  /\ \A a \in Agents : peer[a] # Nobody <=> phase[a] = "recv"

Init ==
  /\ socket = Nobody
  /\ phase = [a \in Agents |-> "off"]
  /\ unlocked = {}
  /\ lockFlag = {}
  /\ queue = [a \in Agents |-> <<>>]
  /\ peer = [a \in Agents |-> Nobody]
  /\ idle = [a \in Agents |-> 0]
  /\ conn = [c \in Clients |-> "none"]
  /\ line = [c \in Clients |-> "nothing"]
  /\ answer = [c \in Clients |-> "none"]

Go(a, p) == phase' = [phase EXCEPT ![a] = p]

(***************************************************************************)
(* Starting.                                                               *)
(***************************************************************************)
\* The vault is unlocked and a socket at the path, whosever, is removed.
Start(a) ==
  /\ phase[a] = "off"
  /\ Go(a, "binding")
  /\ socket' = Nobody
  /\ unlocked' = unlocked \cup {a}
  /\ lockFlag' = lockFlag \ {a}
  /\ UNCHANGED <<queue, peer, idle, clients>>

Bind(a) ==
  /\ phase[a] = "binding"
  /\ socket = Nobody
  /\ socket' = a
  /\ Go(a, "accept")
  /\ idle' = [idle EXCEPT ![a] = 0]
  /\ UNCHANGED <<unlocked, lockFlag, queue, peer, clients>>

\* bind() raises outside the try block, and the process ends.
BindRaises(a) ==
  /\ phase[a] = "binding"
  /\ socket # Nobody
  /\ Go(a, "off")
  /\ unlocked' = unlocked \ {a}
  /\ UNCHANGED <<socket, lockFlag, queue, peer, idle, clients>>

(***************************************************************************)
(* The loop.                                                               *)
(***************************************************************************)
\* Slip: the newest connection is served first.
AcceptNewest(a) ==
  /\ phase[a] = "accept"
  /\ queue[a] # <<>>
  /\ peer' = [peer EXCEPT ![a] = queue[a][Len(queue[a])]]
  /\ queue' = [queue EXCEPT ![a] = SubSeq(@, 1, Len(@) - 1)]
  /\ Go(a, "recv")
  /\ UNCHANGED <<socket, unlocked, lockFlag, idle, clients>>

Accept(a) ==
  /\ phase[a] = "accept"
  /\ queue[a] # <<>>
  /\ peer' = [peer EXCEPT ![a] = Head(queue[a])]
  /\ queue' = [queue EXCEPT ![a] = Tail(@)]
  /\ Go(a, "recv")
  /\ UNCHANGED <<socket, unlocked, lockFlag, idle, clients>>

\* Slip: the listening socket has no timeout.
TickBlocked(a) == FALSE

Tick(a) ==
  /\ phase[a] = "accept"
  /\ queue[a] = <<>>
  /\ idle[a] < Timeout
  /\ idle' = [idle EXCEPT ![a] = @ + 1]
  /\ UNCHANGED <<socket, phase, unlocked, lockFlag, queue, peer, clients>>

IdleTimeout(a) ==
  /\ phase[a] = "accept"
  /\ queue[a] = <<>>
  /\ idle[a] = Timeout
  /\ Go(a, "finally")
  /\ UNCHANGED <<socket, unlocked, lockFlag, queue, peer, idle, clients>>

\* _handle, for what does not raise
Handle(a, l) ==
  CASE a \in lockFlag -> "locked"
    [] l = "LIST" -> "names"
    [] l = "GET" -> "secret"
    [] l = "GET?" -> "not-found"
    [] l = "CODE" -> "code"
    [] l = "LOCK" -> "locked"
    [] OTHER -> "error"

\* current_code raises EntryNotFound for an unknown name, and sendall raises
\* when the client has hung up: nothing in the loop catches either.
Raises(c) == line[c] = "CODE?" \/ conn[c] = "hung-up"

\* Slip: the accepted connection stays open.
ServedLeftOpen(a, next) ==
  /\ Go(a, next)
  /\ peer' = [peer EXCEPT ![a] = Nobody]
  /\ idle' = [idle EXCEPT ![a] = 0]
  /\ line' = [line EXCEPT ![peer[a]] = "nothing"]
  /\ UNCHANGED <<socket, unlocked, queue, conn>>

\* The accepted connection is closed and, unless the loop ends, accept() starts
\* to wait anew.
Served(a, next) ==
  /\ Go(a, next)
  /\ peer' = [peer EXCEPT ![a] = Nobody]
  /\ idle' = [idle EXCEPT ![a] = 0]
  /\ conn' = [conn EXCEPT ![peer[a]] = "none"]
  /\ line' = [line EXCEPT ![peer[a]] = "nothing"]
  /\ UNCHANGED <<socket, unlocked, queue>>

\* LOCK sets the flag before its answer is sent to a client that may have hung up.
RecvRaises(a) ==
  LET c == peer[a] IN
  /\ phase[a] = "recv"
  /\ line[c] # "nothing"
  /\ Raises(c)
  /\ Served(a, "finally")
  /\ answer' = [answer EXCEPT ![c] = "closed"]
  /\ lockFlag' = IF line[c] = "LOCK" THEN lockFlag \cup {a} ELSE lockFlag

\* Slip: the loop is left only by the timeout.
RecvForgetsLock(a) ==
  LET c == peer[a] IN
  /\ phase[a] = "recv"
  /\ line[c] # "nothing"
  /\ ~Raises(c)
  /\ Served(a, "accept")
  /\ answer' = [answer EXCEPT ![c] = Handle(a, line[c])]
  /\ lockFlag' = IF line[c] = "LOCK" THEN lockFlag \cup {a} ELSE lockFlag

Recv(a) ==
  LET c == peer[a] IN
  /\ phase[a] = "recv"
  /\ line[c] # "nothing"
  /\ ~Raises(c)
  /\ IF line[c] = "LOCK"
       THEN Served(a, "finally") /\ lockFlag' = lockFlag \cup {a}
       ELSE Served(a, "accept") /\ UNCHANGED lockFlag
  /\ answer' = [answer EXCEPT ![c] = Handle(a, line[c])]

\* recv() returns no data once the client has closed without a word; it has no
\* timeout of its own and waits for as long as the client does neither.
RecvNothing(a) ==
  /\ phase[a] = "recv"
  /\ line[peer[a]] = "nothing"
  /\ conn[peer[a]] = "hung-up"
  /\ Served(a, "accept")
  /\ UNCHANGED <<lockFlag, answer>>

(***************************************************************************)
(* Stopping: the session is locked and the listening socket closed, then   *)
(* whatever is at the path is removed.                                     *)
(***************************************************************************)
Dropped(a, c) == \E k \in 1..Len(queue[a]) : queue[a][k] = c

HangUpOn(cs) ==
  /\ conn' = [c \in Clients |-> IF c \in cs THEN "none" ELSE conn[c]]
  /\ line' = [c \in Clients |-> IF c \in cs THEN "nothing" ELSE line[c]]
  /\ answer' = [c \in Clients |-> IF c \in cs THEN "closed" ELSE answer[c]]

Finally(a) ==
  /\ phase[a] = "finally"
  /\ unlocked' = unlocked \ {a}
  /\ HangUpOn({c \in Clients : Dropped(a, c)})
  /\ queue' = [queue EXCEPT ![a] = <<>>]
  /\ Go(a, "unlinking")
  /\ UNCHANGED <<socket, lockFlag, peer, idle>>

Unlink(a) ==
  /\ phase[a] = "unlinking"
  /\ socket' = Nobody
  /\ Go(a, "off")
  /\ UNCHANGED <<unlocked, lockFlag, queue, peer, idle, clients>>

\* The process is killed: the file stays, and nobody listens on it.
Kill(a) ==
  /\ phase[a] # "off"
  /\ Go(a, "off")
  /\ unlocked' = unlocked \ {a}
  /\ HangUpOn({c \in Clients : Dropped(a, c) \/ peer[a] = c})
  /\ queue' = [queue EXCEPT ![a] = <<>>]
  /\ peer' = [peer EXCEPT ![a] = Nobody]
  /\ UNCHANGED <<socket, lockFlag, idle>>

(***************************************************************************)
(* Clients.                                                                *)
(***************************************************************************)
Connect(c) ==
  /\ conn[c] = "none"
  /\ socket # Nobody
  /\ phase[socket] \in Listening
  /\ conn' = [conn EXCEPT ![c] = "open"]
  /\ answer' = [answer EXCEPT ![c] = "none"]
  /\ queue' = [queue EXCEPT ![socket] = Append(@, c)]
  /\ UNCHANGED <<socket, phase, unlocked, lockFlag, peer, idle, line>>

Send(c, l) ==
  /\ conn[c] = "open"
  /\ line[c] = "nothing"
  /\ line' = [line EXCEPT ![c] = l]
  /\ UNCHANGED <<server, conn, answer>>

HangUp(c) ==
  /\ conn[c] = "open"
  /\ conn' = [conn EXCEPT ![c] = "hung-up"]
  /\ UNCHANGED <<server, line, answer>>

Agent(a) ==
  \/ Bind(a) \/ BindRaises(a)
  \/ Accept(a) \/ Tick(a) \/ IdleTimeout(a)
  \/ Recv(a) \/ RecvNothing(a) \/ RecvRaises(a)
  \/ Finally(a) \/ Unlink(a)

Client(c) == HangUp(c) \/ \E l \in Sent : Send(c, l)

Next ==
  \/ \E a \in Agents : Agent(a) \/ Start(a) \/ Kill(a)
  \/ \E c \in Clients : Connect(c) \/ Client(c)

Spec == Init /\ [][Next]_vars

\* The process is scheduled and its clock runs.
AgentsRun == \A a \in Agents : WF_vars(Agent(a))
FairSpec == Spec /\ AgentsRun

\* No client stays connected without sending a line or closing.
PoliteSpec == FairSpec /\ \A c \in Clients : WF_vars(Client(c))
-----------------------------------------------------------------------------
\* However serve() ends, by LOCK, by the timeout or by an exception, the session
\* is locked by the time the socket is removed; and no agent whose lock flag is
\* set accepts another connection.
EndsLocked ==
  \A a \in Agents :
    /\ phase[a] \in {"off", "unlinking"} => a \notin unlocked
    /\ a \in lockFlag => phase[a] \notin {"accept", "recv"}

Holds(a, c) == peer[a] = c \/ Dropped(a, c)

\* Whoever is connected waits for exactly one agent, which still listens: also when
\* several serve on the one path and take it from one another, when one is killed, and
\* when it ends by a LOCK, a timeout or an exception (serve, srv.close).
WaitsForOneAgent ==
  \A c \in Clients :
    /\ conn[c] # "none" => \E a \in Agents : phase[a] \in Listening /\ Holds(a, c)
    /\ \A a, b \in Agents : Holds(a, c) /\ Holds(b, c) => a = b /\ conn[c] # "none"

\* "After `timeout` idle seconds the session is locked": an agent is not left
\* with its vault open unless clients keep connecting.
IdleLocks ==
  \A a \in Agents :
    (\E c \in Clients : []<><<Connect(c)>>_vars) \/ (a \in unlocked ~> a \notin unlocked)

\* No client is kept waiting: whatever agent it has reached, and however that
\* agent ends, its connection is served or dropped.
NobodyIsLeftWaiting == \A c \in Clients : conn[c] # "none" ~> conn[c] = "none"
=============================================================================
