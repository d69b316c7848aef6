-------------------------- MODULE WebSocketRooms --------------------------
(***************************************************************************)
(* WebSocket connections: the Manager of internal/websocket/manager.go,    *)
(* one readPump goroutine per connection (handler.go), and the event loop  *)
(* of php-sdk/src/WebSocket/Server.php at the other end of phpForward.     *)
(*                                                                         *)
(* Manager.mu guards clients and rooms; the frames for PHP and the writes  *)
(* to clients are sent outside it, and their errors are only logged.       *)
(* A connection id is random and used once, so Conn names the connections  *)
(* of a behaviour.  phpForward is set by the embedding program: it hands   *)
(* a frame to the PHP server, which handles one at a time, or fails.       *)
(* JoinRoom, LeaveRoom and Broadcast are called by that program too.       *)
(* A peer whose socket is full makes a write wait (no deadline is set).    *)
(***************************************************************************)
EXTENDS Naturals, Sequences, SequencesExt, FiniteSets

CONSTANTS
    Conn,         \* connections
    Room,         \* names of rooms
    Program,      \* the goroutine of the embedding program
    MaxMessages,  \* bound: how many messages a connection sends
    MaxCalls,     \* bound: how many calls of Broadcast
    ForwardFails  \* can phpForward return an error?

ASSUME WebSocketConfig ==
    /\ IsFiniteSet(Conn) /\ Program \notin Conn
    /\ MaxMessages \in Nat /\ MaxCalls \in Nat /\ ForwardFails \in BOOLEAN

VARIABLES
    \* Manager
    clients,      \* m.clients
    rooms,        \* m.rooms: the rooms with an entry, and their members
    clientRooms,  \* client.Rooms
    \* goroutines
    pump,         \* where the goroutine of each connection is
    job,          \* by goroutine, the copied clients it has still to write to
    \* the peers
    peer,         \* open, stuck (does not read) or gone
    sent,         \* how many messages each has sent, and calls of Broadcast
    \* WebSocket\Server of the PHP SDK
    connections,  \* $this->connections
    events,       \* history: the events PHP has handled, by connection
    lost          \* history: the connections of which an event was lost

managerVars == <<clients, rooms, clientRooms>>
phpVars == <<connections, events, lost>>
vars == <<managerVars, pump, job, peer, sent, phpVars>>

Goroutine == Conn \cup {Program}
Members(r) == IF r \in DOMAIN rooms THEN rooms[r] ELSE {}

\* rooms with the members of r set to s; a room without members is deleted.
SetMembers(r, s) ==
    [q \in IF s = {} THEN DOMAIN rooms \ {r} ELSE DOMAIN rooms \cup {r} |->
        IF q = r THEN s ELSE rooms[q]]

Init ==
    /\ clients = {} /\ rooms = [r \in {} |-> {}]
    /\ clientRooms = [c \in Conn |-> {}]
    /\ pump = [c \in Conn |-> "new"]
    /\ job = [g \in Goroutine |-> <<>>]
    /\ peer = [c \in Conn |-> "open"]
    /\ sent = [g \in Goroutine |-> 0]
    /\ connections = {}
    /\ events = [c \in Conn |-> <<>>] /\ lost = {}

-----------------------------------------------------------------------------
(* The goroutine of a connection: ServeHTTP, then readPump.                *)

\* Upgrade, and the first half of AddConnection.
AddConnection(c) ==
    /\ pump[c] = "new"
    /\ clients' = clients \cup {c}
    /\ pump' = [pump EXCEPT ![c] = "connect"]
    /\ UNCHANGED <<rooms, clientRooms, job, peer, sent, phpVars>>

\* Mutant: the connection stays in the table after its close.
HandleKept(c, event) ==
    /\ connections' = IF event = "connect" THEN connections \cup {c}
                      ELSE connections
    /\ events' = [events EXCEPT ![c] = Append(@, event)]
    /\ UNCHANGED lost

\* Server::handleStream: the event reaches PHP.
Handle(c, event) ==
    /\ connections' = CASE event = "connect" -> connections \cup {c}
                        [] event = "message" -> connections
                        [] event = "close" -> connections \ {c}
    /\ events' = [events EXCEPT ![c] = Append(@, event)]
    /\ UNCHANGED lost

\* phpForward of the event the goroutine is at: PHP handles it, or it is lost.
Forward(c) ==
    Handle(c, pump[c]) \/ (ForwardFails /\ lost' = lost \cup {c}
                           /\ UNCHANGED <<connections, events>>)

\* The error of a connect or a close is not even looked at.
ForwardConnect(c) ==
    /\ pump[c] = "connect"
    /\ Forward(c)
    /\ pump' = [pump EXCEPT ![c] = "read"]
    /\ UNCHANGED <<managerVars, job, peer, sent>>

ForwardClose(c) ==
    /\ pump[c] = "close"
    /\ Forward(c)
    /\ pump' = [pump EXCEPT ![c] = "done"]
    /\ UNCHANGED <<managerVars, job, peer, sent>>

\* Mutant: the read loop is started before AddConnection has returned.
ReadMessageEarly(c) ==
    /\ pump[c] \in {"connect", "read"} /\ job[c] = <<>>
    /\ peer[c] # "gone" /\ sent[c] < MaxMessages
    /\ sent' = [sent EXCEPT ![c] = @ + 1]
    /\ pump' = [pump EXCEPT ![c] = "message"]
    /\ UNCHANGED <<managerVars, job, peer, phpVars>>

\* ReadMessage: the next message of the peer.
ReadMessage(c) ==
    /\ pump[c] = "read" /\ job[c] = <<>>
    /\ peer[c] # "gone" /\ sent[c] < MaxMessages
    /\ sent' = [sent EXCEPT ![c] = @ + 1]
    /\ pump' = [pump EXCEPT ![c] = "message"]
    /\ UNCHANGED <<managerVars, job, peer, phpVars>>

\* The clients to write to, in the order in which Go walks the map.
Copied(g, to) == \E order \in SetToSeqs(to) : job' = [job EXCEPT ![g] = order]

\* HandleMessage: if PHP answers with a stream frame, its header says whom the
\* data is for, a room before a connection; BroadcastToRoom copies the members,
\* SendToClient looks the client up.
HandleMessage(c) ==
    /\ pump[c] = "message"
    /\ \/ /\ Handle(c, "message")
          /\ \E to \in {{}} \cup {Members(r) : r \in Room}
                            \cup {{d} : d \in clients} : Copied(c, to)
       \/ /\ ForwardFails /\ lost' = lost \cup {c}
          /\ UNCHANGED <<connections, events, job>>
    /\ pump' = [pump EXCEPT ![c] = "read"]
    /\ UNCHANGED <<managerVars, peer, sent>>

\* Mutant: a write to a peer that is gone waits too.
SendWaits(g) ==
    /\ job[g] # <<>>
    /\ peer[Head(job[g])] = "open"
    /\ job' = [job EXCEPT ![g] = Tail(@)]
    /\ UNCHANGED <<managerVars, pump, peer, sent, phpVars>>

\* c.Send for the next of the copied clients: a write waits for a peer that is
\* stuck and fails for one that is gone.
Send(g) ==
    /\ job[g] # <<>>
    /\ peer[Head(job[g])] # "stuck"
    /\ job' = [job EXCEPT ![g] = Tail(@)]
    /\ UNCHANGED <<managerVars, pump, peer, sent, phpVars>>

\* Mutant: the connection is not taken out of its rooms.
RemoveConnectionOnly(c) ==
    /\ pump[c] = "read" /\ job[c] = <<>>
    /\ peer[c] = "gone"
    /\ clients' = clients \ {c}
    /\ pump' = [pump EXCEPT ![c] = "close"]
    /\ UNCHANGED <<rooms, clientRooms, job, peer, sent, phpVars>>

\* ReadMessage fails: the deferred RemoveConnection, up to its unlock.
RemoveConnection(c) ==
    /\ pump[c] = "read" /\ job[c] = <<>>
    /\ peer[c] = "gone"
    /\ clients' = clients \ {c}
    /\ LET remaining(r) == rooms[r] \ (IF r \in clientRooms[c] THEN {c} ELSE {})
       IN  rooms' = [r \in {q \in DOMAIN rooms : remaining(q) # {}} |-> remaining(r)]
    /\ pump' = [pump EXCEPT ![c] = "close"]
    /\ UNCHANGED <<clientRooms, job, peer, sent, phpVars>>

-----------------------------------------------------------------------------
(* Calls of the embedding program, and the peers.                          *)

\* Mutant: the keys of the two maps are swapped.
JoinRoomSwapped(c, r) ==
    /\ c \in clients
    /\ rooms' = SetMembers(c, Members(c) \cup {r})
    /\ clientRooms' = [clientRooms EXCEPT ![c] = @ \cup {r}]
    /\ UNCHANGED <<clients, pump, job, peer, sent, phpVars>>

JoinRoom(c, r) ==
    /\ c \in clients
    /\ rooms' = SetMembers(r, Members(r) \cup {c})
    /\ clientRooms' = [clientRooms EXCEPT ![c] = @ \cup {r}]
    /\ UNCHANGED <<clients, pump, job, peer, sent, phpVars>>

LeaveRoom(c, r) ==
    /\ c \in clients
    /\ rooms' = SetMembers(r, Members(r) \ {c})
    /\ clientRooms' = [clientRooms EXCEPT ![c] = @ \ {r}]
    /\ UNCHANGED <<clients, pump, job, peer, sent, phpVars>>

\* Broadcast to every client, but for the one that is excluded.
Broadcast ==
    /\ job[Program] = <<>> /\ sent[Program] < MaxCalls
    /\ \E exclude \in {{}} \cup {{c} : c \in Conn} :
          Copied(Program, clients \ exclude)
    /\ sent' = [sent EXCEPT ![Program] = @ + 1]
    /\ UNCHANGED <<managerVars, pump, peer, phpVars>>

\* A peer stops reading, goes on, or goes away.
Peer(c, s) ==
    /\ pump[c] # "new"
    /\ peer[c] \notin {"gone", s}
    /\ peer' = [peer EXCEPT ![c] = s]
    /\ UNCHANGED <<managerVars, pump, job, sent, phpVars>>

Pump(c) ==
    \/ ForwardConnect(c) \/ ForwardClose(c)
    \/ ReadMessage(c) \/ HandleMessage(c) \/ RemoveConnection(c)

Next ==
    \/ \E c \in Conn : AddConnection(c) \/ Pump(c)
    \/ \E g \in Goroutine : Send(g)
    \/ \E c \in Conn, r \in Room : JoinRoom(c, r) \/ LeaveRoom(c, r)
    \/ Broadcast
    \/ \E c \in Conn, s \in {"open", "stuck", "gone"} : Peer(c, s)

Spec == Init /\ [][Next]_vars

(***************************************************************************)
(* Fairness: goroutines are scheduled and a call of phpForward comes back. *)
(* Nothing is assumed of the peers or of the calls of the program.         *)
(***************************************************************************)
FairSpec ==
    /\ Spec
    /\ \A c \in Conn : WF_vars(Pump(c))
    /\ \A g \in Goroutine : WF_vars(Send(g))

-----------------------------------------------------------------------------
TypeOK ==
    /\ clients \subseteq Conn
    /\ DOMAIN rooms \subseteq Room /\ \A r \in DOMAIN rooms : rooms[r] \subseteq Conn
    /\ clientRooms \in [Conn -> SUBSET Room]
    /\ pump \in [Conn -> {"new", "connect", "read", "message", "close", "done"}]
    /\ job \in [Goroutine -> Seq(Conn)]
    /\ peer \in [Conn -> {"open", "stuck", "gone"}]
    /\ sent \in [Goroutine -> Nat]
    /\ {connections, lost} \subseteq SUBSET Conn
    /\ events \in [Conn -> Seq({"connect", "message", "close"})]

\* The two tables of memberships agree: a client is in a room exactly if its own
\* set says so, a room without members is gone, and so is a client that left.
RoomsMirror ==
    /\ \A r \in DOMAIN rooms : rooms[r] # {} /\ rooms[r] \subseteq clients
    /\ \A c \in clients, r \in Room : c \in Members(r) <=> r \in clientRooms[c]

\* PHP sees the life of a connection in order, although every event is sent
\* outside the lock: connect first, close last, each at most once; with a
\* lossless phpForward connect is there before any other event.
EventsInOrder ==
    \A c \in Conn :
        LET n == Len(events[c])
        IN  \A i \in 1 .. n :
              /\ events[c][i] = "connect" => i = 1
              /\ events[c][i] = "close" => i = n /\ c \notin clients
              /\ c \notin lost => events[c][1] = "connect"

\* PHP's table of connections is the manager's, but for events under way, as long
\* as no event was lost: a broadcast of PHP reaches no ghost and forgets nobody.
TablesAgree ==
    \A c \in Conn \ lost :
        pump[c] \notin {"connect", "close"} => (c \in connections <=> c \in clients)

\* A connection whose peer is gone is taken out of the manager, unless its own
\* goroutine waits to write to a peer that does not read.
DisconnectNoticed ==
    \A c \in Conn :
        (peer[c] = "gone" /\ c \in clients) ~>
            (c \notin clients \/ (job[c] # <<>> /\ peer[Head(job[c])] = "stuck"))

=============================================================================
