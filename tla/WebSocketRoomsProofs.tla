----------------------- MODULE WebSocketRoomsProofs -----------------------
(***************************************************************************)
(* The two tables of room memberships agree, and so do the tables of       *)
(* connections of Go and PHP, for any connections, rooms, numbers of       *)
(* messages and behaviour of phpForward and the peers.                     *)
(***************************************************************************)
EXTENDS WebSocketRooms, ChannelFacts, FiniteSetTheorems, TLAPS

\* What RoomsMirror needs to be inductive: the types of the tables, and that a
\* connection which is not registered yet has not joined a room.
TablesType ==
    /\ clients \subseteq Conn
    /\ DOMAIN rooms \subseteq Room
    /\ clientRooms \in [Conn -> SUBSET Room]
    /\ pump \in [Conn -> {"new", "connect", "read", "message", "close", "done"}]

\* A connection that AddConnection has not registered is in neither table.
NewIsNowhere ==
    \A c \in Conn : pump[c] = "new" => c \notin clients /\ clientRooms[c] = {}

\* The inductive invariant of RoomsMirror.
RoomsInv == TablesType /\ NewIsNowhere /\ RoomsMirror

\* What the tables look like after a call that sets the members of one room.
LEMMA SetMembersMembers ==
    ASSUME NEW r \in Room, NEW s, rooms' = SetMembers(r, s)
    PROVE  /\ Members(r)' = s
           /\ \A q \in Room : q # r => Members(q)' = Members(q)
           /\ DOMAIN rooms' \subseteq DOMAIN rooms \cup {r}
           /\ \A q \in DOMAIN rooms' : rooms'[q] = IF q = r THEN s ELSE rooms[q]
           /\ r \in DOMAIN rooms' => s # {}
BY DEF SetMembers, Members

\* AddConnection, RemoveConnection, JoinRoom and LeaveRoom are the steps that
\* change a table; every other step leaves them alone.
LEMMA AddKeeps ==
    ASSUME NEW c \in Conn, RoomsInv, AddConnection(c) PROVE RoomsInv'
BY DEF AddConnection, RoomsInv, TablesType, NewIsNowhere, RoomsMirror, Members

\* JoinRoom changes both tables under one lock, for a registered connection only.
LEMMA JoinKeeps ==
    ASSUME NEW c \in Conn, NEW r \in Room, RoomsInv, JoinRoom(c, r)
    PROVE  RoomsInv'
<1> USE DEF RoomsInv
<1> DEFINE s == Members(r) \cup {c}
<1>1. rooms' = SetMembers(r, s) /\ c \in clients
    BY DEF JoinRoom
<1> HIDE DEF s
<1>2. /\ Members(r)' = s
      /\ \A q \in Room : q # r => Members(q)' = Members(q)
      /\ DOMAIN rooms' \subseteq DOMAIN rooms \cup {r}
      /\ \A q \in DOMAIN rooms' : rooms'[q] = IF q = r THEN s ELSE rooms[q]
    BY <1>1, SetMembersMembers
<1>3. s \subseteq clients /\ s # {}
    BY <1>1 DEF s, Members, RoomsMirror
<1>4. TablesType' /\ NewIsNowhere'
    BY <1>1, <1>2 DEF JoinRoom, TablesType, NewIsNowhere
<1>5. \A q \in DOMAIN rooms' : rooms'[q] # {} /\ rooms'[q] \subseteq clients'
    BY <1>2, <1>3 DEF JoinRoom, RoomsMirror
<1>6. \A d \in clients', q \in Room : d \in Members(q)' <=> q \in clientRooms'[d]
    BY <1>1, <1>2 DEF JoinRoom, RoomsMirror, TablesType, s
<1> QED
    BY <1>4, <1>5, <1>6 DEF RoomsMirror

\* LeaveRoom changes both tables and drops a room that it empties.
LEMMA LeaveKeeps ==
    ASSUME NEW c \in Conn, NEW r \in Room, RoomsInv, LeaveRoom(c, r)
    PROVE  RoomsInv'
<1> USE DEF RoomsInv
<1> DEFINE s == Members(r) \ {c}
<1>1. rooms' = SetMembers(r, s) /\ c \in clients
    BY DEF LeaveRoom
<1> HIDE DEF s
<1>2. /\ Members(r)' = s
      /\ \A q \in Room : q # r => Members(q)' = Members(q)
      /\ DOMAIN rooms' \subseteq DOMAIN rooms \cup {r}
      /\ \A q \in DOMAIN rooms' : rooms'[q] = IF q = r THEN s ELSE rooms[q]
      /\ r \in DOMAIN rooms' => s # {}
    BY <1>1, SetMembersMembers
<1>3. s \subseteq clients
    BY DEF s, Members, RoomsMirror
<1>4. TablesType' /\ NewIsNowhere'
    BY <1>1, <1>2 DEF LeaveRoom, TablesType, NewIsNowhere
<1>5. \A q \in DOMAIN rooms' : rooms'[q] # {} /\ rooms'[q] \subseteq clients'
    BY <1>2, <1>3 DEF LeaveRoom, RoomsMirror
<1>6. \A d \in clients', q \in Room : d \in Members(q)' <=> q \in clientRooms'[d]
    BY <1>1, <1>2 DEF LeaveRoom, RoomsMirror, TablesType, s
<1> QED
    BY <1>4, <1>5, <1>6 DEF RoomsMirror

\* RemoveConnection takes the connection out of every room it has joined.
LEMMA RemoveKeeps ==
    ASSUME NEW c \in Conn, RoomsInv, RemoveConnection(c) PROVE RoomsInv'
<1> USE DEF RoomsInv
<1> DEFINE remaining(r) == rooms[r] \ (IF r \in clientRooms[c] THEN {c} ELSE {})
<1>1. rooms' = [r \in {q \in DOMAIN rooms : remaining(q) # {}} |-> remaining(r)]
    BY DEF RemoveConnection
<1>2. \A q \in DOMAIN rooms : remaining(q) \subseteq clients \ {c}
    BY DEF RoomsMirror, TablesType, Members, RemoveConnection
<1>3. \A q \in DOMAIN rooms : \A d \in Conn \ {c} : d \in remaining(q) <=> d \in rooms[q]
    OBVIOUS
<1> HIDE DEF remaining
<1>4. TablesType' /\ NewIsNowhere'
    BY <1>1 DEF RemoveConnection, TablesType, NewIsNowhere
<1>5. \A q \in DOMAIN rooms' : rooms'[q] # {} /\ rooms'[q] \subseteq clients'
    BY <1>1, <1>2 DEF RemoveConnection
<1>6. \A d \in clients', q \in Room : d \in Members(q)' <=> q \in clientRooms'[d]
    BY <1>1, <1>3 DEF RemoveConnection, RoomsMirror, TablesType, Members
<1> QED
    BY <1>4, <1>5, <1>6 DEF RoomsMirror

\* A step that leaves the tables of the manager alone keeps them in agreement.
LEMMA OthersKeep ==
    ASSUME RoomsInv, UNCHANGED managerVars,
           TablesType',
           \A c \in Conn : pump'[c] = "new" => pump[c] = "new"
    PROVE  RoomsInv'
BY DEF RoomsInv, managerVars, NewIsNowhere, RoomsMirror, Members, TablesType

\* Every step keeps the inductive invariant of RoomsMirror.
LEMMA RoomsStep == RoomsInv /\ [Next]_vars => RoomsInv'
<1> SUFFICES ASSUME RoomsInv, [Next]_vars PROVE RoomsInv'
    OBVIOUS
<1>1. TablesType
    BY DEF RoomsInv
<1>2. ASSUME NEW c \in Conn, AddConnection(c) PROVE RoomsInv'
    BY <1>2, AddKeeps
<1>3. ASSUME NEW c \in Conn, Pump(c) PROVE RoomsInv'
    <2>1. CASE RemoveConnection(c)
        BY <2>1, RemoveKeeps
    <2>2. CASE ForwardConnect(c) \/ ForwardClose(c) \/ ReadMessage(c) \/ HandleMessage(c)
        <3>1. /\ UNCHANGED managerVars
              /\ \E p \in {"read", "message", "done"} : pump' = [pump EXCEPT ![c] = p]
            BY <2>2 DEF ForwardConnect, ForwardClose, ReadMessage, HandleMessage
        <3>2. TablesType' /\ \A d \in Conn : pump'[d] = "new" => pump[d] = "new"
            BY <1>1, <3>1 DEF TablesType, managerVars
        <3> QED
            BY <3>1, <3>2, OthersKeep
    <2> QED
        BY <1>3, <2>1, <2>2 DEF Pump
<1>4. ASSUME NEW c \in Conn, NEW r \in Room, JoinRoom(c, r) \/ LeaveRoom(c, r)
      PROVE  RoomsInv'
    BY <1>4, JoinKeeps, LeaveKeeps
<1>5. ASSUME UNCHANGED <<managerVars, pump>> PROVE RoomsInv'
    <2>1. TablesType'
        BY <1>1, <1>5 DEF TablesType, managerVars
    <2> QED
        BY <1>5, <2>1, OthersKeep
<1>6. ASSUME NEW g \in Goroutine, Send(g) PROVE UNCHANGED <<managerVars, pump>>
    BY <1>6 DEF Send
<1>7. ASSUME Broadcast PROVE UNCHANGED <<managerVars, pump>>
    BY <1>7 DEF Broadcast
<1>8. ASSUME NEW c \in Conn, NEW s, Peer(c, s) PROVE UNCHANGED <<managerVars, pump>>
    BY <1>8 DEF Peer
<1>9. ASSUME UNCHANGED vars PROVE UNCHANGED <<managerVars, pump>>
    BY <1>9 DEF vars
<1> QED
    BY <1>2, <1>3, <1>4, <1>5, <1>6, <1>7, <1>8, <1>9 DEF Next

\* A client is in a room of the manager exactly if its own set of rooms says so,
\* no empty room is kept, and nobody who left is a member: in every behaviour of
\* the manager, for any number of connections and rooms.
THEOREM RoomsMirrorAlways == Spec => []RoomsMirror
<1>1. Init => RoomsInv
    BY DEF Init, RoomsInv, TablesType, NewIsNowhere, RoomsMirror, Members
<1>2. RoomsInv => RoomsMirror
    BY DEF RoomsInv
<1> QED
    BY <1>1, <1>2, RoomsStep, PTL DEF Spec

-----------------------------------------------------------------------------
\* Why TablesAgree holds: each of the two tables is a function of where the
\* goroutine of the connection is, and both are changed by that goroutine only.
Phases ==
    \A c \in Conn :
        /\ c \in clients <=> pump[c] \in {"connect", "read", "message"}
        /\ c \notin lost =>
              (c \in connections <=> pump[c] \in {"read", "message", "close"})

\* The inductive invariant of TablesAgree.
PhaseInv ==
    /\ pump \in [Conn -> {"new", "connect", "read", "message", "close", "done"}]
    /\ Phases

\* The goroutine of a connection moves on and changes the tables in one step.
LEMMA PumpKeepsPhases ==
    ASSUME NEW c \in Conn, PhaseInv, Pump(c) PROVE PhaseInv'
<1> USE DEF PhaseInv, Phases
<1>1. CASE ForwardConnect(c)
    BY <1>1 DEF ForwardConnect, Forward, Handle, managerVars
<1>2. CASE ForwardClose(c)
    BY <1>2 DEF ForwardClose, Forward, Handle, managerVars
<1>3. CASE ReadMessage(c)
    BY <1>3 DEF ReadMessage, managerVars, phpVars
<1>4. CASE HandleMessage(c)
    BY <1>4 DEF HandleMessage, Handle, managerVars
<1>5. CASE RemoveConnection(c)
    BY <1>5 DEF RemoveConnection, phpVars
<1> QED
    BY <1>1, <1>2, <1>3, <1>4, <1>5 DEF Pump

\* Every step keeps the phases; all but those of the goroutine leave them alone.
LEMMA PhaseStep == PhaseInv /\ [Next]_vars => PhaseInv'
<1> SUFFICES ASSUME PhaseInv, [Next]_vars PROVE PhaseInv'
    OBVIOUS
<1>1. ASSUME NEW c \in Conn, AddConnection(c) PROVE PhaseInv'
    BY <1>1 DEF AddConnection, PhaseInv, Phases, phpVars
<1>2. ASSUME NEW c \in Conn, Pump(c) PROVE PhaseInv'
    BY <1>2, PumpKeepsPhases
<1>3. ASSUME UNCHANGED <<clients, pump, phpVars>> PROVE PhaseInv'
    BY <1>3 DEF PhaseInv, Phases, phpVars
<1>4. ASSUME NEW g \in Goroutine, Send(g) PROVE UNCHANGED <<clients, pump, phpVars>>
    BY <1>4 DEF Send, managerVars
<1>5. ASSUME NEW c \in Conn, NEW r \in Room, JoinRoom(c, r) \/ LeaveRoom(c, r)
      PROVE  UNCHANGED <<clients, pump, phpVars>>
    BY <1>5 DEF JoinRoom, LeaveRoom
<1>6. ASSUME Broadcast PROVE UNCHANGED <<clients, pump, phpVars>>
    BY <1>6 DEF Broadcast, managerVars
<1>7. ASSUME NEW c \in Conn, NEW s, Peer(c, s) PROVE UNCHANGED <<clients, pump, phpVars>>
    BY <1>7 DEF Peer, managerVars
<1>8. ASSUME UNCHANGED vars PROVE UNCHANGED <<clients, pump, phpVars>>
    BY <1>8 DEF vars, managerVars
<1> QED
    BY <1>1, <1>2, <1>3, <1>4, <1>5, <1>6, <1>7, <1>8 DEF Next

\* As long as phpForward loses no event of a connection, PHP's table has it
\* exactly if the manager's has, whenever no event of it is under way.
THEOREM TablesAgreeAlways == Spec => []TablesAgree
<1>1. Init => PhaseInv
    BY DEF Init, PhaseInv, Phases
<1>2. PhaseInv => TablesAgree
    BY DEF PhaseInv, Phases, TablesAgree
<1> QED
    BY <1>1, <1>2, PhaseStep, PTL DEF Spec

-----------------------------------------------------------------------------
\* Why EventsInOrder holds: only the goroutine of a connection forwards its
\* events, so how far it has come says what PHP may have seen.
Event == {"connect", "message", "close"}

\* PHP has seen nothing before connect was forwarded, close only at the very end, and
\* connect first, unless an event was lost.
Story(c) ==
    LET e == events[c]
    IN  /\ pump[c] \in {"new", "connect"} => e = <<>>
        /\ \A i \in 1 .. Len(e) :
              /\ e[i] = "connect" => i = 1
              /\ e[i] = "close" => i = Len(e) /\ pump[c] = "done"
        /\ c \notin lost /\ pump[c] \notin {"new", "connect"} =>
              Len(e) > 0 /\ e[1] = "connect"

\* The inductive invariant of EventsInOrder.
StoryInv ==
    /\ PhaseInv
    /\ events \in [Conn -> Seq(Event)]
    /\ \A c \in Conn : Story(c)

\* The story of a connection is the same if its goroutine, its events and
\* whether one was lost are.
LEMMA SameStory ==
    ASSUME NEW c \in Conn, Story(c), events'[c] = events[c],
           pump'[c] = pump[c], c \in lost <=> c \in lost'
    PROVE  Story(c)'
BY DEF Story

\* An event that PHP handles is appended to those of its connection.
LEMMA HandleAppends ==
    ASSUME NEW c \in Conn, NEW e \in Event, events \in [Conn -> Seq(Event)],
           events' = [events EXCEPT ![c] = Append(@, e)]
    PROVE  /\ events' \in [Conn -> Seq(Event)]
           /\ \A d \in Conn : d # c => events'[d] = events[d]
           /\ Len(events[c]) \in Nat
           /\ Len(events'[c]) = Len(events[c]) + 1
           /\ events'[c][Len(events[c]) + 1] = e
           /\ \A i \in 1 .. Len(events[c]) : events'[c][i] = events[c][i]
<1> DEFINE s == events[c]
<1> DEFINE t == Append(s, e)
<1>1. s \in Seq(Event) /\ Len(s) \in Nat
    OBVIOUS
<1>2. /\ t \in Seq(Event) /\ Len(t) = Len(s) + 1 /\ t[Len(s) + 1] = e
      /\ \A i \in 1 .. Len(s) : t[i] = s[i]
    BY <1>1, AppendFacts
<1>3. events' = [events EXCEPT ![c] = t]
    OBVIOUS
<1> HIDE DEF s, t
<1>4. events'[c] = t /\ events' \in [Conn -> Seq(Event)]
      /\ \A d \in Conn : d # c => events'[d] = events[d]
    BY <1>2, <1>3
<1> QED
    BY <1>1, <1>2, <1>4 DEF s

\* An event that reaches PHP, or is lost, continues the story: connect as the
\* first, a message later, close as the last.
LEMMA ForwardContinues ==
    ASSUME NEW c \in Conn, StoryInv,
           pump[c] \in {"connect", "message", "close"},
           NEW p, pump' = [pump EXCEPT ![c] = p],
           p = IF pump[c] = "close" THEN "done" ELSE "read",
           Forward(c)
    PROVE  events' \in [Conn -> Seq(Event)] /\ \A d \in Conn : Story(d)'
<1>1. /\ pump \in [Conn -> {"new", "connect", "read", "message", "close", "done"}]
      /\ events \in [Conn -> Seq(Event)] /\ \A d \in Conn : Story(d)
    BY DEF StoryInv, PhaseInv
<1>2. pump'[c] = p /\ \A d \in Conn : d # c => pump'[d] = pump[d]
    BY <1>1
<1>3. CASE Handle(c, pump[c])
    <2>1. /\ events' = [events EXCEPT ![c] = Append(@, pump[c])]
          /\ lost' = lost /\ pump[c] \in Event
        BY <1>3 DEF Handle, Event
    <2>2. /\ events' \in [Conn -> Seq(Event)]
          /\ \A d \in Conn : d # c => events'[d] = events[d]
          /\ Len(events[c]) \in Nat
          /\ Len(events'[c]) = Len(events[c]) + 1
          /\ events'[c][Len(events[c]) + 1] = pump[c]
          /\ \A i \in 1 .. Len(events[c]) : events'[c][i] = events[c][i]
        BY <1>1, <2>1, HandleAppends
    <2>3. ASSUME NEW d \in Conn, d # c PROVE Story(d)'
        BY <1>1, <1>2, <2>1, <2>2, <2>3, SameStory
    <2>4. Story(c)'
        <3> DEFINE n == Len(events[c])
        <3>1. /\ pump[c] = "connect" => n = 0
              /\ \A i \in 1 .. n : events[c][i] = "connect" => i = 1
              /\ \A i \in 1 .. n : events[c][i] # "close"
              /\ c \notin lost /\ pump[c] # "connect" => n > 0 /\ events[c][1] = "connect"
            BY <1>1 DEF Story
        <3>2. \A i \in 1 .. n + 1 : i = n + 1 \/ i \in 1 .. n
            BY <2>2
        <3>3. \A i \in 1 .. n + 1 : events'[c][i] = "connect" => i = 1
            BY SMTT(40), <2>2, <3>1, <3>2
        <3>4. \A i \in 1 .. n + 1 : events'[c][i] = "close" => i = n + 1 /\ p = "done"
            BY <2>2, <3>1, <3>2
        <3>5. c \notin lost => n + 1 > 0 /\ events'[c][1] = "connect"
            BY <2>2, <3>1
        <3> QED
            BY <1>2, <2>1, <2>2, <3>3, <3>4, <3>5 DEF Story
    <2> QED
        BY <2>2, <2>3, <2>4
<1>4. CASE lost' = lost \cup {c} /\ UNCHANGED <<connections, events>>
    <2>1. ASSUME NEW d \in Conn, d # c PROVE Story(d)'
        BY <1>1, <1>2, <1>4, <2>1, SameStory
    <2>2. Story(c)'
        BY <1>1, <1>2, <1>4 DEF Story
    <2> QED
        BY <1>1, <1>4, <2>1, <2>2
<1> QED
    BY <1>3, <1>4 DEF Forward

\* Every step continues the stories of the connections.
LEMMA StoryStep == StoryInv /\ [Next]_vars => StoryInv'
<1> SUFFICES ASSUME StoryInv, [Next]_vars PROVE StoryInv'
    OBVIOUS
<1>1. /\ pump \in [Conn -> {"new", "connect", "read", "message", "close", "done"}]
      /\ events \in [Conn -> Seq(Event)] /\ \A d \in Conn : Story(d)
    BY DEF StoryInv, PhaseInv
<1>2. PhaseInv'
    BY PhaseStep DEF StoryInv
<1>3. ASSUME NEW c \in Conn, AddConnection(c) PROVE StoryInv'
    <2>1. /\ pump[c] = "new" /\ pump'[c] = "connect" /\ UNCHANGED phpVars
          /\ \A d \in Conn : d # c => pump'[d] = pump[d]
        BY <1>1, <1>3 DEF AddConnection
    <2>2. \A d \in Conn : Story(d)'
        BY <1>1, <2>1 DEF Story, phpVars
    <2> QED
        BY <1>1, <1>2, <2>1, <2>2 DEF StoryInv, phpVars
<1>4. ASSUME NEW c \in Conn, ReadMessage(c) \/ RemoveConnection(c) PROVE StoryInv'
    <2>1. /\ pump[c] = "read" /\ pump'[c] \in {"message", "close"} /\ UNCHANGED phpVars
          /\ \A d \in Conn : d # c => pump'[d] = pump[d]
        BY <1>1, <1>4 DEF ReadMessage, RemoveConnection
    <2>2. \A d \in Conn : Story(d)'
        BY <1>1, <2>1 DEF Story, phpVars
    <2> QED
        BY <1>1, <1>2, <2>1, <2>2 DEF StoryInv, phpVars
<1>5. ASSUME NEW c \in Conn, ForwardConnect(c) \/ ForwardClose(c) \/ HandleMessage(c)
      PROVE  StoryInv'
    <2> DEFINE p == IF pump[c] = "close" THEN "done" ELSE "read"
    <2>1. /\ pump[c] \in {"connect", "message", "close"}
          /\ pump' = [pump EXCEPT ![c] = p]
        BY <1>5 DEF ForwardConnect, ForwardClose, HandleMessage
    <2>2. Forward(c)
        BY <1>5 DEF ForwardConnect, ForwardClose, HandleMessage, Forward
    <2> QED
        BY <1>2, <2>1, <2>2, ForwardContinues DEF StoryInv
<1>6. ASSUME UNCHANGED <<pump, phpVars>> PROVE StoryInv'
    BY <1>1, <1>2, <1>6 DEF StoryInv, Story, phpVars
<1>7. ASSUME NEW g \in Goroutine, Send(g) PROVE UNCHANGED <<pump, phpVars>>
    BY <1>7 DEF Send
<1>8. ASSUME NEW c \in Conn, NEW r \in Room, JoinRoom(c, r) \/ LeaveRoom(c, r)
      PROVE  UNCHANGED <<pump, phpVars>>
    BY <1>8 DEF JoinRoom, LeaveRoom
<1>9. ASSUME Broadcast PROVE UNCHANGED <<pump, phpVars>>
    BY <1>9 DEF Broadcast
<1>10. ASSUME NEW c \in Conn, NEW s, Peer(c, s) PROVE UNCHANGED <<pump, phpVars>>
    BY <1>10 DEF Peer
<1>11. ASSUME UNCHANGED vars PROVE UNCHANGED <<pump, phpVars>>
    BY <1>11 DEF vars
<1> QED
    BY <1>3, <1>4, <1>5, <1>6, <1>7, <1>8, <1>9, <1>10, <1>11 DEF Next, Pump

\* PHP sees connect first and close last, each at most once, and close only when
\* the manager has dropped the connection, however the goroutines, the calls of
\* the program and lost frames interleave.
THEOREM EventsInOrderAlways == Spec => []EventsInOrder
<1>1. Init => StoryInv
    <2> SUFFICES ASSUME Init PROVE StoryInv
        OBVIOUS
    <2>1. PhaseInv
        BY DEF Init, PhaseInv, Phases
    <2>2. <<>> \in Seq(Event) /\ Len(<<>>) = 0
        OBVIOUS
    <2>3. events \in [Conn -> Seq(Event)]
          /\ \A c \in Conn : events[c] = <<>> /\ pump[c] = "new"
        BY <2>2 DEF Init
    <2> QED
        BY <2>1, <2>2, <2>3 DEF StoryInv, Story
<1>2. StoryInv => EventsInOrder
    BY DEF StoryInv, Story, PhaseInv, Phases, EventsInOrder
<1> QED
    BY <1>1, <1>2, StoryStep, PTL DEF Spec

-----------------------------------------------------------------------------
\* A walk over a set of connections is a sequence of connections: the set is
\* finite, as there are finitely many connections.
LEMMA CopiedType ==
    ASSUME NEW g \in Goroutine, NEW to \in SUBSET Conn,
           job \in [Goroutine -> Seq(Conn)], Copied(g, to)
    PROVE  job' \in [Goroutine -> Seq(Conn)]
<1>1. PICK order \in SetToSeqs(to) : job' = [job EXCEPT ![g] = order]
    BY DEF Copied
<1>2. Cardinality(to) \in Nat
    BY WebSocketConfig, FS_Subset, FS_CardinalityType
<1>3. order \in [1 .. Cardinality(to) -> to]
    BY DEF SetToSeqs
<1>4. order \in Seq(Conn)
    <2> DEFINE n == Cardinality(to)
    <2>1. n \in Nat /\ order \in [1 .. n -> Conn]
        BY <1>2, <1>3
    <2> HIDE DEF n
    <2> QED
        BY <2>1
<1> QED
    BY <1>1, <1>4

\* The tables of the manager keep their types.
LEMMA ManagerType ==
    ASSUME TypeOK, [Next]_vars
    PROVE  /\ clients' \subseteq Conn
           /\ DOMAIN rooms' \subseteq Room
           /\ \A r \in DOMAIN rooms' : rooms'[r] \subseteq Conn
           /\ clientRooms' \in [Conn -> SUBSET Room]
<1> DEFINE Goal == /\ clients' \subseteq Conn
                   /\ DOMAIN rooms' \subseteq Room
                   /\ \A r \in DOMAIN rooms' : rooms'[r] \subseteq Conn
                   /\ clientRooms' \in [Conn -> SUBSET Room]
<1>1. /\ clients \subseteq Conn /\ DOMAIN rooms \subseteq Room
      /\ \A r \in DOMAIN rooms : rooms[r] \subseteq Conn
      /\ clientRooms \in [Conn -> SUBSET Room]
    BY DEF TypeOK
<1>2. ASSUME NEW c \in Conn, AddConnection(c) PROVE Goal
    BY <1>1, <1>2 DEF AddConnection
<1>3. ASSUME NEW c \in Conn, RemoveConnection(c) PROVE Goal
    BY <1>1, <1>3 DEF RemoveConnection
<1>4. ASSUME NEW c \in Conn, NEW r \in Room, NEW s \in SUBSET Conn,
             rooms' = SetMembers(r, s), clients' = clients,
             clientRooms' \in [Conn -> SUBSET Room]
      PROVE  Goal
    BY <1>1, <1>4 DEF SetMembers
<1>5. ASSUME NEW c \in Conn, NEW r \in Room, JoinRoom(c, r) PROVE Goal
    <2>1. Members(r) \cup {c} \subseteq Conn
        BY <1>1 DEF Members
    <2>2. clientRooms' \in [Conn -> SUBSET Room]
        BY <1>1, <1>5 DEF JoinRoom
    <2> QED
        BY <1>4, <1>5, <2>1, <2>2 DEF JoinRoom
<1>6. ASSUME NEW c \in Conn, NEW r \in Room, LeaveRoom(c, r) PROVE Goal
    <2>1. Members(r) \ {c} \subseteq Conn
        BY <1>1 DEF Members
    <2>2. clientRooms' \in [Conn -> SUBSET Room]
        BY <1>1, <1>6 DEF LeaveRoom
    <2> QED
        BY <1>4, <1>6, <2>1, <2>2 DEF LeaveRoom
<1>7. ASSUME UNCHANGED managerVars PROVE Goal
    BY <1>1, <1>7 DEF managerVars
<1>8. ASSUME NEW c \in Conn,
             \/ ForwardConnect(c) \/ ForwardClose(c) \/ ReadMessage(c)
             \/ HandleMessage(c)
      PROVE  UNCHANGED managerVars
    BY <1>8 DEF ForwardConnect, ForwardClose, ReadMessage, HandleMessage
<1>9. ASSUME NEW g \in Goroutine, Send(g) PROVE UNCHANGED managerVars
    BY <1>9 DEF Send
<1>10. ASSUME Broadcast PROVE UNCHANGED managerVars
    BY <1>10 DEF Broadcast
<1>11. ASSUME NEW c \in Conn, NEW s, Peer(c, s) PROVE UNCHANGED managerVars
    BY <1>11 DEF Peer
<1>12. ASSUME UNCHANGED vars PROVE UNCHANGED managerVars
    BY <1>12 DEF vars
<1> QED
    BY <1>2, <1>3, <1>5, <1>6, <1>7, <1>8, <1>9, <1>10, <1>11, <1>12 DEF Next, Pump

\* So do the goroutines, the peers and PHP.
LEMMA OthersType ==
    ASSUME TypeOK, [Next]_vars
    PROVE  /\ job' \in [Goroutine -> Seq(Conn)]
           /\ peer' \in [Conn -> {"open", "stuck", "gone"}]
           /\ sent' \in [Goroutine -> Nat]
           /\ pump' \in [Conn -> {"new", "connect", "read", "message", "close", "done"}]
           /\ connections' \subseteq Conn /\ lost' \subseteq Conn
           /\ events' \in [Conn -> Seq(Event)]
<1> DEFINE Jobs == job' \in [Goroutine -> Seq(Conn)]
<1> DEFINE Outside == /\ peer' \in [Conn -> {"open", "stuck", "gone"}]
                      /\ sent' \in [Goroutine -> Nat]
<1> DEFINE Pumps ==
       pump' \in [Conn -> {"new", "connect", "read", "message", "close", "done"}]
<1> DEFINE Php == /\ connections' \subseteq Conn /\ lost' \subseteq Conn
                  /\ events' \in [Conn -> Seq(Event)]
<1> DEFINE Goal == Jobs /\ Outside /\ Pumps /\ Php
<1>1. /\ job \in [Goroutine -> Seq(Conn)]
      /\ peer \in [Conn -> {"open", "stuck", "gone"}]
      /\ sent \in [Goroutine -> Nat] /\ clients \subseteq Conn
      /\ pump \in [Conn -> {"new", "connect", "read", "message", "close", "done"}]
      /\ connections \subseteq Conn /\ lost \subseteq Conn
      /\ events \in [Conn -> Seq(Event)]
      /\ \A r \in DOMAIN rooms : rooms[r] \subseteq Conn
    BY DEF TypeOK, Event
<1>2. Conn \subseteq Goroutine /\ Program \in Goroutine
    BY DEF Goroutine
<1>3. ASSUME NEW c \in Conn, NEW e \in Event, Handle(c, e) PROVE Php
    <2>1. /\ connections' \in {connections \cup {c}, connections, connections \ {c}}
          /\ lost' = lost /\ events' = [events EXCEPT ![c] = Append(@, e)]
        BY <1>3 DEF Handle, Event
    <2>2. events' \in [Conn -> Seq(Event)]
        BY <1>1, <2>1, HandleAppends
    <2> QED
        BY <1>1, <2>1, <2>2
<1>4. ASSUME NEW c \in Conn, lost' = lost \cup {c}, UNCHANGED <<connections, events>>
      PROVE  Php
    BY <1>1, <1>4
<1>5. ASSUME UNCHANGED job PROVE Jobs
    BY <1>1, <1>5
<1>6. ASSUME UNCHANGED <<peer, sent>> PROVE Outside
    BY <1>1, <1>6
<1>7. ASSUME UNCHANGED phpVars PROVE Php
    BY <1>1, <1>7 DEF phpVars
<1>8. ASSUME UNCHANGED pump PROVE Pumps
    BY <1>1, <1>8
<1>9. ASSUME NEW c \in Conn, AddConnection(c) PROVE Goal
    <2>1. Pumps
        BY <1>1, <1>9 DEF AddConnection
    <2> QED
        BY <1>5, <1>6, <1>7, <1>9, <2>1 DEF AddConnection
<1>10. ASSUME NEW c \in Conn, ForwardConnect(c) \/ ForwardClose(c) PROVE Goal
    <2>1. Pumps
        BY <1>1, <1>10 DEF ForwardConnect, ForwardClose
    <2>2. Forward(c) /\ pump[c] \in Event /\ UNCHANGED <<job, peer, sent>>
        BY <1>10 DEF ForwardConnect, ForwardClose, Event
    <2>3. Php
        BY <1>3, <1>4, <2>2 DEF Forward
    <2> QED
        BY <1>5, <1>6, <2>1, <2>2, <2>3
<1>11. ASSUME NEW c \in Conn, ReadMessage(c) PROVE Goal
    <2>1. Pumps
        BY <1>1, <1>11 DEF ReadMessage
    <2>2. Outside
        BY <1>1, <1>2, <1>11 DEF ReadMessage
    <2> QED
        BY <1>5, <1>7, <1>11, <2>1, <2>2 DEF ReadMessage
<1>12. ASSUME NEW c \in Conn, HandleMessage(c) PROVE Goal
    <2>1. Pumps
        BY <1>1, <1>12 DEF HandleMessage
    <2>2. "message" \in Event /\ UNCHANGED <<peer, sent>>
        BY <1>12 DEF HandleMessage, Event
    <2>3. Php
        BY <1>3, <1>4, <1>12, <2>2 DEF HandleMessage
    <2>4. Jobs
        <3>1. ASSUME NEW to \in {{}} \cup {Members(r) : r \in Room}
                                     \cup {{d} : d \in clients}, Copied(c, to)
              PROVE  Jobs
            <4>1. to \in SUBSET Conn
                BY <1>1 DEF Members
            <4> QED
                BY <1>1, <1>2, <3>1, <4>1, CopiedType
        <3> QED
            BY <1>5, <1>12, <3>1 DEF HandleMessage
    <2> QED
        BY <1>6, <2>1, <2>2, <2>3, <2>4
<1>13. ASSUME NEW c \in Conn, RemoveConnection(c) PROVE Goal
    <2>1. Pumps
        BY <1>1, <1>13 DEF RemoveConnection
    <2> QED
        BY <1>5, <1>6, <1>7, <1>13, <2>1 DEF RemoveConnection
<1>14. ASSUME NEW g \in Goroutine, Send(g) PROVE Goal
    <2>1. job[g] # <<>> /\ job' = [job EXCEPT ![g] = Tail(@)]
        BY <1>14 DEF Send
    <2>2. Tail(job[g]) \in Seq(Conn)
        BY <1>1, <2>1, TailFacts
    <2>3. Jobs
        BY <1>1, <2>1, <2>2
    <2> QED
        BY <1>6, <1>7, <1>8, <1>14, <2>3 DEF Send
<1>15. ASSUME NEW c \in Conn, NEW r \in Room, JoinRoom(c, r) \/ LeaveRoom(c, r)
       PROVE  Goal
    BY <1>5, <1>6, <1>7, <1>8, <1>15 DEF JoinRoom, LeaveRoom
<1>16. ASSUME Broadcast PROVE Goal
    <2>1. PICK exclude \in {{}} \cup {{c} : c \in Conn} :
                  Copied(Program, clients \ exclude)
        BY <1>16 DEF Broadcast
    <2>2. Jobs
        BY <1>1, <1>2, <2>1, CopiedType
    <2>3. Outside
        BY <1>1, <1>2, <1>16 DEF Broadcast
    <2> QED
        BY <1>7, <1>8, <1>16, <2>2, <2>3 DEF Broadcast
<1>17. ASSUME NEW c \in Conn, NEW s \in {"open", "stuck", "gone"}, Peer(c, s)
       PROVE  Goal
    <2>1. Outside
        BY <1>1, <1>17 DEF Peer
    <2> QED
        BY <1>5, <1>7, <1>8, <1>17, <2>1 DEF Peer
<1>18. ASSUME UNCHANGED vars PROVE Goal
    BY <1>5, <1>6, <1>7, <1>8, <1>18 DEF vars
<1> HIDE DEF Jobs, Outside, Pumps, Php
<1>19. Goal
    BY <1>9, <1>10, <1>11, <1>12, <1>13, <1>14, <1>15, <1>16, <1>17, <1>18 DEF Next, Pump
<1> QED
    BY <1>19 DEF Jobs, Outside, Pumps, Php

\* The manager, the goroutines and PHP's tables always have their types.
THEOREM RoomsTypeOK == Spec => []TypeOK
<1>1. Init => TypeOK
    <2> SUFFICES ASSUME Init PROVE TypeOK
        OBVIOUS
    <2>1. <<>> \in Seq(Conn) /\ <<>> \in Seq({"connect", "message", "close"})
        OBVIOUS
    <2> QED
        BY <2>1 DEF Init, TypeOK
<1>2. TypeOK /\ [Next]_vars => TypeOK'
    <2> SUFFICES ASSUME TypeOK, [Next]_vars PROVE TypeOK'
        OBVIOUS
    <2> QED
        BY ManagerType, OthersType DEF TypeOK, Event
<1> QED
    BY <1>1, <1>2, PTL DEF Spec

=============================================================================
