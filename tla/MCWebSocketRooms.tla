------------------------- MODULE MCWebSocketRooms -------------------------
(***************************************************************************)
(* Model checking of WebSocketRooms: two connections and two rooms.        *)
(***************************************************************************)
EXTENDS WebSocketRooms

CONSTANTS c1, c2, red, blue  \* the connections and the rooms

=============================================================================
