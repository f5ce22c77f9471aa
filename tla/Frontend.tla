------------------------------ MODULE Frontend ------------------------------
(***************************************************************************)
(* The application's side: frontend/frontend.mm and the GCController       *)
(* objects of frontend/MFiWrapper.mm, all on the main thread.  Packets are *)
(* handled one at a time by the run loop; between two of them, or in a     *)
(* notification one of them posts, the application can call setPlayerIndex *)
(* on any GCController it was ever given, the removed ones included.       *)
(***************************************************************************)
EXTENDS Protocol

VARIABLES
    connected,    \* frontend.mm: connection is set
    controllers,  \* frontend.mm: the array, as the handles of its objects
    objects,      \* every GCController made, by handle
    crashed       \* an exception nobody catches ended the process

frontendVars == <<connected, controllers, objects, crashed>>

Listed(h) == \E k \in 1..Len(controllers) : controllers[k] = h

FrontendOK ==
    /\ connected \in BOOLEAN
    /\ controllers \in Seq(Handles)
    /\ DOMAIN objects \subseteq Handles
    /\ \A h \in DOMAIN objects : objects[h] \in [index : Indices, input : Inputs]
    /\ crashed \in BOOLEAN

FrontendInit ==
    /\ connected = FALSE
    /\ controllers = <<>>
    /\ objects = [h \in {} |-> [index |-> Unset, input |-> Released]]
    /\ crashed = FALSE

-----------------------------------------------------------------------------
\* The position of the first controller with that handle, or -1.
FindControllerByHandle(h) ==
    LET found == {k \in 1..Len(controllers) : h # 0 /\ controllers[k] = h}
    IN  IF found = {} THEN -1
        ELSE CHOOSE k \in found : \A j \in found : k <= j

\* Seeded fault: handle and index change places in the packet.
SetControllerIndex_Swapped(h, i) ==
    /\ down' = Sent(down, SetPlayerIndexPacket(i, h))
    /\ lost' = lost \cup Refused(down, SetPlayerIndexPacket(i, h))

\* SetControllerIndex sends nothing before there is a connection.
SetControllerIndex(h, i) ==
    IF connected
    THEN /\ down' = Sent(down, SetPlayerIndexPacket(h, i))
         /\ lost' = lost \cup Refused(down, SetPlayerIndexPacket(h, i))
    ELSE UNCHANGED <<down, lost>>

\* Seeded fault: the new controller goes to the front of the array.
HandlePacketConnect_AtFront(h) ==
    /\ objects' = [g \in DOMAIN objects \cup {h} |->
                       IF g = h THEN [index |-> Unset, input |-> Released]
                       ELSE objects[g]]
    /\ controllers' = <<h>> \o controllers
    /\ SetControllerIndex(h, Unset)
    /\ UNCHANGED crashed

\* Seeded fault: the object is made but not added to the array.
HandlePacketConnect_NotAdded(h) ==
    /\ objects' = [g \in DOMAIN objects \cup {h} |->
                       IF g = h THEN [index |-> Unset, input |-> Released]
                       ELSE objects[g]]
    /\ SetControllerIndex(h, Unset)
    /\ UNCHANGED <<controllers, crashed>>

\* A new object; its constructor unsets the player index, which sends a
\* packet of its own.
HandlePacketConnect(h) ==
    /\ objects' = [g \in DOMAIN objects \cup {h} |->
                       IF g = h THEN [index |-> Unset, input |-> Released]
                       ELSE objects[g]]
    /\ controllers' = Append(controllers, h)
    /\ SetControllerIndex(h, Unset)
    /\ UNCHANGED crashed

\* Seeded fault: the last controller is removed, not the one that was found.
HandlePacketDisconnect_RemovesLast(h) ==
    LET idx == FindControllerByHandle(h) IN
    /\ IF idx = -1
       THEN crashed' = TRUE /\ UNCHANGED controllers
       ELSE /\ controllers' = SubSeq(controllers, 1, Len(controllers) - 1)
            /\ UNCHANGED crashed
    /\ UNCHANGED <<objects, down, lost>>

\* removeObjectAtIndex: raises when the controller is not in the array.
HandlePacketDisconnect(h) ==
    LET idx == FindControllerByHandle(h) IN
    /\ IF idx = -1
       THEN crashed' = TRUE /\ UNCHANGED controllers
       ELSE /\ controllers' = SubSeq(controllers, 1, idx - 1)
                              \o SubSeq(controllers, idx + 1, Len(controllers))
            /\ UNCHANGED crashed
    /\ UNCHANGED <<objects, down, lost>>

HandlePacketInputState(h, state) ==
    /\ objects' = IF FindControllerByHandle(h) = -1 THEN objects
                  ELSE [objects EXCEPT ![h].input = state]
    /\ UNCHANGED <<controllers, crashed, down, lost>>

\* FrontendConnection::HandlePacket.  A pause packet calls a block of the
\* application, which changes nothing here.
FrontendReceive ==
    /\ connected
    /\ up # <<>>
    /\ LET pkt == Head(up) IN
          CASE pkt.type = "Connect"    -> HandlePacketConnect(pkt.handle)
            [] pkt.type = "Disconnect" -> HandlePacketDisconnect(pkt.handle)
            [] pkt.type = "InputState" ->
                   HandlePacketInputState(pkt.handle, pkt.value)
            [] OTHER -> UNCHANGED <<controllers, objects, crashed, down, lost>>
    /\ up' = Tail(up)
    /\ UNCHANGED connected

\* The application sets the player index of an object it holds.
SetPlayerIndex(h, i) ==
    /\ h \in DOMAIN objects
    /\ objects' = [objects EXCEPT ![h].index = i]
    /\ SetControllerIndex(h, i)
    /\ UNCHANGED <<connected, controllers, crashed, up>>
=============================================================================
