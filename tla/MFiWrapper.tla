----------------------------- MODULE MFiWrapper -----------------------------
(***************************************************************************)
(* The library as a whole: the manager thread and the application's main   *)
(* thread in one process, with the socket pair between them.               *)
(***************************************************************************)
EXTENDS Backend, Frontend

vars == <<backendVars, frontendVars, up, down, lost>>

Init == BackendInit /\ FrontendInit /\ ChannelsInit

(***************************************************************************)
(* Any call of the class methods of GCController reaches Startup, which    *)
(* makes the connection and, in HACKStart, the sockets and the manager     *)
(* thread.  Later calls do nothing.                                        *)
(***************************************************************************)
HACKStart == thread' = IF thread = "none" THEN "created" ELSE thread

Startup ==
    /\ ~connected
    /\ connected' = TRUE
    /\ HACKStart
    /\ UNCHANGED <<nextHandle, devices, pads, reported,
                   controllers, objects, crashed, up, down, lost>>

BackendStep  == ~crashed /\ BackendNext /\ UNCHANGED frontendVars
FrontendStep ==
    /\ ~crashed
    /\ UNCHANGED backendVars
    /\ \/ FrontendReceive
       \/ \E h \in Handles, i \in Indices : SetPlayerIndex(h, i)

Next == (~crashed /\ Startup) \/ BackendStep \/ FrontendStep

Spec == Init /\ [][Next]_vars

(***************************************************************************)
(* A created thread gets to run, and the run loop of each side is woken as *)
(* long as its socket is readable.  Nothing obliges the user to plug or    *)
(* unplug anything nor the application to call.                            *)
(***************************************************************************)
Fairness ==
    /\ WF_vars(~crashed /\ ManagerThread /\ UNCHANGED frontendVars)
    /\ WF_vars(~crashed /\ BackendReceive /\ UNCHANGED frontendVars)
    /\ WF_vars(~crashed /\ FrontendReceive /\ UNCHANGED backendVars)

FairSpec == Spec /\ Fairness

-----------------------------------------------------------------------------
TypeOK == ChannelsOK /\ BackendOK /\ FrontendOK

\* The handle table and the connections point at each other: an entry leads
\* to an interface that exists and has that handle, so that no packet from
\* the application reaches a deleted interface, and every attached pad can
\* be reached.
HandlesMatchPads ==
    /\ \A h \in DOMAIN devices : devices[h] # Null =>
          pads[devices[h]].open /\ pads[devices[h]].handle = h
    /\ \A p \in Pads : pads[p].open /\ pads[p].handle # 0 =>
          Live(pads[p].handle) /\ devices[pads[p].handle] = p

\* Null entries appear when a SetPlayerIndex crosses the removal of its
\* controller.  They are only ever left for handles that are never used
\* again, and the attached pads never share their number.
NullEntriesAreSpent ==
    \A h \in DOMAIN devices :
        /\ h < nextHandle
        /\ devices[h] = Null => \A p \in Pads : pads[p].handle # h

\* Strengthening of the two above: a handle occurs in a packet, in an object
\* or in the list only after it was given out, and a device without a
\* connection has no handle.
HandlesAreIssued ==
    /\ \A k \in 1..Len(up) : up[k].handle < nextHandle
    /\ \A k \in 1..Len(down) : down[k].handle < nextHandle
    /\ \A h \in DOMAIN objects : h < nextHandle
    /\ \A p \in Pads : ~pads[p].open => pads[p].handle = 0

\* The application's list is in the order of connection, with no controller
\* in it twice, whatever packets were lost.
ControllersInOrder ==
    \A j, k \in 1..Len(controllers) : j < k => controllers[j] < controllers[k]

\* The process only dies in removeObjectAtIndex: if the Connect packet of
\* some controller did not fit in the socket buffer.
CrashNeedsLostConnect ==
    crashed => \E h \in Handles : <<"Connect", h>> \in lost

\* The list lags behind the devices by the packets in transit and by nothing
\* else: a controller missing from it or left over in it has its packet
\* under way, or lost.
ListTracksDevices ==
    ~crashed => \A h \in Handles :
        /\ Live(h) /\ ~Listed(h) =>
              InTransit(up, "Connect", h) \/ <<"Connect", h>> \in lost
        /\ Listed(h) /\ ~Live(h) =>
              InTransit(up, "Disconnect", h) \/ <<"Disconnect", h>> \in lost

\* The input an application reads from a listed controller is the last one
\* its pad reported, unless a newer report is under way or was lost.
InputSettles ==
    \A h \in Handles :
        /\ Listed(h)
        /\ ~InTransit(up, "InputState", h)
        /\ <<"InputState", h>> \notin lost
        => objects[h].input = reported[h]

\* A pad shows the player index of its GCController object, unless a newer
\* SetPlayerIndex is under way or was lost.
IndexSettles ==
    \A h \in DOMAIN objects :
        /\ Live(h)
        /\ ~InTransit(down, "SetPlayerIndex", h)
        /\ <<"SetPlayerIndex", h>> \notin lost
        => pads[devices[h]].index = objects[h].index

\* Refinement: a handle's place in the life of a controller.
PlugOf(h) == IF h >= nextHandle THEN "unused" ELSE IF Live(h) THEN "in" ELSE "out"
ViewOf(h) == IF h \notin DOMAIN objects THEN "unseen"
             ELSE IF Listed(h) THEN "shown" ELSE "gone"

Promise == INSTANCE Lifecycle WITH
    Handle <- Handles,
    plug   <- [h \in Handles |-> PlugOf(h)],
    view   <- [h \in Handles |-> ViewOf(h)]

\* The whole library does what Lifecycle promises the application, even when
\* packets are lost.
KeepsPromise == Promise!Spec

\* The application's list catches up: a pad that stays plugged in is shown in
\* the end and one that was unplugged is not, unless the packet that says so
\* was lost or the process died.
ListCatchesUp ==
    \A h \in Handles :
        /\ Live(h) ~> \/ Listed(h) \/ ~Live(h)
                      \/ <<"Connect", h>> \in lost \/ crashed
        /\ (h < nextHandle /\ ~Live(h)) ~>
               (~Listed(h) \/ <<"Disconnect", h>> \in lost \/ crashed)

\* Once the application leaves the index of a plugged-in controller alone, the
\* pad shows that index for good, however many reports keep coming, unless a
\* SetPlayerIndex packet was lost or the process died.
IndexArrives ==
    \A h \in Handles, i \in Indices :
        <>[](Live(h) /\ h \in DOMAIN objects /\ objects[h].index = i)
        => <>[](\/ Live(h) /\ pads[devices[h]].index = i
                \/ <<"SetPlayerIndex", h>> \in lost \/ crashed)
=============================================================================
