------------------------------ MODULE Backend -------------------------------
(***************************************************************************)
(* The manager thread: backend/backend.cpp, backend/hidmanager and the     *)
(* life of a HIDPad::Interface.  Everything here runs on the run loop of   *)
(* one thread, so each callback is one step.  What a pad does with the     *)
(* bytes of a report is left to the modules about the pads: here a report  *)
(* carries an input state and the pause button.                            *)
(***************************************************************************)
EXTENDS Protocol

CONSTANTS
    Pads,        \* the HID devices the user can connect
    Recognised,  \* those HIDPad::Connect has a driver for
    Null         \* the null pointer

ASSUME BackendAssumption ==
    /\ Recognised \subseteq Pads
    /\ Null \notin Pads

VARIABLES
    thread,      \* the manager thread
    nextHandle,  \* backend.cpp: nextHandle
    devices,     \* backend.cpp: the map from handle to interface
    pads,        \* the HIDManager::Connection of each device, with its hidpad
    reported     \* history: the last input state written for each handle

backendVars == <<thread, nextHandle, devices, pads, reported>>

(***************************************************************************)
(* A device without a connection, and a connection as its constructors     *)
(* leave it: handle 0 is an interface that was not attached.               *)
(***************************************************************************)
NoConnection ==
    [open |-> FALSE, handle |-> 0, index |-> Unset, pauseHeld |-> TRUE]

NewConnection(h) == [NoConnection EXCEPT !.open = TRUE, !.handle = h]

Connections ==
    [open : BOOLEAN, handle : {0} \cup Handles, index : Indices,
     pauseHeld : BOOLEAN]

\* The handle is in the map and leads to an interface.
Live(h) == h \in DOMAIN devices /\ devices[h] # Null

BackendOK ==
    /\ thread \in {"none", "created", "running"}
    /\ nextHandle \in 1..(MaxHandle + 1)
    /\ DOMAIN devices \subseteq Handles
    /\ \A h \in DOMAIN devices : devices[h] \in Pads \cup {Null}
    /\ pads \in [Pads -> Connections]
    /\ reported \in [Handles -> Inputs]

BackendInit ==
    /\ thread = "none"
    /\ nextHandle = 1
    /\ devices = [h \in {} |-> Null]
    /\ pads = [p \in Pads |-> NoConnection]
    /\ reported = [h \in Handles |-> Released]

-----------------------------------------------------------------------------
\* The thread function up to its run loop.
ManagerThread ==
    /\ thread = "created"
    /\ thread' = "running"
    /\ UNCHANGED <<nextHandle, devices, pads, reported, up, down, lost>>

\* Seeded fault: nextHandle is not advanced, so a handle is given out again.
AttachController_ReusesHandle(p) ==
    /\ nextHandle' = nextHandle
    /\ devices' = [h \in DOMAIN devices \cup {nextHandle} |->
                       IF h = nextHandle THEN p ELSE devices[h]]
    /\ pads' = [pads EXCEPT ![p] = NewConnection(nextHandle)]
    /\ up' = Sent(up, Connect(nextHandle))
    /\ lost' = lost \cup Refused(up, Connect(nextHandle))

\* FinalizeConnection of the pad's constructor: a handle, a map entry and a
\* Connect packet.
AttachController(p) ==
    /\ nextHandle <= MaxHandle
    /\ nextHandle' = nextHandle + 1
    /\ devices' = [h \in DOMAIN devices \cup {nextHandle} |->
                       IF h = nextHandle THEN p ELSE devices[h]]
    /\ pads' = [pads EXCEPT ![p] = NewConnection(nextHandle)]
    /\ up' = Sent(up, Connect(nextHandle))
    /\ lost' = lost \cup Refused(up, Connect(nextHandle))

\* A device no driver claims gets a bare Interface, which is never attached.
ConnectDummy(p) ==
    /\ pads' = [pads EXCEPT ![p] = NewConnection(0)]
    /\ UNCHANGED <<nextHandle, devices, up, lost>>

DeviceAttached(p) ==
    /\ thread = "running"
    /\ ~pads[p].open
    /\ IF p \in Recognised THEN AttachController(p) ELSE ConnectDummy(p)
    /\ UNCHANGED <<thread, reported, down>>

\* Seeded fault: the entry of a deleted interface stays in the map.
DetachController_KeepsEntry(h) ==
    /\ devices' = devices
    /\ IF h \in DOMAIN devices
       THEN /\ up' = Sent(up, Disconnect(h))
            /\ lost' = lost \cup Refused(up, Disconnect(h))
       ELSE UNCHANGED <<up, lost>>

\* Seeded fault: Disconnect is sent whether or not the handle was in the map.
DetachController_Unconditional(h) ==
    /\ devices' = [g \in DOMAIN devices \ {h} |-> devices[g]]
    /\ up' = Sent(up, Disconnect(h))
    /\ lost' = lost \cup Refused(up, Disconnect(h))

\* The destructor of the interface: the map entry goes, and only when there
\* was one is the frontend told.
DetachController(h) ==
    /\ devices' = [g \in DOMAIN devices \ {h} |-> devices[g]]
    /\ IF h \in DOMAIN devices
       THEN /\ up' = Sent(up, Disconnect(h))
            /\ lost' = lost \cup Refused(up, Disconnect(h))
       ELSE UNCHANGED <<up, lost>>

DeviceRemoved(p) ==
    /\ pads[p].open
    /\ DetachController(pads[p].handle)
    /\ pads' = [pads EXCEPT ![p] = NoConnection]
    /\ UNCHANGED <<thread, nextHandle, reported, down>>

\* Seeded fault: a press of the pause button takes the place of the state.
DeviceReport_PauseOnly(p, state, pauseDown) ==
    LET h       == pads[p].handle
        pausing == pauseDown /\ ~pads[p].pauseHeld
        pkt     == IF pausing THEN PausePressed(h) ELSE InputState(h, state)
    IN  /\ pads[p].open /\ h # 0
        /\ pads' = [pads EXCEPT ![p].pauseHeld = pauseDown]
        /\ reported' = [reported EXCEPT ![h] = state]
        /\ up' = Sent(up, pkt)
        /\ lost' = lost \cup Refused(up, pkt)
        /\ UNCHANGED <<thread, nextHandle, devices, down>>

\* A report of an attached pad: the pause packet on the press of the pause
\* button, then the input state.  The bare Interface ignores its reports.  A
\* pause that was refused is not recorded: no property makes an exception for
\* one.
DeviceReport(p, state, pauseDown) ==
    LET h       == pads[p].handle
        pausing == pauseDown /\ ~pads[p].pauseHeld
        paused  == IF pausing THEN Sent(up, PausePressed(h)) ELSE up
    IN  /\ pads[p].open /\ h # 0
        /\ pads' = [pads EXCEPT ![p].pauseHeld = pauseDown]
        /\ reported' = [reported EXCEPT ![h] = state]
        /\ up' = Sent(paused, InputState(h, state))
        /\ lost' = lost \cup Refused(paused, InputState(h, state))
        /\ UNCHANGED <<thread, nextHandle, devices, down>>

\* Seeded fault: the lookup replaces whatever entry the handle had.
HandleSetPlayerIndex_Overwrites(pkt) ==
    /\ devices' = [g \in DOMAIN devices \cup {pkt.handle} |->
                       IF g = pkt.handle THEN Null ELSE devices[g]]
    /\ UNCHANGED pads

\* Seeded fault: an unset index is taken for no change.
HandleSetPlayerIndex_IgnoresUnset(pkt) ==
    LET h == pkt.handle IN
    /\ devices' = [g \in DOMAIN devices \cup {h} |->
                       IF g \in DOMAIN devices THEN devices[g] ELSE Null]
    /\ pads' = IF Live(h) /\ pkt.value # Unset
               THEN [pads EXCEPT ![devices[h]].index = pkt.value]
               ELSE pads

\* BackendConnection::HandlePacket for SetPlayerIndex.  devices[handle] makes
\* an entry with a null pointer when there is none.
HandleSetPlayerIndex(pkt) ==
    LET h == pkt.handle IN
    /\ devices' = [g \in DOMAIN devices \cup {h} |->
                       IF g \in DOMAIN devices THEN devices[g] ELSE Null]
    /\ pads' = IF Live(h) THEN [pads EXCEPT ![devices[h]].index = pkt.value]
                          ELSE pads

\* One packet of Connection::Parse on the manager thread.
BackendReceive ==
    /\ thread = "running"
    /\ down # <<>>
    /\ IF Head(down).type = "SetPlayerIndex"
       THEN HandleSetPlayerIndex(Head(down))
       ELSE UNCHANGED <<devices, pads>>
    /\ down' = Tail(down)
    /\ UNCHANGED <<thread, nextHandle, reported, up, lost>>

BackendNext ==
    \/ ManagerThread
    \/ \E p \in Pads :
          \/ DeviceAttached(p)
          \/ DeviceRemoved(p)
          \/ \E state \in Inputs, pauseDown \in BOOLEAN :
                DeviceReport(p, state, pauseDown)
    \/ BackendReceive
=============================================================================
