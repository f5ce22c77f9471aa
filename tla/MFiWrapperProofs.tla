-------------------------- MODULE MFiWrapperProofs --------------------------
(***************************************************************************)
(* Theorems about MFiWrapper, for any number of pads, handles, inputs and  *)
(* indices and any size of the socket buffer.                              *)
(***************************************************************************)
EXTENDS MFiWrapper, WellFoundedInduction,
        SequenceTheorems, TLAPS

USE ProtocolAssumption, BackendAssumption DEF ProtocolAssumption, BackendAssumption, Unset

-----------------------------------------------------------------------------
(* Facts about the channels.                                               *)

\* The five packets a program can build are packets.
LEMMA PacketTyping ==
    ASSUME NEW h \in Handles
    PROVE  /\ Connect(h) \in Packets
           /\ Disconnect(h) \in Packets
           /\ PausePressed(h) \in Packets
           /\ \A state \in Inputs : InputState(h, state) \in Packets
           /\ \A i \in Indices : SetPlayerIndexPacket(h, i) \in Packets
  BY DEF Packets, Connect, Disconnect, PausePressed, InputState,
         SetPlayerIndexPacket

\* What a packet of each type carries.
LEMMA PacketFields ==
    ASSUME NEW pkt \in Packets
    PROVE  /\ pkt.type \in PacketTypes
           /\ pkt.handle \in Handles
           /\ pkt.type = "InputState" => pkt.value \in Inputs
           /\ pkt.type = "SetPlayerIndex" => pkt.value \in Indices
  BY DEF Packets, PacketTypes

\* A write leaves a channel as it was or longer by its packet, and loses
\* packets only by recording them.
LEMMA SentFacts ==
    ASSUME NEW channel \in Seq(Packets), NEW pkt \in Packets
    PROVE  /\ Sent(channel, pkt) \in Seq(Packets)
           /\ \/ Sent(channel, pkt) = channel
              \/ Sent(channel, pkt) = Append(channel, pkt)
           /\ \A k \in 1..Len(Sent(channel, pkt)) :
                 \/ Sent(channel, pkt)[k] = pkt
                 \/ k \in 1..Len(channel) /\ Sent(channel, pkt)[k] = channel[k]
           /\ Refused(channel, pkt) \subseteq PacketTypes \X Handles
<1>1. pkt.type \in PacketTypes /\ pkt.handle \in Handles
  BY PacketFields
<1>2. Refused(channel, pkt) \subseteq PacketTypes \X Handles
  BY <1>1 DEF Refused
<1> QED
  BY <1>2 DEF Sent

\* The first packet and the rest of a channel that is not empty.
LEMMA HeadTail ==
    ASSUME NEW S, NEW channel \in Seq(S), channel # <<>>
    PROVE  /\ Head(channel) \in S
           /\ Tail(channel) \in Seq(S)
           /\ Len(channel) \in Nat \ {0}
           /\ Head(channel) = channel[1]
           /\ Len(Tail(channel)) = Len(channel) - 1
           /\ \A k \in 1..Len(Tail(channel)) : Tail(channel)[k] = channel[k + 1]
  OBVIOUS

-----------------------------------------------------------------------------
(* Type correctness.                                                       *)

\* Type correctness, step by step.
LEMMA InitTypeOK == Init => TypeOK
<1> SUFFICES ASSUME Init PROVE TypeOK
  OBVIOUS
<1>1. ChannelsOK
  BY DEF Init, ChannelsInit, ChannelsOK
<1>2. BackendOK
  <2>1. 1 \in 1..(MaxHandle + 1)
    OBVIOUS
  <2>2. NoConnection \in Connections
    BY DEF NoConnection, Connections
  <2> QED
    BY <2>1, <2>2 DEF Init, BackendInit, BackendOK
<1>3. FrontendOK
  <2>1. DOMAIN objects = {}
    BY DEF Init, FrontendInit
  <2>2. controllers \in Seq(Handles)
    BY DEF Init, FrontendInit
  <2>3. connected \in BOOLEAN /\ crashed \in BOOLEAN
    BY DEF Init, FrontendInit
  <2> QED
    BY <2>1, <2>2, <2>3 DEF FrontendOK
<1> QED
  BY <1>1, <1>2, <1>3 DEF TypeOK

\* A new pad: with a driver it takes the next handle, without one it takes none.
LEMMA AttachedTypeOK ==
    ASSUME TypeOK, NEW p \in Pads, DeviceAttached(p), UNCHANGED frontendVars
    PROVE  TypeOK'
<1> USE DEF TypeOK, DeviceAttached, frontendVars
<1>1. CASE p \in Recognised
  <2>1. nextHandle \in Handles /\ nextHandle + 1 \in 1..(MaxHandle + 1)
    BY <1>1 DEF AttachController, BackendOK, Handles
  <2>2. NewConnection(nextHandle) \in Connections
    BY <2>1 DEF NewConnection, NoConnection, Connections
  <2>3. ChannelsOK'
    <3>1. /\ up' = Sent(up, Connect(nextHandle))
          /\ lost' = lost \cup Refused(up, Connect(nextHandle))
          /\ UNCHANGED down
      BY <1>1 DEF AttachController
    <3>2. Connect(nextHandle) \in Packets
      BY <2>1, PacketTyping
    <3> QED
      BY <3>1, <3>2, SentFacts DEF ChannelsOK
  <2>4. BackendOK'
    BY <1>1, <2>1, <2>2 DEF AttachController, BackendOK
  <2> QED
    BY <2>3, <2>4 DEF FrontendOK
<1>2. CASE p \notin Recognised
  <2>1. NewConnection(0) \in Connections
    BY DEF NewConnection, NoConnection, Connections
  <2> QED
    BY <1>2, <2>1 DEF ConnectDummy, ChannelsOK, BackendOK, FrontendOK
<1> QED
  BY <1>1, <1>2

\* The removal of a pad.
LEMMA RemovedTypeOK ==
    ASSUME TypeOK, NEW p \in Pads, DeviceRemoved(p), UNCHANGED frontendVars
    PROVE  TypeOK'
<1> USE DEF TypeOK, DeviceRemoved, DetachController, frontendVars
<1> DEFINE h == pads[p].handle
<1>1. h \in Handles \/ h \notin DOMAIN devices
  BY DEF BackendOK, Connections
<1>2. NoConnection \in Connections
  BY DEF NoConnection, Connections
<1>3. ChannelsOK'
  <2>1. CASE h \in DOMAIN devices
    <3>1. Disconnect(h) \in Packets
      BY <1>1, <2>1, PacketTyping
    <3> QED
      BY <2>1, <3>1, SentFacts DEF ChannelsOK
  <2>2. CASE h \notin DOMAIN devices
    BY <2>2 DEF ChannelsOK
  <2> QED
    BY <2>1, <2>2
<1>4. BackendOK'
  BY <1>2 DEF BackendOK
<1> QED
  BY <1>3, <1>4 DEF FrontendOK

\* A report writes at most two packets.
LEMMA ReportTypeOK ==
    ASSUME TypeOK, NEW p \in Pads, NEW state \in Inputs,
           NEW pauseDown \in BOOLEAN, DeviceReport(p, state, pauseDown),
           UNCHANGED frontendVars
    PROVE  TypeOK'
<1> USE DEF TypeOK, frontendVars
<1> DEFINE h       == pads[p].handle
           pausing == pauseDown /\ ~pads[p].pauseHeld
           paused  == IF pausing THEN Sent(up, PausePressed(h)) ELSE up
<1>1. h \in Handles
  BY DEF DeviceReport, BackendOK, Connections
<1>2. paused \in Seq(Packets)
  BY <1>1, SentFacts, PacketTyping DEF ChannelsOK
<1>3. up' = Sent(paused, InputState(h, state)) /\ UNCHANGED down
  BY DEF DeviceReport
<1>4. up' \in Seq(Packets)
  BY <1>1, <1>2, <1>3, SentFacts, PacketTyping
<1>5. lost' \subseteq PacketTypes \X Handles
  BY <1>1, <1>2, SentFacts, PacketTyping DEF DeviceReport, ChannelsOK
<1>6. [pads EXCEPT ![p].pauseHeld = pauseDown] \in [Pads -> Connections]
  BY DEF BackendOK, Connections
<1>7. BackendOK'
  BY <1>1, <1>6 DEF DeviceReport, BackendOK
<1> QED
  BY <1>3, <1>4, <1>5, <1>7 DEF ChannelsOK, FrontendOK

\* A packet from the application, for an attached pad or not.
LEMMA BackendReceiveTypeOK ==
    ASSUME TypeOK, BackendReceive, UNCHANGED frontendVars
    PROVE  TypeOK'
<1> USE DEF TypeOK, frontendVars, BackendReceive
<1> DEFINE pkt == Head(down)
<1>1. pkt \in Packets /\ down' \in Seq(Packets)
  BY HeadTail DEF ChannelsOK
<1>2. ChannelsOK'
  BY <1>1 DEF ChannelsOK
<1>3. CASE pkt.type = "SetPlayerIndex"
  <2>1. pkt.handle \in Handles /\ pkt.value \in Indices
    BY <1>1, <1>3, PacketFields
  <2>2. pads' \in [Pads -> Connections]
    <3>1. CASE Live(pkt.handle)
      <4>1. devices[pkt.handle] \in Pads
        BY <3>1 DEF Live, BackendOK
      <4>2. pads[devices[pkt.handle]] \in Connections
        BY <4>1 DEF BackendOK
      <4>3. [pads[devices[pkt.handle]] EXCEPT !.index = pkt.value] \in Connections
        BY <4>2, <2>1 DEF Connections
      <4> QED
        BY <1>3, <3>1, <4>1, <4>3 DEF HandleSetPlayerIndex, BackendOK
    <3>2. CASE ~Live(pkt.handle)
      BY <1>3, <3>2 DEF HandleSetPlayerIndex, BackendOK
    <3> QED
      BY <3>1, <3>2
  <2> QED
    BY <1>2, <1>3, <2>1, <2>2 DEF HandleSetPlayerIndex, BackendOK, FrontendOK
<1>4. CASE pkt.type # "SetPlayerIndex"
  BY <1>2, <1>4 DEF BackendOK, FrontendOK
<1> QED
  BY <1>3, <1>4

-----------------------------------------------------------------------------
(* The frontend's steps.                                                   *)

\* SetControllerIndex writes at most one packet for its handle.
LEMMA SetControllerIndexFacts ==
    ASSUME ChannelsOK, NEW h \in Handles, NEW i \in Indices,
           SetControllerIndex(h, i)
    PROVE  /\ down' \in Seq(Packets)
           /\ lost' \subseteq PacketTypes \X Handles
           /\ \A k \in 1..Len(down') :
                 \/ down'[k].handle = h
                 \/ k \in 1..Len(down) /\ down'[k] = down[k]
<1> USE DEF ChannelsOK, SetControllerIndex
<1> DEFINE pkt == SetPlayerIndexPacket(h, i)
<1>1. pkt \in Packets /\ pkt.handle = h
  BY PacketTyping DEF SetPlayerIndexPacket
<1>2. CASE connected
  <2>1. down' = Sent(down, pkt) /\ lost' = lost \cup Refused(down, pkt)
    BY <1>2
  <2> HIDE DEF pkt
  <2>2. /\ Sent(down, pkt) \in Seq(Packets)
        /\ Refused(down, pkt) \subseteq PacketTypes \X Handles
        /\ \A k \in 1..Len(Sent(down, pkt)) :
              \/ Sent(down, pkt)[k] = pkt
              \/ k \in 1..Len(down) /\ Sent(down, pkt)[k] = down[k]
    BY <1>1, SentFacts
  <2> QED
    BY <1>1, <2>1, <2>2
<1>3. CASE ~connected
  BY <1>3
<1> QED
  BY <1>2, <1>3

\* The search finds a position of the array or nothing.
LEMMA FindFacts ==
    ASSUME controllers \in Seq(Handles), NEW h \in Handles
    PROVE  LET idx == FindControllerByHandle(h) IN
           \/ idx = -1 /\ ~Listed(h)
           \/ /\ idx \in 1..Len(controllers)
              /\ controllers[idx] = h
              /\ \A k \in 1..Len(controllers) : controllers[k] = h => idx <= k
<1> DEFINE found == {k \in 1..Len(controllers) : h # 0 /\ controllers[k] = h}
<1>1. CASE found = {}
  BY <1>1 DEF FindControllerByHandle, Listed, Handles
<1>2. CASE found # {}
  <2>1. found \subseteq Nat /\ found # {}
    BY <1>2
  <2>2. \E k \in found : \A j \in found : k <= j
    <3> DEFINE less == OpToRel(<, Nat)
    <3>1. \A j, k \in Nat : <<j, k>> \in less <=> j < k
      BY DEF OpToRel
    <3>2. IsWellFoundedOn(less, Nat)
      BY NatLessThanWellFounded
    <3> HIDE DEF less, found
    <3>3. PICK k \in found : \A j \in found : <<j, k>> \notin less
      BY <2>1, <3>2, WFMin
    <3>4. ASSUME NEW j \in found PROVE k <= j
      <4>1. j \in Nat /\ k \in Nat
        BY <2>1
      <4>2. ~(j < k)
        BY <4>1, <3>1, <3>3
      <4> QED
        BY <4>1, <4>2
    <3> QED
      BY <3>4
  <2>3. FindControllerByHandle(h) = CHOOSE k \in found : \A j \in found : k <= j
    BY <1>2 DEF FindControllerByHandle
  <2> HIDE DEF found
  <2>4. /\ FindControllerByHandle(h) \in found
        /\ \A j \in found : FindControllerByHandle(h) <= j
    BY <2>2, <2>3
  <2> QED
    BY <2>4 DEF found, Handles
<1> QED
  BY <1>1, <1>2


\* What one packet does to the frontend, by the type of the packet.
LEMMA ReceiveCases ==
    ASSUME ChannelsOK, FrontendReceive
    PROVE  LET pkt == Head(up) IN
           /\ pkt \in Packets
           /\ up # <<>> /\ up' = Tail(up) /\ up' \in Seq(Packets)
           /\ connected /\ UNCHANGED connected
           /\ \/ pkt.type = "Connect" /\ HandlePacketConnect(pkt.handle)
              \/ pkt.type = "Disconnect" /\ HandlePacketDisconnect(pkt.handle)
              \/ /\ pkt.type = "InputState"
                 /\ HandlePacketInputState(pkt.handle, pkt.value)
              \/ /\ pkt.type \notin {"Connect", "Disconnect", "InputState"}
                 /\ UNCHANGED <<controllers, objects, crashed, down, lost>>
<1> DEFINE pkt == Head(up)
<1>1. pkt \in Packets /\ up' \in Seq(Packets)
  BY HeadTail DEF ChannelsOK, FrontendReceive
<1>2. CASE pkt.type = "Connect"
  BY <1>1, <1>2 DEF FrontendReceive
<1>3. CASE pkt.type = "Disconnect"
  BY <1>1, <1>3 DEF FrontendReceive
<1>4. CASE pkt.type = "InputState"
  BY <1>1, <1>4 DEF FrontendReceive
<1>5. CASE pkt.type \notin {"Connect", "Disconnect", "InputState"}
  BY <1>1, <1>5 DEF FrontendReceive
<1> QED
  BY <1>2, <1>3, <1>4, <1>5

\* A new object.
LEMMA ConnectTypeOK ==
    ASSUME ChannelsOK, FrontendOK, NEW h \in Handles, HandlePacketConnect(h)
    PROVE  /\ down' \in Seq(Packets) /\ lost' \subseteq PacketTypes \X Handles
           /\ connected' \in BOOLEAN => FrontendOK'
<1>1. Unset \in Indices /\ Released \in Inputs
  OBVIOUS
<1>2. SetControllerIndex(h, Unset)
  BY DEF HandlePacketConnect
<1>3. down' \in Seq(Packets) /\ lost' \subseteq PacketTypes \X Handles
  BY <1>1, <1>2, SetControllerIndexFacts
<1>4. controllers' \in Seq(Handles)
  BY DEF HandlePacketConnect, FrontendOK
<1>5. /\ DOMAIN objects' \subseteq Handles
      /\ \A g \in DOMAIN objects' :
            objects'[g] \in [index : Indices, input : Inputs]
  BY <1>1 DEF HandlePacketConnect, FrontendOK
<1> QED
  BY <1>3, <1>4, <1>5 DEF HandlePacketConnect, FrontendOK

\* A controller taken out of the list, or an exception.
LEMMA DisconnectTypeOK ==
    ASSUME FrontendOK, NEW h \in Handles, HandlePacketDisconnect(h),
           UNCHANGED connected
    PROVE  FrontendOK'
<1> DEFINE idx == FindControllerByHandle(h)
<1>1. controllers' \in Seq(Handles)
  <2>1. CASE idx = -1
    BY <2>1 DEF HandlePacketDisconnect, FrontendOK
  <2>2. CASE idx # -1
    <3>1. idx \in 1..Len(controllers)
      BY <2>2, FindFacts DEF FrontendOK
    <3> HIDE DEF idx
    <3>2. /\ SubSeq(controllers, 1, idx - 1) \in Seq(Handles)
          /\ SubSeq(controllers, idx + 1, Len(controllers)) \in Seq(Handles)
      BY <3>1 DEF FrontendOK
    <3>3. controllers' = SubSeq(controllers, 1, idx - 1)
                         \o SubSeq(controllers, idx + 1, Len(controllers))
      BY <2>2 DEF HandlePacketDisconnect, idx
    <3> QED
      BY <3>2, <3>3, ConcatProperties
  <2> QED
    BY <2>1, <2>2
<1>2. crashed' \in BOOLEAN
  BY DEF HandlePacketDisconnect, FrontendOK
<1> QED
  BY <1>1, <1>2 DEF HandlePacketDisconnect, FrontendOK

\* A packet from the manager thread.
LEMMA FrontendReceiveTypeOK ==
    ASSUME TypeOK, FrontendReceive, UNCHANGED backendVars
    PROVE  TypeOK'
<1> USE DEF TypeOK
<1> DEFINE pkt == Head(up)
<1>1. /\ pkt \in Packets /\ pkt.handle \in Handles
      /\ up' \in Seq(Packets) /\ UNCHANGED connected
  BY ReceiveCases, PacketFields
<1>2. BackendOK'
  BY DEF backendVars, BackendOK
<1>3. CASE pkt.type = "Connect" /\ HandlePacketConnect(pkt.handle)
  BY <1>1, <1>2, <1>3, ConnectTypeOK DEF ChannelsOK, FrontendOK
<1>4. CASE pkt.type = "Disconnect" /\ HandlePacketDisconnect(pkt.handle)
  <2>1. FrontendOK'
    BY <1>1, <1>4, DisconnectTypeOK
  <2> QED
    BY <1>1, <1>2, <1>4, <2>1 DEF HandlePacketDisconnect, ChannelsOK
<1>5. CASE pkt.type = "InputState" /\ HandlePacketInputState(pkt.handle, pkt.value)
  <2>1. pkt.value \in Inputs
    BY <1>1, <1>5, PacketFields
  <2>2. FrontendOK'
    BY <1>1, <1>5, <2>1 DEF HandlePacketInputState, FrontendOK
  <2> QED
    BY <1>1, <1>2, <1>5, <2>2 DEF HandlePacketInputState, ChannelsOK
<1>6. CASE UNCHANGED <<controllers, objects, crashed, down, lost>>
  BY <1>1, <1>2, <1>6 DEF ChannelsOK, FrontendOK
<1> QED
  BY <1>3, <1>4, <1>5, <1>6, ReceiveCases

\* A call of the application.
LEMMA SetPlayerIndexTypeOK ==
    ASSUME TypeOK, NEW h \in Handles, NEW i \in Indices,
           SetPlayerIndex(h, i), UNCHANGED backendVars
    PROVE  TypeOK'
<1> USE DEF TypeOK, SetPlayerIndex
<1>1. down' \in Seq(Packets) /\ lost' \subseteq PacketTypes \X Handles
  BY SetControllerIndexFacts
<1>2. ChannelsOK'
  BY <1>1 DEF ChannelsOK
<1>3. BackendOK'
  BY DEF backendVars, BackendOK
<1>4. FrontendOK'
  BY DEF FrontendOK
<1> QED
  BY <1>2, <1>3, <1>4

-----------------------------------------------------------------------------
(* The steps of the whole, one by one.                                     *)

\* Next as the list of its actions.
LEMMA NextCases ==
    ASSUME Next
    PROVE  \/ Startup
           \/ ManagerThread /\ UNCHANGED frontendVars
           \/ \E p \in Pads : DeviceAttached(p) /\ UNCHANGED frontendVars
           \/ \E p \in Pads : DeviceRemoved(p) /\ UNCHANGED frontendVars
           \/ \E p \in Pads, state \in Inputs, pauseDown \in BOOLEAN :
                 DeviceReport(p, state, pauseDown) /\ UNCHANGED frontendVars
           \/ BackendReceive /\ UNCHANGED frontendVars
           \/ FrontendReceive /\ UNCHANGED backendVars
           \/ \E h \in Handles, i \in Indices :
                 SetPlayerIndex(h, i) /\ UNCHANGED backendVars
  BY DEF Next, BackendStep, BackendNext, FrontendStep

\* Every step is type correct.
LEMMA NextTypeOK == TypeOK /\ [Next]_vars => TypeOK'
<1> SUFFICES ASSUME TypeOK, [Next]_vars PROVE TypeOK'
  OBVIOUS
<1>1. CASE Startup
  BY <1>1 DEF TypeOK, Startup, HACKStart, ChannelsOK, BackendOK, FrontendOK
<1>2. CASE ManagerThread /\ UNCHANGED frontendVars
  BY <1>2 DEF TypeOK, ManagerThread, frontendVars, ChannelsOK, BackendOK, FrontendOK
<1>3. CASE UNCHANGED vars
  BY <1>3 DEF TypeOK, vars, backendVars, frontendVars, ChannelsOK, BackendOK,
     FrontendOK
<1> QED
  BY <1>1, <1>2, <1>3, NextCases, AttachedTypeOK, RemovedTypeOK, ReportTypeOK,
     BackendReceiveTypeOK, FrontendReceiveTypeOK, SetPlayerIndexTypeOK

\* Every variable keeps its type: whatever is plugged in, sent or lost, the
\* tables of backend.cpp and frontend.mm hold handles that were given out and
\* the sockets hold well-formed packets.
THEOREM TypeCorrect == Spec => []TypeOK
  BY InitTypeOK, NextTypeOK, PTL DEF Spec

-----------------------------------------------------------------------------
(***************************************************************************)
(* The handle table.  HandlesMatchPads alone is not inductive: attaching a *)
(* pad keeps it because the next handle is in no entry yet, and a late     *)
(* SetPlayerIndex keeps NullEntriesAreSpent because its handle was given   *)
(* out by an earlier attachment.                                           *)
(***************************************************************************)
HandleInv == HandlesMatchPads /\ NullEntriesAreSpent /\ HandlesAreIssued

\* The table is empty and no handle was given out.
LEMMA InitHandleInv == Init => HandleInv
<1> SUFFICES ASSUME Init PROVE HandleInv
  OBVIOUS
<1>1. DOMAIN devices = {} /\ DOMAIN objects = {}
  BY DEF Init, BackendInit, FrontendInit
<1>2. pads = [p \in Pads |-> NoConnection] /\ up = <<>> /\ down = <<>>
  BY DEF Init, BackendInit, ChannelsInit
<1> QED
  BY <1>1, <1>2 DEF HandleInv, HandlesMatchPads, NullEntriesAreSpent,
     HandlesAreIssued, NoConnection

\* The next handle is in no entry, so that its new one leads to its pad.
LEMMA AttachedHandleInv ==
    ASSUME TypeOK, HandleInv, NEW p \in Pads, DeviceAttached(p),
           UNCHANGED frontendVars
    PROVE  HandleInv'
<1> USE DEF TypeOK, HandleInv, frontendVars
<1>1. CASE p \in Recognised
  <2> DEFINE h0 == nextHandle
             new == NewConnection(h0)
  <2>1. /\ h0 \in Handles /\ nextHandle' = h0 + 1 /\ h0 # 0
        /\ DOMAIN devices' = DOMAIN devices \cup {h0} /\ devices'[h0] = p
        /\ \A h \in DOMAIN devices : h # h0 => devices'[h] = devices[h]
        /\ pads' = [pads EXCEPT ![p] = new]
        /\ up' = Sent(up, Connect(h0)) /\ UNCHANGED down
    BY <1>1 DEF DeviceAttached, AttachController, BackendOK, Handles
  <2>2. new.open /\ new.handle = h0
    BY DEF NewConnection, NoConnection
  <2>3. ~pads[p].open /\ pads[p].handle = 0
    BY DEF DeviceAttached, HandlesAreIssued
  <2>4. \A h \in DOMAIN devices : h < h0 /\ h \in Nat
    BY DEF NullEntriesAreSpent, BackendOK, Handles
  <2>5. \A q \in Pads : pads'[q] = IF q = p THEN new ELSE pads[q]
    BY <2>1 DEF BackendOK
  <2>6. \A q \in Pads : pads[q].open /\ pads[q].handle # 0 =>
           Live(pads[q].handle) /\ devices[pads[q].handle] = q
    BY DEF HandlesMatchPads
  <2> HIDE DEF new, h0
  <2>7. HandlesMatchPads'
    <3>1. ASSUME NEW h \in DOMAIN devices', devices'[h] # Null
          PROVE  pads'[devices'[h]].open /\ pads'[devices'[h]].handle = h
      BY <2>1, <2>2, <2>3, <2>4, <2>5, <3>1 DEF HandlesMatchPads, BackendOK
    <3>2. ASSUME NEW q \in Pads, pads'[q].open, pads'[q].handle # 0
          PROVE  /\ pads'[q].handle \in DOMAIN devices'
                 /\ devices'[pads'[q].handle] = q
      <4>1. CASE q = p
        BY <4>1, <2>1, <2>2, <2>5 DEF Live
      <4>2. CASE q # p
        BY <4>2, <3>2, <2>1, <2>4, <2>5, <2>6 DEF Live
      <4> QED
        BY <4>1, <4>2
    <3> QED
      BY <3>1, <3>2 DEF HandlesMatchPads, Live
  <2>8. NullEntriesAreSpent'
    <3>1. ASSUME NEW h \in DOMAIN devices'
          PROVE  /\ h < nextHandle'
                 /\ devices'[h] = Null => \A q \in Pads : pads'[q].handle # h
      <4>1. CASE h = h0
        BY <4>1, <2>1 DEF BackendOK, Handles
      <4>2. CASE h # h0
        <5>1. h \in DOMAIN devices /\ h < h0 /\ devices'[h] = devices[h]
          BY <4>2, <2>1, <2>4
        <5> QED
          BY <5>1, <4>2, <2>1, <2>2, <2>4, <2>5 DEF NullEntriesAreSpent, Handles
      <4> QED
        BY <4>1, <4>2
    <3> QED
      BY <3>1 DEF NullEntriesAreSpent
  <2>9. HandlesAreIssued'
    <3>1. \A k \in 1..Len(up') : up'[k].handle < nextHandle'
      <4>1. Connect(h0) \in Packets /\ Connect(h0).handle = h0
        BY <2>1, PacketTyping DEF Connect
      <4>2. \A k \in 1..Len(up') :
               \/ up'[k] = Connect(h0)
               \/ k \in 1..Len(up) /\ up'[k] = up[k]
        BY <4>1, <2>1, SentFacts DEF ChannelsOK
      <4>3. \A k \in 1..Len(up) : up[k].handle < h0 /\ up[k].handle \in Nat
        BY PacketFields DEF HandlesAreIssued, ChannelsOK, Handles, h0
      <4> QED
        BY <2>1, <4>1, <4>2, <4>3 DEF Handles
    <3>2. \A k \in 1..Len(down) : down[k].handle < h0 /\ down[k].handle \in Nat
      BY PacketFields DEF HandlesAreIssued, ChannelsOK, Handles, h0
    <3>3. \A h \in DOMAIN objects : h < h0 /\ h \in Nat
      BY DEF HandlesAreIssued, FrontendOK, Handles, h0
    <3> QED
      BY <2>1, <2>2, <2>5, <3>1, <3>2, <3>3 DEF HandlesAreIssued, Handles
  <2> QED
    BY <2>7, <2>8, <2>9
<1>2. CASE p \notin Recognised
  <2>1. /\ UNCHANGED <<nextHandle, devices, up, down, objects>>
        /\ pads' = [pads EXCEPT ![p] = NewConnection(0)]
    BY <1>2 DEF DeviceAttached, ConnectDummy
  <2>2. NewConnection(0).open /\ NewConnection(0).handle = 0
    BY DEF NewConnection, NoConnection
  <2>3. ~pads[p].open /\ pads[p].handle = 0
    BY DEF DeviceAttached, HandlesAreIssued
  <2>4. \A q \in Pads : q # p => pads'[q] = pads[q]
    BY <2>1 DEF BackendOK
  <2>5. pads'[p] = NewConnection(0)
    BY <2>1 DEF BackendOK
  <2>6. \A h \in DOMAIN devices : h # 0 /\ devices[h] # p
    BY <2>3 DEF HandlesMatchPads, BackendOK, Handles
  <2>7. HandlesMatchPads'
    BY <2>1, <2>2, <2>4, <2>5, <2>6 DEF HandlesMatchPads, Live, BackendOK
  <2>8. NullEntriesAreSpent'
    BY <2>1, <2>2, <2>4, <2>5, <2>6 DEF NullEntriesAreSpent
  <2>9. HandlesAreIssued'
    BY <2>1, <2>2, <2>4, <2>5 DEF HandlesAreIssued
  <2> QED
    BY <2>7, <2>8, <2>9
<1> QED
  BY <1>1, <1>2

\* The entry and the handle of a removed pad go together.
LEMMA RemovedHandleInv ==
    ASSUME TypeOK, HandleInv, NEW p \in Pads, DeviceRemoved(p),
           UNCHANGED frontendVars
    PROVE  HandleInv'
<1> USE DEF TypeOK, HandleInv, frontendVars
<1> DEFINE h0 == pads[p].handle
<1>1. /\ DOMAIN devices' = DOMAIN devices \ {h0}
      /\ \A h \in DOMAIN devices' : devices'[h] = devices[h]
      /\ pads' = [pads EXCEPT ![p] = NoConnection]
      /\ UNCHANGED <<nextHandle, down, objects>>
      /\ up' = up \/ (h0 \in DOMAIN devices /\ up' = Sent(up, Disconnect(h0)))
  BY DEF DeviceRemoved, DetachController
<1>2. NoConnection.open = FALSE /\ NoConnection.handle = 0
  BY DEF NoConnection
<1>3. \A q \in Pads : pads'[q] = IF q = p THEN NoConnection ELSE pads[q]
  BY <1>1 DEF BackendOK
<1>4. \A h \in DOMAIN devices : h # 0 /\ h \in Nat /\ h < nextHandle
  BY DEF NullEntriesAreSpent, BackendOK, Handles
<1>5. pads[p].open
  BY DEF DeviceRemoved
<1> HIDE DEF h0
<1>6. \A q \in Pads : pads[q].open /\ pads[q].handle # 0 =>
         /\ pads[q].handle \in DOMAIN devices
         /\ devices[pads[q].handle] = q
  BY DEF HandlesMatchPads, Live
<1>7. \A h \in DOMAIN devices : devices[h] = p => h = h0
  BY DEF HandlesMatchPads, BackendOK, h0
<1>8. HandlesMatchPads'
  <2>1. ASSUME NEW h \in DOMAIN devices', devices'[h] # Null
        PROVE  pads'[devices'[h]].open /\ pads'[devices'[h]].handle = h
    <3>1. /\ h \in DOMAIN devices /\ h # h0
          /\ devices'[h] = devices[h] /\ devices[h] \in Pads
      BY <1>1, <2>1 DEF BackendOK
    <3> QED
      BY <1>3, <1>7, <2>1, <3>1 DEF HandlesMatchPads
  <2>2. ASSUME NEW q \in Pads, pads'[q].open, pads'[q].handle # 0
        PROVE  /\ pads'[q].handle \in DOMAIN devices'
               /\ devices'[pads'[q].handle] = q
    <3>1. q # p /\ pads'[q] = pads[q]
      BY <1>2, <1>3, <2>2
    <3>2. pads[q].handle \in DOMAIN devices /\ devices[pads[q].handle] = q
      BY <1>6, <2>2, <3>1
    <3>3. pads[q].handle # h0
      BY <1>5, <1>6, <2>2, <3>1, <3>2 DEF h0
    <3> QED
      BY <1>1, <3>1, <3>2, <3>3
  <2> QED
    BY <2>1, <2>2 DEF HandlesMatchPads, Live, BackendOK
<1>9. NullEntriesAreSpent'
  BY <1>1, <1>2, <1>3, <1>4 DEF NullEntriesAreSpent
<1>10. HandlesAreIssued'
  <2>1. \A k \in 1..Len(up') : up'[k].handle < nextHandle
    <3>1. CASE up' = up
      BY <3>1 DEF HandlesAreIssued
    <3>2. CASE h0 \in DOMAIN devices /\ up' = Sent(up, Disconnect(h0))
      <4>1. Disconnect(h0) \in Packets /\ Disconnect(h0).handle = h0
        BY <3>2, PacketTyping DEF Disconnect, BackendOK
      <4>2. \A k \in 1..Len(up') :
               \/ up'[k] = Disconnect(h0)
               \/ k \in 1..Len(up) /\ up'[k] = up[k]
        BY <3>2, <4>1, SentFacts DEF ChannelsOK
      <4> QED
        BY <1>4, <3>2, <4>1, <4>2 DEF HandlesAreIssued
    <3> QED
      BY <1>1, <3>1, <3>2
  <2> QED
    BY <1>1, <1>2, <1>3, <2>1 DEF HandlesAreIssued
<1> QED
  BY <1>8, <1>9, <1>10

\* A report of an attached pad carries a handle that was given out.
LEMMA ReportHandleInv ==
    ASSUME TypeOK, HandleInv, NEW p \in Pads, NEW state \in Inputs,
           NEW pauseDown \in BOOLEAN, DeviceReport(p, state, pauseDown),
           UNCHANGED frontendVars
    PROVE  HandleInv'
<1> USE DEF TypeOK, HandleInv, frontendVars
<1> DEFINE h       == pads[p].handle
           pausing == pauseDown /\ ~pads[p].pauseHeld
           paused  == IF pausing THEN Sent(up, PausePressed(h)) ELSE up
<1>1. h \in Handles /\ h < nextHandle
  BY DEF DeviceReport, HandlesMatchPads, Live, NullEntriesAreSpent, BackendOK,
     Connections
<1>2. /\ PausePressed(h) \in Packets /\ PausePressed(h).handle = h
      /\ InputState(h, state) \in Packets /\ InputState(h, state).handle = h
  BY <1>1, PacketTyping DEF PausePressed, InputState
<1>3. /\ paused \in Seq(Packets)
      /\ \A k \in 1..Len(paused) : paused[k].handle < nextHandle
  <2>1. CASE pausing
    <3>1. paused = Sent(up, PausePressed(h))
      BY <2>1
    <3> HIDE DEF paused
    <3>2. /\ paused \in Seq(Packets)
          /\ \A k \in 1..Len(paused) :
                \/ paused[k] = PausePressed(h)
                \/ k \in 1..Len(up) /\ paused[k] = up[k]
      BY <1>2, <3>1, SentFacts DEF ChannelsOK
    <3> QED
      BY <1>1, <1>2, <3>2 DEF HandlesAreIssued
  <2>2. CASE ~pausing
    BY <2>2 DEF ChannelsOK, HandlesAreIssued
  <2> QED
    BY <2>1, <2>2
<1>4. up' = Sent(paused, InputState(h, state))
  BY DEF DeviceReport
<1>5. /\ UNCHANGED <<nextHandle, devices, down, objects>>
      /\ pads' = [pads EXCEPT ![p].pauseHeld = pauseDown]
  BY DEF DeviceReport
<1> HIDE DEF paused, pausing, h
<1>6. \A k \in 1..Len(up') : up'[k].handle < nextHandle
  <2>1. \A k \in 1..Len(up') :
           \/ up'[k] = InputState(h, state)
           \/ k \in 1..Len(paused) /\ up'[k] = paused[k]
    BY <1>2, <1>3, <1>4, SentFacts
  <2> QED
    BY <1>1, <1>2, <1>3, <2>1
<1>7. \A q \in Pads : pads'[q].open = pads[q].open /\ pads'[q].handle = pads[q].handle
  BY <1>5 DEF BackendOK, Connections
<1>8. HandlesMatchPads'
  <2>1. \A g \in DOMAIN devices : devices[g] # Null =>
           devices[g] \in Pads /\ pads[devices[g]].open /\ pads[devices[g]].handle = g
    BY DEF HandlesMatchPads, BackendOK
  <2> QED
    BY <1>5, <1>7, <2>1 DEF HandlesMatchPads, Live
<1>9. NullEntriesAreSpent' /\ HandlesAreIssued'
  BY <1>5, <1>6, <1>7 DEF NullEntriesAreSpent, HandlesAreIssued
<1> QED
  BY <1>8, <1>9

\* A late SetPlayerIndex leaves a null entry for a spent handle.
LEMMA BackendReceiveHandleInv ==
    ASSUME TypeOK, HandleInv, BackendReceive, UNCHANGED frontendVars
    PROVE  HandleInv'
<1> USE DEF TypeOK, HandleInv, frontendVars
<1> DEFINE pkt == Head(down)
           h0  == pkt.handle
<1>1. /\ down \in Seq(Packets) /\ down # <<>> /\ down' = Tail(down)
      /\ UNCHANGED <<nextHandle, up, objects>>
  BY DEF BackendReceive, ChannelsOK
<1>2. pkt \in Packets /\ h0 \in Handles /\ h0 < nextHandle
  BY <1>1, HeadTail, PacketFields DEF HandlesAreIssued
<1>3. \A k \in 1..Len(down') : down'[k].handle < nextHandle
  BY <1>1, HeadTail DEF HandlesAreIssued
<1>4. CASE pkt.type = "SetPlayerIndex"
  <2>1. /\ DOMAIN devices' = DOMAIN devices \cup {h0}
        /\ \A h \in DOMAIN devices : devices'[h] = devices[h]
        /\ h0 \notin DOMAIN devices => devices'[h0] = Null
    BY <1>4 DEF BackendReceive, HandleSetPlayerIndex
  <2>2. \A q \in Pads : pads'[q].open = pads[q].open /\ pads'[q].handle = pads[q].handle
    <3>1. CASE Live(h0)
      <4>1. pads' = [pads EXCEPT ![devices[h0]].index = pkt.value]
        BY <1>4, <3>1 DEF BackendReceive, HandleSetPlayerIndex
      <4> QED
        BY <4>1 DEF BackendOK, Connections
    <3>2. CASE ~Live(h0)
      BY <1>4, <3>2 DEF BackendReceive, HandleSetPlayerIndex
    <3> QED
      BY <3>1, <3>2
  <2>3. h0 \notin DOMAIN devices => \A q \in Pads : pads[q].handle # h0
    <3> SUFFICES ASSUME h0 \notin DOMAIN devices, NEW q \in Pads
                 PROVE  pads[q].handle # h0
      OBVIOUS
    <3>1. pads[q].open /\ pads[q].handle # 0 => pads[q].handle \in DOMAIN devices
      BY DEF HandlesMatchPads, Live
    <3>2. ~pads[q].open => pads[q].handle = 0
      BY DEF HandlesAreIssued
    <3>3. h0 # 0
      BY <1>2 DEF Handles
    <3> QED
      BY <3>1, <3>2, <3>3
  <2> HIDE DEF h0, pkt
  <2>4. HandlesMatchPads'
    <3>1. \A g \in DOMAIN devices : devices[g] # Null =>
             devices[g] \in Pads /\ pads[devices[g]].open /\ pads[devices[g]].handle = g
      BY DEF HandlesMatchPads, BackendOK
    <3> QED
      BY <2>1, <2>2, <3>1 DEF HandlesMatchPads, Live
  <2>5. NullEntriesAreSpent'
    <3>1. ASSUME NEW h \in DOMAIN devices'
          PROVE  /\ h < nextHandle
                 /\ devices'[h] = Null => \A q \in Pads : pads'[q].handle # h
      <4>1. CASE h \in DOMAIN devices
        BY <4>1, <2>1, <2>2 DEF NullEntriesAreSpent
      <4>2. CASE h \notin DOMAIN devices
        BY <4>2, <1>2, <2>1, <2>2, <2>3
      <4> QED
        BY <4>1, <4>2
    <3> QED
      BY <1>1, <3>1 DEF NullEntriesAreSpent
  <2>6. HandlesAreIssued'
    BY <1>1, <1>3, <2>2 DEF HandlesAreIssued
  <2> QED
    BY <2>4, <2>5, <2>6
<1>5. CASE pkt.type # "SetPlayerIndex"
  BY <1>1, <1>3, <1>5 DEF BackendReceive, HandlesMatchPads, Live,
     NullEntriesAreSpent, HandlesAreIssued
<1> QED
  BY <1>4, <1>5

\* Steps that leave the handle table alone keep what is said of it.
LEMMA TableUnchanged ==
    ASSUME HandleInv, UNCHANGED <<nextHandle, devices, pads>>
    PROVE  HandlesMatchPads' /\ NullEntriesAreSpent'
  BY DEF HandleInv, HandlesMatchPads, NullEntriesAreSpent, Live

\* An object is made for a handle that was given out.
LEMMA FrontendReceiveHandleInv ==
    ASSUME TypeOK, HandleInv, FrontendReceive, UNCHANGED backendVars
    PROVE  HandleInv'
<1> USE DEF TypeOK, HandleInv, backendVars
<1> DEFINE pkt == Head(up)
           h0  == pkt.handle
<1>1. /\ pkt \in Packets /\ h0 \in Handles /\ up' = Tail(up) /\ up # <<>>
      /\ pkt.value \in Inputs \/ pkt.type # "InputState"
  BY ReceiveCases, PacketFields
<1>2. h0 < nextHandle /\ \A k \in 1..Len(up') : up'[k].handle < nextHandle
  BY <1>1, HeadTail DEF HandlesAreIssued, ChannelsOK
<1>3. \A k \in 1..Len(down') : down'[k].handle < nextHandle
  <2>1. CASE HandlePacketConnect(h0)
    <3>1. SetControllerIndex(h0, Unset)
      BY <2>1 DEF HandlePacketConnect
    <3> HIDE DEF h0, pkt
    <3>2. \A k \in 1..Len(down') :
             \/ down'[k].handle = h0
             \/ k \in 1..Len(down) /\ down'[k] = down[k]
      BY <1>1, <3>1, SetControllerIndexFacts
    <3> QED
      BY <1>2, <3>2 DEF HandlesAreIssued
  <2>2. CASE UNCHANGED down
    BY <2>2 DEF HandlesAreIssued
  <2> QED
    BY <2>1, <2>2, ReceiveCases DEF HandlePacketDisconnect, HandlePacketInputState
<1>4. DOMAIN objects' \subseteq DOMAIN objects \cup {h0}
  BY <1>1, ReceiveCases DEF HandlePacketConnect, HandlePacketDisconnect,
     HandlePacketInputState
<1>5. HandlesAreIssued'
  BY <1>2, <1>3, <1>4 DEF HandlesAreIssued
<1> QED
  BY <1>5, TableUnchanged

\* The application only knows handles that were given out.
LEMMA SetPlayerIndexHandleInv ==
    ASSUME TypeOK, HandleInv, NEW h \in Handles, NEW i \in Indices,
           SetPlayerIndex(h, i), UNCHANGED backendVars
    PROVE  HandleInv'
<1> USE DEF TypeOK, HandleInv, backendVars, SetPlayerIndex
<1>1. h < nextHandle
  BY DEF HandlesAreIssued
<1>2. \A k \in 1..Len(down') :
         \/ down'[k].handle = h
         \/ k \in 1..Len(down) /\ down'[k] = down[k]
  BY SetControllerIndexFacts
<1>3. DOMAIN objects' = DOMAIN objects
  OBVIOUS
<1>4. HandlesAreIssued'
  BY <1>1, <1>2, <1>3 DEF HandlesAreIssued
<1> QED
  BY <1>4, TableUnchanged

\* Every step keeps the inductive invariant of the handle table.
LEMMA NextHandleInv == TypeOK /\ HandleInv /\ [Next]_vars => HandleInv'
<1> SUFFICES ASSUME TypeOK, HandleInv, [Next]_vars PROVE HandleInv'
  OBVIOUS
<1>1. CASE UNCHANGED <<nextHandle, devices, pads, up, down, objects>>
  BY <1>1, TableUnchanged DEF HandleInv, HandlesAreIssued
<1>2. CASE Startup
  BY <1>1, <1>2 DEF Startup
<1>3. CASE ManagerThread /\ UNCHANGED frontendVars
  BY <1>1, <1>3 DEF ManagerThread, frontendVars
<1>4. CASE UNCHANGED vars
  BY <1>1, <1>4 DEF vars, backendVars, frontendVars
<1> QED
  BY <1>2, <1>3, <1>4, NextCases, AttachedHandleInv, RemovedHandleInv,
     ReportHandleInv, BackendReceiveHandleInv, FrontendReceiveHandleInv,
     SetPlayerIndexHandleInv

\* The inductive invariant of the handle table: table and pads point at each
\* other, null entries are spent, and only issued handles are about.
THEOREM HandleInvariant == Spec => []HandleInv
  BY InitTypeOK, NextTypeOK, InitHandleInv, NextHandleInv, PTL DEF Spec

\* The map of backend.cpp never leads to a deleted interface and every attached
\* pad can be reached, however removals and SetPlayerIndex packets cross.
THEOREM TableIsSound == Spec => []HandlesMatchPads
  BY HandleInvariant, PTL DEF HandleInv

\* A null entry of the map is only ever left for a handle that no pad has and
\* that will not be given out again.
THEOREM NullEntriesAreHarmless == Spec => []NullEntriesAreSpent
  BY HandleInvariant, PTL DEF HandleInv

-----------------------------------------------------------------------------
(* What the application sees of its controllers: first the list, that is,   *)
(* its order, what it lags behind by, what the process can die of, and that *)
(* it is the list Lifecycle promises.                                       *)

(***************************************************************************)
(* The inductive invariant.  It is stated of a channel c and the losses l, *)
(* so that it can be said between the two writes of one report.            *)
(*                                                                         *)
(* A Connect packet is about a newer controller than all packets before it *)
(* and all objects made so far.                                            *)
(***************************************************************************)
ConnectsAreNew(c) ==
    \A k \in 1..Len(c) : c[k].type = "Connect" =>
        /\ \A h \in DOMAIN objects : h < c[k].handle
        /\ \A j \in 1..(k - 1) : c[j].handle < c[k].handle

\* A Disconnect packet is the only one about its controller, whose pad is gone,
\* and finds the controller in the list unless the Connect packet was lost.
DisconnectsAreDue(c, l) ==
    \A k \in 1..Len(c) : c[k].type = "Disconnect" =>
        /\ ~Live(c[k].handle)
        /\ \A j \in 1..Len(c) :
              c[j].type = "Disconnect" /\ c[j].handle = c[k].handle => j = k
        /\ \/ Listed(c[k].handle)
           \/ <<"Connect", c[k].handle>> \in l
           \/ InTransit(c, "Connect", c[k].handle)

\* An attached controller is in the list or on its way there.
Appears(c, l, h) ==
    Live(h) => \/ Listed(h)
               \/ InTransit(c, "Connect", h) \/ <<"Connect", h>> \in l

\* A removed controller that is in the list, or on its way there, will be taken
\* out again.
Vanishes(c, l, h) ==
    /\ h < nextHandle /\ ~Live(h)
    /\ Listed(h) \/ InTransit(c, "Connect", h)
    => InTransit(c, "Disconnect", h) \/ <<"Disconnect", h>> \in l

ChannelInv(c, l) ==
    /\ ConnectsAreNew(c)
    /\ DisconnectsAreDue(c, l)
    /\ \A h \in Handles : Appears(c, l, h) /\ Vanishes(c, l, h)

ListedHaveObjects == \A k \in 1..Len(controllers) : controllers[k] \in DOMAIN objects

ListInv ==
    /\ ChannelInv(up, lost)
    /\ ControllersInOrder /\ ListedHaveObjects
    /\ CrashNeedsLostConnect

-----------------------------------------------------------------------------
(* The channel. *)

\* What is in a channel after one more packet.
LEMMA InTransitOfAppend ==
    ASSUME NEW c \in Seq(Packets), NEW pkt \in Packets
    PROVE  /\ Append(c, pkt) \in Seq(Packets)
           /\ Len(Append(c, pkt)) = Len(c) + 1 /\ Len(c) \in Nat
           /\ \A k \in 1..Len(c) : Append(c, pkt)[k] = c[k]
           /\ Append(c, pkt)[Len(c) + 1] = pkt
           /\ \A type, h : InTransit(Append(c, pkt), type, h) <=>
                 InTransit(c, type, h) \/ (pkt.type = type /\ pkt.handle = h)
<1>1. /\ Append(c, pkt) \in Seq(Packets)
      /\ Len(Append(c, pkt)) = Len(c) + 1 /\ Len(c) \in Nat
      /\ \A k \in 1..Len(c) : Append(c, pkt)[k] = c[k]
      /\ Append(c, pkt)[Len(c) + 1] = pkt
  BY AppendProperties
<1> DEFINE d == Append(c, pkt)
<1> HIDE DEF d
<1>2. ASSUME NEW type, NEW h
      PROVE  InTransit(d, type, h) <=>
                InTransit(c, type, h) \/ (pkt.type = type /\ pkt.handle = h)
  BY <1>1 DEF InTransit, d
<1> QED BY <1>1, <1>2 DEF d

\* What is in a channel when its first packet was taken.
LEMMA InTransitOfTail ==
    ASSUME NEW c \in Seq(Packets), c # <<>>
    PROVE  /\ Tail(c) \in Seq(Packets) /\ Len(Tail(c)) = Len(c) - 1
           /\ Len(c) \in Nat \ {0} /\ Head(c) = c[1]
           /\ \A k \in 1..Len(Tail(c)) : Tail(c)[k] = c[k + 1]
           /\ \A k \in 1..Len(c) : k # 1 => k - 1 \in 1..Len(Tail(c))
                                           /\ c[k] = Tail(c)[k - 1]
           /\ \A type, h : InTransit(c, type, h) <=>
                 \/ InTransit(Tail(c), type, h)
                 \/ Head(c).type = type /\ Head(c).handle = h
<1> DEFINE d == Tail(c)
<1>1. /\ d \in Seq(Packets) /\ Len(d) = Len(c) - 1
      /\ Len(c) \in Nat \ {0} /\ Head(c) = c[1]
      /\ \A k \in 1..Len(d) : d[k] = c[k + 1]
  BY HeadTail
<1> HIDE DEF d
<1>2. \A k \in 1..Len(c) : k # 1 => k - 1 \in 1..Len(d) /\ c[k] = d[k - 1]
  BY <1>1
<1>3. ASSUME NEW type, NEW h
      PROVE  InTransit(c, type, h) <=>
                InTransit(d, type, h) \/ (Head(c).type = type /\ Head(c).handle = h)
  <2>1. ASSUME InTransit(c, type, h)
        PROVE  InTransit(d, type, h) \/ (Head(c).type = type /\ Head(c).handle = h)
    BY <1>1, <1>2, <2>1 DEF InTransit
  <2>2. ASSUME InTransit(d, type, h) PROVE InTransit(c, type, h)
    <3>1. PICK k \in 1..Len(d) : d[k].type = type /\ d[k].handle = h
      BY <2>2 DEF InTransit
    <3>2. k + 1 \in 1..Len(c) /\ c[k + 1] = d[k]
      BY <1>1
    <3> QED BY <3>1, <3>2 DEF InTransit
  <2>3. Head(c).type = type /\ Head(c).handle = h => InTransit(c, type, h)
    BY <1>1 DEF InTransit
  <2> QED BY <2>1, <2>2, <2>3
<1> QED BY <1>1, <1>2, <1>3 DEF d

\* A longer record of losses excuses no less.
LEMMA MoreLosses ==
    ASSUME NEW c, NEW l, NEW m, l \subseteq m, ChannelInv(c, l)
    PROVE  ChannelInv(c, m)
BY DEF ChannelInv, DisconnectsAreDue, Appears, Vanishes

\* Packets that neither connect nor disconnect do not matter, written or lost.
LEMMA OtherPackets ==
    ASSUME NEW c \in Seq(Packets), NEW l, NEW pkt \in Packets,
           pkt.type \notin {"Connect", "Disconnect"}, ChannelInv(c, l)
    PROVE  ChannelInv(Sent(c, pkt), l)
<1>1. CASE ~Fits(c)
  BY <1>1 DEF Sent
<1>2. CASE Fits(c)
  <2> DEFINE d == Append(c, pkt)
  <2>1. /\ Len(d) = Len(c) + 1 /\ Len(c) \in Nat
        /\ \A k \in 1..Len(c) : d[k] = c[k]
        /\ d[Len(c) + 1] = pkt
        /\ \A type, h : InTransit(d, type, h) <=>
              InTransit(c, type, h) \/ (pkt.type = type /\ pkt.handle = h)
    BY InTransitOfAppend
  <2>2. Sent(c, pkt) = d
    BY <1>2 DEF Sent
  <2> HIDE DEF d
  <2>3. ConnectsAreNew(d)
    BY <2>1 DEF ChannelInv, ConnectsAreNew
  <2>4. DisconnectsAreDue(d, l)
    BY <2>1 DEF ChannelInv, DisconnectsAreDue
  <2>5. \A h \in Handles : Appears(d, l, h) /\ Vanishes(d, l, h)
    BY <2>1 DEF ChannelInv, Appears, Vanishes
  <2> QED BY <2>2, <2>3, <2>4, <2>5 DEF ChannelInv
<1> QED BY <1>1, <1>2
-----------------------------------------------------------------------------
(* The manager thread's steps. *)

\* A new handle appears with its Connect packet, or the packet is lost.
LEMMA AttachedListInv ==
    ASSUME TypeOK, HandleInv, ListInv, NEW p \in Pads, DeviceAttached(p),
           UNCHANGED frontendVars
    PROVE  ListInv'
<1>0. PICK n, pkt, d :
         n = nextHandle /\ pkt = Connect(n) /\ d = Append(up, pkt)
  OBVIOUS
<1>1. CASE p \notin Recognised
  <2>1. UNCHANGED <<nextHandle, devices, up, lost, controllers, objects, crashed>>
    BY <1>1 DEF DeviceAttached, ConnectDummy, frontendVars
  <2> QED BY <2>1 DEF ListInv, ChannelInv, ConnectsAreNew, DisconnectsAreDue, Appears,
                      Vanishes, Live, Listed, ControllersInOrder, ListedHaveObjects,
                      CrashNeedsLostConnect
<1>2. CASE p \in Recognised
  <2>1. /\ n \in Handles /\ n \in Nat /\ nextHandle = n /\ nextHandle' = n + 1
        /\ DOMAIN devices' = DOMAIN devices \cup {n} /\ devices'[n] = p
        /\ \A h \in DOMAIN devices : h # n => devices'[h] = devices[h]
        /\ up' = Sent(up, pkt) /\ lost' = lost \cup Refused(up, pkt)
        /\ UNCHANGED <<controllers, objects, crashed>>
    BY <1>0, <1>2 DEF DeviceAttached, AttachController, TypeOK, BackendOK,
       Handles, frontendVars
  <2>2. \A h \in DOMAIN devices : h < n /\ h \in Nat
    BY <1>0 DEF HandleInv, NullEntriesAreSpent, TypeOK, BackendOK, Handles
  <2>3. \A h : Live(h)' <=> Live(h) \/ h = n
    BY <2>1, <2>2 DEF Live
  <2>9. \A h : Listed(h)' <=> Listed(h)
    BY <2>1 DEF Listed
  <2>4. /\ \A h \in DOMAIN objects : h < n
        /\ \A k \in 1..Len(up) : up[k].handle < n /\ up[k].handle \in Nat
    BY <1>0, PacketFields DEF HandleInv, HandlesAreIssued, TypeOK, ChannelsOK, Handles
  <2>5. /\ pkt \in Packets /\ up \in Seq(Packets)
        /\ pkt.type = "Connect" /\ pkt.handle = n
    BY <1>0, <2>1, PacketTyping DEF Connect, TypeOK, ChannelsOK
  <2>6. \A h \in Handles : h < n + 1 <=> h < n \/ h = n
    BY <2>1 DEF Handles
  <2>7. ChannelInv(up, lost)'
    <3>1. CASE ~Fits(up)
      <4>1. up' = up /\ lost' = lost \cup {<<"Connect", n>>}
        BY <2>1, <2>5, <3>1 DEF Sent, Refused
      <4>2. ConnectsAreNew(up)'
        BY <2>1, <4>1 DEF ListInv, ChannelInv, ConnectsAreNew
      <4>3. DisconnectsAreDue(up, lost)'
        BY <2>1, <2>3, <2>4, <2>9, <4>1
           DEF ListInv, ChannelInv, DisconnectsAreDue
      <4>4. \A h \in Handles : Appears(up, lost, h)' /\ Vanishes(up, lost, h)'
        BY <2>1, <2>3, <2>6, <4>1
           DEF ListInv, ChannelInv, Appears, Vanishes, Listed
      <4> QED BY <4>2, <4>3, <4>4 DEF ChannelInv
    <3>2. CASE Fits(up)
      <4>1. up' = d /\ lost' = lost
        BY <1>0, <2>1, <3>2 DEF Sent, Refused
      <4>2. /\ Len(d) = Len(up) + 1 /\ Len(up) \in Nat
            /\ \A k \in 1..Len(up) : d[k] = up[k]
            /\ d[Len(up) + 1] = pkt
            /\ \A type, h : InTransit(d, type, h) <=>
                  InTransit(up, type, h) \/ (pkt.type = type /\ pkt.handle = h)
        BY <1>0, <2>5, InTransitOfAppend
      <4>3. ConnectsAreNew(up)'
        BY <2>1, <2>4, <2>5, <4>1, <4>2 DEF ListInv, ChannelInv, ConnectsAreNew
      <4>4. DisconnectsAreDue(up, lost)'
        <5> SUFFICES ASSUME NEW k \in 1..Len(d), d[k].type = "Disconnect"
                     PROVE  /\ ~Live(d[k].handle)'
                            /\ \A j \in 1..Len(d) :
                                  d[j].type = "Disconnect" /\ d[j].handle = d[k].handle
                                  => j = k
                            /\ \/ Listed(d[k].handle)'
                               \/ <<"Connect", d[k].handle>> \in lost
                               \/ InTransit(d, "Connect", d[k].handle)
          BY <4>1 DEF DisconnectsAreDue
        <5>1. k \in 1..Len(up) /\ d[k] = up[k]
          BY <2>5, <4>2
        <5>2. /\ ~Live(up[k].handle)
              /\ \A j \in 1..Len(up) :
                    up[j].type = "Disconnect" /\ up[j].handle = up[k].handle => j = k
              /\ \/ Listed(up[k].handle)
                 \/ <<"Connect", up[k].handle>> \in lost
                 \/ InTransit(up, "Connect", up[k].handle)
          BY <5>1 DEF ListInv, ChannelInv, DisconnectsAreDue
        <5>3. ~Live(d[k].handle)'
          BY <2>3, <2>4, <4>1, <5>1, <5>2
        <5>4. \/ Listed(d[k].handle)'
              \/ <<"Connect", d[k].handle>> \in lost
              \/ InTransit(d, "Connect", d[k].handle)
          BY <2>9, <4>2, <5>1, <5>2
        <5>5. \A j \in 1..Len(d) : d[j].type = "Disconnect" =>
                 j \in 1..Len(up) /\ d[j] = up[j]
          BY <2>5, <4>2
        <5> QED BY <5>1, <5>2, <5>3, <5>4, <5>5
      <4>5. \A h \in Handles : Appears(up, lost, h)' /\ Vanishes(up, lost, h)'
        <5>1. \A h : /\ InTransit(up, "Connect", h)' <=>
                           InTransit(up, "Connect", h) \/ n = h
                     /\ InTransit(up, "Disconnect", h)' <=>
                           InTransit(up, "Disconnect", h)
          BY <2>5, <4>1, <4>2
        <5> QED BY <2>1, <2>3, <2>6, <2>9, <4>1, <5>1
                DEF ListInv, ChannelInv, Appears, Vanishes
      <4> QED BY <4>3, <4>4, <4>5 DEF ChannelInv
    <3> QED BY <3>1, <3>2
  <2>8. lost \subseteq lost'
    BY <2>1
  <2> QED BY <2>1, <2>7, <2>8 DEF ListInv, ControllersInOrder, ListedHaveObjects,
     CrashNeedsLostConnect
<1> QED BY <1>1, <1>2

\* A removed handle gets its Disconnect packet, or the packet is lost.
LEMMA RemovedListInv ==
    ASSUME TypeOK, HandleInv, ListInv, NEW p \in Pads, DeviceRemoved(p),
           UNCHANGED frontendVars
    PROVE  ListInv'
<1>0. PICK n, pkt, d :
         n = pads[p].handle /\ pkt = Disconnect(n) /\ d = Append(up, pkt)
  OBVIOUS
<1>1. /\ DOMAIN devices' = DOMAIN devices \ {n}
      /\ \A h \in DOMAIN devices' : devices'[h] = devices[h]
      /\ UNCHANGED <<nextHandle, controllers, objects, crashed>>
  BY <1>0 DEF DeviceRemoved, DetachController, frontendVars
<1>2. /\ \A h : Live(h)' <=> Live(h) /\ h # n
      /\ \A h : Listed(h)' <=> Listed(h)
  BY <1>1 DEF Live, Listed
<1>3. n \in DOMAIN devices => Live(n) /\ n \in Handles /\ n < nextHandle
  BY <1>0 DEF DeviceRemoved, HandleInv, HandlesMatchPads, NullEntriesAreSpent,
     TypeOK, BackendOK, Handles
<1>4. ChannelInv(up, lost)' /\ lost \subseteq lost'
  <2>1. CASE n \notin DOMAIN devices
    <3>1. UNCHANGED <<up, lost>>
      BY <1>0, <2>1 DEF DeviceRemoved, DetachController
    <3>2. \A h : Live(h)' <=> Live(h)
      BY <1>2, <2>1 DEF Live
    <3> QED BY <1>1, <1>2, <3>1, <3>2 DEF ListInv, ChannelInv, ConnectsAreNew,
            DisconnectsAreDue, Appears, Vanishes
  <2>2. CASE n \in DOMAIN devices
    <3>1. /\ up' = Sent(up, pkt) /\ lost' = lost \cup Refused(up, pkt)
          /\ pkt \in Packets /\ up \in Seq(Packets)
          /\ pkt.type = "Disconnect" /\ pkt.handle = n
      BY <1>0, <1>3, <2>2, PacketTyping
         DEF DeviceRemoved, DetachController, Disconnect, TypeOK, ChannelsOK
    <3>2. /\ ConnectsAreNew(up) /\ DisconnectsAreDue(up, lost)
          /\ \A h \in Handles : Appears(up, lost, h) /\ Vanishes(up, lost, h)
      BY DEF ListInv, ChannelInv
    <3>3. CASE ~Fits(up)
      <4>1. up' = up /\ lost' = lost \cup {<<"Disconnect", n>>}
        BY <3>1, <3>3 DEF Sent, Refused
      <4> QED BY <1>1, <1>2, <3>2, <4>1 DEF ChannelInv, ConnectsAreNew,
              DisconnectsAreDue, Appears, Vanishes
    <3>4. CASE Fits(up)
      <4>1. up' = d /\ lost' = lost
        BY <1>0, <3>1, <3>4 DEF Sent, Refused
      <4>2. /\ Len(d) = Len(up) + 1 /\ Len(up) \in Nat
            /\ \A k \in 1..Len(up) : d[k] = up[k]
            /\ d[Len(up) + 1] = pkt
            /\ \A type, h : InTransit(d, type, h) <=>
                  InTransit(up, type, h) \/ (pkt.type = type /\ pkt.handle = h)
        BY <1>0, <3>1, InTransitOfAppend
      <4>3. \A h : /\ InTransit(d, "Connect", h) <=> InTransit(up, "Connect", h)
                   /\ InTransit(d, "Disconnect", h) <=>
                         InTransit(up, "Disconnect", h) \/ n = h
        BY <3>1, <4>2
      <4>4. ConnectsAreNew(up)'
        BY <1>1, <3>1, <3>2, <4>1, <4>2 DEF ConnectsAreNew
      <4>5. DisconnectsAreDue(up, lost)'
        <5>1. Appears(up, lost, n) /\ Live(n)
          BY <1>3, <2>2, <3>2
        <5>2. \A k \in 1..Len(up) :
                 up[k].type = "Disconnect" => up[k].handle # n
          BY <3>2, <5>1 DEF DisconnectsAreDue
        <5> QED BY <1>2, <3>1, <3>2, <4>1, <4>2, <4>3, <5>1, <5>2
                DEF DisconnectsAreDue, Appears
      <4>6. \A h \in Handles : Appears(up, lost, h)' /\ Vanishes(up, lost, h)'
        BY <1>1, <1>2, <3>2, <4>1, <4>3 DEF Appears, Vanishes
      <4> QED BY <4>1, <4>4, <4>5, <4>6 DEF ChannelInv
    <3> QED BY <3>1, <3>3, <3>4
  <2> QED BY <2>1, <2>2
<1> QED BY <1>1, <1>4 DEF ListInv, ControllersInOrder, ListedHaveObjects,
        CrashNeedsLostConnect

\* The variables of ListInv but for the channel.
LEMMA SameList ==
    ASSUME NEW c, NEW l, ChannelInv(c, l), UNCHANGED <<nextHandle, controllers,
           objects>>, \A h : Live(h)' <=> Live(h), up' = c, lost' = l
    PROVE  ChannelInv(up, lost)'
BY DEF ChannelInv, ConnectsAreNew, DisconnectsAreDue, Appears, Vanishes, Listed

\* The packets of a report say nothing about the list.
LEMMA ReportListInv ==
    ASSUME TypeOK, HandleInv, ListInv, NEW p \in Pads, NEW state \in Inputs,
           NEW pauseDown \in BOOLEAN, DeviceReport(p, state, pauseDown),
           UNCHANGED frontendVars
    PROVE  ListInv'
<1>0. PICK h, paused :
         /\ h = pads[p].handle
         /\ paused = IF pauseDown /\ ~pads[p].pauseHeld
                     THEN Sent(up, PausePressed(h)) ELSE up
  OBVIOUS
<1>1. /\ h \in Handles /\ UNCHANGED <<nextHandle, devices, controllers, objects,
                                      crashed>>
      /\ up' = Sent(paused, InputState(h, state)) /\ lost \subseteq lost'
  BY <1>0 DEF DeviceReport, TypeOK, BackendOK, Connections, frontendVars
<1>2. /\ PausePressed(h) \in Packets /\ PausePressed(h).type = "PausePressed"
      /\ InputState(h, state) \in Packets
      /\ InputState(h, state).type = "InputState"
  BY <1>1, PacketTyping DEF PausePressed, InputState
<1>3. paused \in Seq(Packets) /\ ChannelInv(paused, lost)
  BY <1>0, <1>2, SentFacts, OtherPackets DEF ListInv, TypeOK, ChannelsOK
<1>4. ChannelInv(Sent(paused, InputState(h, state)), lost')
  BY <1>1, <1>2, <1>3, OtherPackets, MoreLosses
<1>5. ChannelInv(up, lost)'
  BY <1>1, <1>4, SameList DEF Live
<1> QED BY <1>1, <1>5 DEF ListInv, ControllersInOrder, ListedHaveObjects,
        CrashNeedsLostConnect

\* A null entry attaches nobody.
LEMMA BackendReceiveListInv ==
    ASSUME ListInv, BackendReceive, UNCHANGED frontendVars
    PROVE  ListInv'
<1>1. \A h : Live(h)' <=> Live(h)
  BY DEF BackendReceive, HandleSetPlayerIndex, Live
<1>2. UNCHANGED <<nextHandle, controllers, objects, crashed, up, lost>>
  BY DEF BackendReceive, frontendVars
<1>3. ChannelInv(up, lost)'
  BY <1>1, <1>2, SameList DEF ListInv
<1> QED BY <1>2, <1>3 DEF ListInv, ControllersInOrder, ListedHaveObjects,
        CrashNeedsLostConnect

-----------------------------------------------------------------------------
(* The application's steps. *)

\* No Connect packet follows a Disconnect packet of the same controller.
LEMMA NoLateConnect ==
    ASSUME up \in Seq(Packets), up # <<>>, ConnectsAreNew(up),
           Head(up).type = "Disconnect"
    PROVE  ~InTransit(up, "Connect", Head(up).handle)
<1> SUFFICES ASSUME NEW k \in 1..Len(up), up[k].type = "Connect",
                    up[k].handle = Head(up).handle
             PROVE  FALSE
  BY DEF InTransit
<1>1. Head(up) = up[1] /\ k # 1 /\ 1 \in 1..(k - 1)
  BY InTransitOfTail
<1>2. up[1].handle < up[k].handle
  BY <1>1 DEF ConnectsAreNew
<1>3. up[1].handle \in Int
  BY <1>1, PacketFields, HeadTail DEF Handles
<1> QED BY <1>1, <1>2, <1>3

\* What the first packet does to the list and to the objects leaves the rest of
\* the channel as it should be.
LEMMA TakenPacket ==
    ASSUME up \in Seq(Packets), ChannelInv(up, lost), up # <<>>, up' = Tail(up),
           UNCHANGED <<nextHandle, devices>>, lost \subseteq lost',
           NEW type, NEW h, type = Head(up).type, h = Head(up).handle,
           DOMAIN objects' =
               DOMAIN objects \cup IF type = "Connect" THEN {h} ELSE {},
           \A g : Listed(g)' <=> \/ Listed(g) /\ ~(g = h /\ type = "Disconnect")
                                 \/ g = h /\ type = "Connect"
    PROVE  ChannelInv(up, lost)'
<1>0. PICK d : d = Tail(up)
  OBVIOUS
<1>1. /\ d \in Seq(Packets) /\ Len(d) = Len(up) - 1
      /\ Len(up) \in Nat \ {0} /\ up[1].type = type /\ up[1].handle = h
      /\ \A k \in 1..Len(d) : d[k] = up[k + 1]
      /\ \A t, g : InTransit(up, t, g) <=>
            InTransit(d, t, g) \/ (type = t /\ h = g)
  BY <1>0, InTransitOfTail
<1>2. /\ ConnectsAreNew(up) /\ DisconnectsAreDue(up, lost)
      /\ \A g \in Handles : Appears(up, lost, g) /\ Vanishes(up, lost, g)
  BY DEF ChannelInv
<1>3. \A g : Live(g)' <=> Live(g)
  BY DEF Live
<1>4. type = "Disconnect" => ~InTransit(up, "Connect", h)
  BY <1>2, NoLateConnect
<1>5. ConnectsAreNew(d)'
  <2> SUFFICES ASSUME NEW k \in 1..Len(d), d[k].type = "Connect"
               PROVE  /\ \A g \in DOMAIN objects' : g < d[k].handle
                      /\ \A j \in 1..(k - 1) : d[j].handle < d[k].handle
    BY DEF ConnectsAreNew
  <2>1. k + 1 \in 1..Len(up) /\ d[k] = up[k + 1] /\ 1 \in 1..k /\ k + 1 - 1 = k
    BY <1>1
  <2>2. /\ \A g \in DOMAIN objects : g < d[k].handle
        /\ \A j \in 1..k : up[j].handle < d[k].handle
    BY <1>2, <2>1 DEF ConnectsAreNew
  <2>3. \A g \in DOMAIN objects' : g < d[k].handle
    BY <1>1, <2>1, <2>2
  <2>4. ASSUME NEW j \in 1..(k - 1) PROVE d[j].handle < d[k].handle
    <3>1. j + 1 \in 1..k /\ j \in 1..Len(d)
      BY <1>1
    <3> QED BY <1>1, <2>2, <3>1
  <2> QED BY <2>3, <2>4
<1>6. DisconnectsAreDue(d, lost)'
  <2> SUFFICES ASSUME NEW k \in 1..Len(d), d[k].type = "Disconnect"
               PROVE  /\ ~Live(d[k].handle)
                      /\ \A j \in 1..Len(d) :
                            d[j].type = "Disconnect" /\ d[j].handle = d[k].handle
                            => j = k
                      /\ \/ Listed(d[k].handle)'
                         \/ <<"Connect", d[k].handle>> \in lost
                         \/ InTransit(d, "Connect", d[k].handle)
    BY <1>3 DEF DisconnectsAreDue
  <2>1. k + 1 \in 1..Len(up) /\ d[k] = up[k + 1]
    BY <1>1
  <2>2. /\ ~Live(d[k].handle)
        /\ \A j \in 1..Len(up) :
              up[j].type = "Disconnect" /\ up[j].handle = d[k].handle => j = k + 1
        /\ \/ Listed(d[k].handle)
           \/ <<"Connect", d[k].handle>> \in lost
           \/ InTransit(up, "Connect", d[k].handle)
    BY <1>2, <2>1 DEF DisconnectsAreDue
  <2>3. ASSUME NEW j \in 1..Len(d), d[j].type = "Disconnect",
               d[j].handle = d[k].handle
        PROVE  j = k
    <3>1. j + 1 \in 1..Len(up) /\ d[j] = up[j + 1]
      BY <1>1
    <3> QED BY <2>2, <2>3, <3>1
  <2>4. ~(d[k].handle = h /\ type = "Disconnect")
    BY <1>1, <2>2
  <2>5. \/ Listed(d[k].handle)'
        \/ <<"Connect", d[k].handle>> \in lost
        \/ InTransit(d, "Connect", d[k].handle)
    BY <1>1, <2>2, <2>4
  <2> QED BY <2>2, <2>3, <2>5
<1>7. \A g \in Handles : Appears(d, lost, g)' /\ Vanishes(d, lost, g)'
  <2> SUFFICES ASSUME NEW g \in Handles
               PROVE  Appears(d, lost, g)' /\ Vanishes(d, lost, g)'
    OBVIOUS
  <2>1. Appears(up, lost, g) /\ Vanishes(up, lost, g)
    BY <1>2
  <2>2. type = "Disconnect" /\ g = h => ~Live(g)
    <3>1. 1 \in 1..Len(up)
      BY <1>1
    <3> QED BY <1>1, <1>2, <3>1, ZenonT(60) DEF DisconnectsAreDue
  <2>3. /\ InTransit(up, "Connect", g) <=>
              InTransit(d, "Connect", g) \/ (type = "Connect" /\ h = g)
        /\ InTransit(up, "Disconnect", g) <=>
              InTransit(d, "Disconnect", g) \/ (type = "Disconnect" /\ h = g)
    BY <1>1
  <2>4. Appears(d, lost, g)'
    BY <1>3, <2>1, <2>2, <2>3 DEF Appears
  <2>5. Vanishes(d, lost, g)'
    BY <1>3, <1>4, <2>1, <2>3 DEF Vanishes
  <2> QED BY <2>4, <2>5
<1> QED BY <1>0, <1>5, <1>6, <1>7 DEF ChannelInv

\* A controller that was found is taken out, and the others keep their places.
LEMMA FoundIsRemoved ==
    ASSUME controllers \in Seq(Handles), ControllersInOrder, NEW h \in Handles,
           HandlePacketDisconnect(h), FindControllerByHandle(h) # -1
    PROVE  /\ ControllersInOrder'
           /\ \A g : Listed(g)' <=> Listed(g) /\ g # h
           /\ \A k \in 1..Len(controllers') :
                 \E j \in 1..Len(controllers) : controllers'[k] = controllers[j]
<1>0. PICK idx : idx = FindControllerByHandle(h)
  OBVIOUS
<1> DEFINE n     == Len(controllers)
           front == SubSeq(controllers, 1, idx - 1)
           back  == SubSeq(controllers, idx + 1, n)
<1>1. idx \in 1..n /\ controllers[idx] = h /\ n \in Nat
  BY <1>0, FindFacts
<1>2. \A k \in 1..n : controllers[k] \in Handles
  BY ElementOfSeq
<1>3. /\ front \in Seq(Handles) /\ Len(front) = idx - 1
      /\ \A k \in 1..(idx - 1) : front[k] = controllers[k]
  BY <1>1, <1>2
<1>4. /\ back \in Seq(Handles) /\ Len(back) = n - idx
      /\ \A k \in 1..(n - idx) : back[k] = controllers[idx + k]
  BY <1>1, <1>2
<1>5. controllers' = front \o back
  BY <1>0 DEF HandlePacketDisconnect
<1> HIDE DEF front, back
<1>6. /\ Len(controllers') = n - 1
      /\ \A k \in 1..(n - 1) :
            controllers'[k] = controllers[IF k < idx THEN k ELSE k + 1]
  <2>1. /\ Len(controllers') = idx - 1 + (n - idx)
        /\ \A k \in 1..(idx - 1 + (n - idx)) : controllers'[k] =
              IF k <= idx - 1 THEN front[k] ELSE back[k - (idx - 1)]
    BY <1>3, <1>4, <1>5, ConcatProperties
  <2>2. idx - 1 + (n - idx) = n - 1
    BY <1>1
  <2>3. ASSUME NEW k \in 1..(n - 1), k < idx PROVE controllers'[k] = controllers[k]
    BY <1>1, <1>3, <2>1, <2>2, <2>3
  <2>4. ASSUME NEW k \in 1..(n - 1), ~(k < idx)
        PROVE  controllers'[k] = controllers[k + 1]
    <3>1. k - (idx - 1) \in 1..(n - idx) /\ idx + (k - (idx - 1)) = k + 1
      BY <1>1, <2>4
    <3> QED BY <1>1, <1>4, <2>1, <2>2, <2>4, <3>1
  <2> QED BY <2>1, <2>2, <2>3, <2>4
<1> HIDE DEF n
<1>7. \A j, k \in 1..n : j < k => controllers[j] < controllers[k]
  BY DEF ControllersInOrder, n
<1>8. ControllersInOrder'
  BY <1>1, <1>6, <1>7 DEF ControllersInOrder
<1>9. ASSUME NEW g PROVE Listed(g)' <=> Listed(g) /\ g # h
  <2>1. ASSUME NEW k \in 1..(n - 1), controllers'[k] = g
        PROVE  Listed(g) /\ g # h
    <3>1. PICK j \in 1..n : j # idx /\ controllers[j] = g
      BY <1>1, <1>6, <2>1
    <3>2. controllers[j] # controllers[idx]
      BY <1>1, <1>2, <1>7, <3>1 DEF n, Handles
    <3> QED BY <1>1, <3>1, <3>2 DEF Listed, n
  <2>2. ASSUME NEW j \in 1..n, controllers[j] = g, g # h PROVE Listed(g)'
    <3>1. j # idx
      BY <1>1, <2>2
    <3>2. PICK k \in 1..(n - 1) : j = IF k < idx THEN k ELSE k + 1
      <4>1. CASE j < idx
        BY <1>1, <4>1
      <4>2. CASE j > idx
        <5>1. j - 1 \in 1..(n - 1) /\ ~(j - 1 < idx) /\ j = (j - 1) + 1
          BY <1>1, <4>2
        <5> QED BY <5>1
      <4> QED BY <1>1, <3>1, <4>1, <4>2
    <3> QED BY <1>6, <2>2, <3>2 DEF Listed
  <2> QED BY <1>6, <2>1, <2>2 DEF Listed, n
<1>10. \A k \in 1..(n - 1) : \E j \in 1..n : controllers'[k] = controllers[j]
  BY <1>1, <1>6
<1> QED BY <1>6, <1>8, <1>9, <1>10 DEF n

\* SetControllerIndex only ever adds to what was lost.
LEMMA IndexOnlyLoses ==
    ASSUME NEW h, NEW i, SetControllerIndex(h, i) PROVE lost \subseteq lost'
BY DEF SetControllerIndex

\* A Connect packet appends the newest controller.
LEMMA ConnectListInv ==
    ASSUME TypeOK, HandleInv, ListInv, NEW h \in Handles, up # <<>>,
           Head(up).type = "Connect", Head(up).handle = h, up' = Tail(up),
           UNCHANGED backendVars, HandlePacketConnect(h)
    PROVE  ListInv'
<1>1. /\ up \in Seq(Packets) /\ controllers \in Seq(Handles)
      /\ controllers' = Append(controllers, h)
      /\ DOMAIN objects' = DOMAIN objects \cup {h}
      /\ UNCHANGED <<nextHandle, devices, crashed>>
  BY DEF TypeOK, ChannelsOK, FrontendOK, HandlePacketConnect, backendVars
<1>2. lost \subseteq lost'
  BY IndexOnlyLoses DEF HandlePacketConnect
<1>3. /\ Len(controllers') = Len(controllers) + 1 /\ Len(controllers) \in Nat
      /\ \A k \in 1..Len(controllers) : controllers'[k] = controllers[k]
      /\ controllers'[Len(controllers) + 1] = h
  BY <1>1, AppendProperties
<1>4. \A g : Listed(g)' <=> Listed(g) \/ g = h
  BY <1>3 DEF Listed
<1>5. ChannelInv(up, lost)'
  <2>1. ChannelInv(up, lost)
    BY DEF ListInv
  <2> QED BY <1>1, <1>2, <1>4, <2>1, TakenPacket
<1>6. \A g \in DOMAIN objects : g < h
  <2>1. 1 \in 1..Len(up) /\ up[1] = Head(up)
    BY <1>1, InTransitOfTail
  <2> QED BY <2>1 DEF ListInv, ChannelInv, ConnectsAreNew
<1>7. \A k \in 1..Len(controllers) : controllers[k] < h
  BY <1>6 DEF ListInv, ListedHaveObjects
<1>8. ControllersInOrder'
  BY <1>3, <1>7 DEF ListInv, ControllersInOrder
<1>9. ListedHaveObjects'
  BY <1>1, <1>3 DEF ListInv, ListedHaveObjects
<1> QED BY <1>1, <1>2, <1>5, <1>8, <1>9 DEF ListInv, CrashNeedsLostConnect

\* A Disconnect packet takes its controller out, or ends the process if the
\* Connect packet was lost.
LEMMA DisconnectListInv ==
    ASSUME TypeOK, ListInv, NEW h \in Handles, up # <<>>,
           Head(up).type = "Disconnect", Head(up).handle = h, up' = Tail(up),
           UNCHANGED backendVars, HandlePacketDisconnect(h)
    PROVE  ListInv'
<1>1. /\ up \in Seq(Packets) /\ controllers \in Seq(Handles)
      /\ UNCHANGED <<nextHandle, devices, objects, lost>>
      /\ ChannelInv(up, lost) /\ ControllersInOrder /\ ListedHaveObjects
  BY DEF TypeOK, ChannelsOK, FrontendOK, HandlePacketDisconnect, backendVars,
     ListInv
<1>2. CASE FindControllerByHandle(h) = -1
  <2>1. ~Listed(h) /\ UNCHANGED controllers /\ crashed' = TRUE
    BY <1>1, <1>2, FindFacts DEF HandlePacketDisconnect
  <2>2. <<"Connect", h>> \in lost
    <3>1. 1 \in 1..Len(up) /\ up[1] = Head(up)
      BY <1>1, InTransitOfTail
    <3>2. ~InTransit(up, "Connect", h)
      BY <1>1, NoLateConnect DEF ChannelInv
    <3> QED BY <1>1, <2>1, <3>1, <3>2 DEF ChannelInv, DisconnectsAreDue
  <2>3. \A g : Listed(g)' <=> Listed(g)
    BY <2>1 DEF Listed
  <2>4. ChannelInv(up, lost)'
    BY <1>1, <2>1, <2>3, TakenPacket
  <2> QED BY <1>1, <2>1, <2>2, <2>4 DEF ListInv, ControllersInOrder,
          ListedHaveObjects, CrashNeedsLostConnect
<1>3. CASE FindControllerByHandle(h) # -1
  <2>1. /\ ControllersInOrder'
        /\ \A g : Listed(g)' <=> Listed(g) /\ g # h
        /\ \A k \in 1..Len(controllers') :
              \E j \in 1..Len(controllers) : controllers'[k] = controllers[j]
    BY <1>1, <1>3, FoundIsRemoved
  <2>2. UNCHANGED crashed
    BY <1>3 DEF HandlePacketDisconnect
  <2>3. ChannelInv(up, lost)'
    BY <1>1, <2>1, TakenPacket
  <2>4. ListedHaveObjects'
    BY <1>1, <2>1 DEF ListedHaveObjects
  <2> QED BY <1>1, <2>1, <2>2, <2>3, <2>4 DEF ListInv, CrashNeedsLostConnect
<1> QED BY <1>2, <1>3

\* A Connect packet lists its controller, a Disconnect packet takes it out, and
\* the process dies of one only if the Connect packet of its handle was lost.
LEMMA FrontendReceiveListInv ==
    ASSUME TypeOK, HandleInv, ListInv, FrontendReceive, UNCHANGED backendVars
    PROVE  ListInv'
<1>0. PICK pkt : pkt = Head(up)
  OBVIOUS
<1>1. /\ pkt \in Packets /\ pkt.handle \in Handles
      /\ up # <<>> /\ up' = Tail(up) /\ up \in Seq(Packets)
  BY <1>0, ReceiveCases, PacketFields DEF TypeOK, ChannelsOK
<1>2. CASE pkt.type = "Connect" /\ HandlePacketConnect(pkt.handle)
  BY <1>0, <1>1, <1>2, ConnectListInv
<1>3. CASE pkt.type = "Disconnect" /\ HandlePacketDisconnect(pkt.handle)
  BY <1>0, <1>1, <1>3, DisconnectListInv
<1>4. CASE /\ pkt.type \notin {"Connect", "Disconnect"}
           /\ DOMAIN objects' = DOMAIN objects
           /\ UNCHANGED <<controllers, crashed, lost>>
  <2>1. \A g : Listed(g)' <=> Listed(g)
    BY <1>4 DEF Listed
  <2>2. ChannelInv(up, lost) /\ UNCHANGED <<nextHandle, devices>>
    BY DEF ListInv, backendVars
  <2>3. ChannelInv(up, lost)'
    BY <1>0, <1>1, <1>4, <2>1, <2>2, TakenPacket
  <2> QED BY <1>4, <2>3 DEF ListInv, ControllersInOrder, ListedHaveObjects,
          CrashNeedsLostConnect
<1>5. ASSUME pkt.type = "InputState", HandlePacketInputState(pkt.handle, pkt.value)
      PROVE  ListInv'
  BY <1>4, <1>5 DEF HandlePacketInputState
<1>6. ASSUME pkt.type \notin {"Connect", "Disconnect", "InputState"},
             UNCHANGED <<controllers, objects, crashed, down, lost>>
      PROVE  ListInv'
  BY <1>4, <1>6
<1> QED BY <1>0, <1>2, <1>3, <1>5, <1>6, ReceiveCases DEF TypeOK

\* The application's call writes to the other channel.
LEMMA SetPlayerIndexListInv ==
    ASSUME ListInv, NEW h \in Handles, NEW i \in Indices,
           SetPlayerIndex(h, i), UNCHANGED backendVars
    PROVE  ListInv'
<1>1. lost \subseteq lost'
  BY IndexOnlyLoses DEF SetPlayerIndex
<1>2. /\ DOMAIN objects' = DOMAIN objects
      /\ UNCHANGED <<nextHandle, devices, controllers, crashed, up>>
  BY DEF SetPlayerIndex, backendVars
<1>3. ChannelInv(up, lost')
  BY <1>1, MoreLosses DEF ListInv
<1>4. ChannelInv(up, lost)'
  BY <1>2, <1>3 DEF ChannelInv, ConnectsAreNew, DisconnectsAreDue, Appears,
     Vanishes, Live, Listed
<1> QED BY <1>1, <1>2, <1>4 DEF ListInv, ControllersInOrder, ListedHaveObjects,
        CrashNeedsLostConnect

\* Nothing is listed and nothing is under way.
LEMMA InitListInv == Init => ListInv
<1> SUFFICES ASSUME Init PROVE ListInv
  OBVIOUS
<1>1. /\ up = <<>> /\ DOMAIN devices = {} /\ DOMAIN objects = {}
      /\ controllers = <<>> /\ crashed = FALSE
  BY DEF Init, ChannelsInit, BackendInit, FrontendInit
<1>2. Len(up) = 0 /\ Len(controllers) = 0
  BY <1>1
<1>3. \A h : ~Live(h) /\ ~Listed(h) /\ ~InTransit(up, "Connect", h)
  BY <1>1, <1>2 DEF Live, Listed, InTransit
<1>4. ChannelInv(up, lost)
  BY <1>2, <1>3 DEF ChannelInv, ConnectsAreNew, DisconnectsAreDue, Appears,
     Vanishes
<1> QED BY <1>1, <1>2, <1>4 DEF ListInv, ControllersInOrder,
        ListedHaveObjects, CrashNeedsLostConnect

\* Every step keeps the inductive invariant of the list.
LEMMA NextListInv ==
    TypeOK /\ HandleInv /\ ListInv /\ [Next]_vars => ListInv'
<1> SUFFICES ASSUME TypeOK, HandleInv, ListInv, [Next]_vars PROVE ListInv'
  OBVIOUS
<1>1. CASE UNCHANGED <<nextHandle, devices, controllers, objects, crashed, up, lost>>
  BY <1>1 DEF ListInv, ChannelInv, ConnectsAreNew, DisconnectsAreDue, Appears,
     Vanishes, Live, Listed, ControllersInOrder, ListedHaveObjects,
     CrashNeedsLostConnect
<1>2. CASE Startup
  BY <1>1, <1>2 DEF Startup
<1>3. CASE ManagerThread /\ UNCHANGED frontendVars
  BY <1>1, <1>3 DEF ManagerThread, frontendVars
<1>4. CASE UNCHANGED vars
  BY <1>1, <1>4 DEF vars, backendVars, frontendVars
<1> QED
  BY <1>2, <1>3, <1>4, NextCases, AttachedListInv, RemovedListInv, ReportListInv,
     BackendReceiveListInv, FrontendReceiveListInv, SetPlayerIndexListInv

\* The invariant the theorems below follow from.
LEMMA ListInvariance == Spec => [](TypeOK /\ HandleInv /\ ListInv)
BY TypeCorrect, HandleInvariant, InitListInv, NextListInv, PTL DEF Spec

-----------------------------------------------------------------------------
\* The application's list is in the order of connection and has no controller
\* twice, for any number of pads and attachments and whatever was lost.
THEOREM ListIsInOrder == Spec => []ControllersInOrder
BY ListInvariance, PTL DEF ListInv

\* removeObjectAtIndex only raises for a controller whose Connect packet did not
\* fit in the socket buffer.
THEOREM OnlyLostConnectsCrash == Spec => []CrashNeedsLostConnect
BY ListInvariance, PTL DEF ListInv

\* The list differs from the attached devices by the packets under way and the
\* ones that were lost, and by nothing else.
THEOREM ListIsUpToDate == Spec => []ListTracksDevices
<1>1. TypeOK /\ HandleInv /\ ListInv => ListTracksDevices
  <2> SUFFICES ASSUME TypeOK, HandleInv, ListInv, NEW h \in Handles
               PROVE  /\ Live(h) /\ ~Listed(h) =>
                            \/ InTransit(up, "Connect", h)
                            \/ <<"Connect", h>> \in lost
                      /\ Listed(h) /\ ~Live(h) =>
                            \/ InTransit(up, "Disconnect", h)
                            \/ <<"Disconnect", h>> \in lost
    BY DEF ListTracksDevices
  <2>1. Listed(h) => h < nextHandle
    BY DEF ListInv, ListedHaveObjects, Listed, HandleInv, HandlesAreIssued
  <2> QED BY <2>1 DEF ListInv, ChannelInv, Appears, Vanishes
<1> QED BY <1>1, ListInvariance, PTL

-----------------------------------------------------------------------------
(***************************************************************************)
(* The refinement.  Attaching a recognised pad is PlugIn, removing it      *)
(* Unplug, handling its Connect packet Show and handling its Disconnect    *)
(* packet, if that finds it, Hide.  Every other step stutters.             *)
(***************************************************************************)

\* A step that gives out no handle and keeps the attached pads keeps plug.
LEMMA SamePlugs ==
    ASSUME UNCHANGED nextHandle, \A h : Live(h)' <=> Live(h)
    PROVE  UNCHANGED [h \in Handles |-> PlugOf(h)]
BY DEF PlugOf

\* A step that makes no object and keeps the list keeps view.
LEMMA SameViews ==
    ASSUME DOMAIN objects' = DOMAIN objects, \A h : Listed(h)' <=> Listed(h)
    PROVE  UNCHANGED [h \in Handles |-> ViewOf(h)]
BY DEF ViewOf

\* Attaching a recognised pad is PlugIn of the next handle.
LEMMA AttachedKeepsPromise ==
    ASSUME TypeOK, HandleInv, NEW p \in Pads, DeviceAttached(p),
           UNCHANGED frontendVars
    PROVE  [Promise!Next]_Promise!vars
<1>0. PICK n : n = nextHandle
  OBVIOUS
<1>1. UNCHANGED [h \in Handles |-> ViewOf(h)]
  BY SameViews DEF frontendVars, Listed
<1>2. CASE p \notin Recognised
  <2>1. UNCHANGED [h \in Handles |-> PlugOf(h)]
    BY <1>2, SamePlugs DEF DeviceAttached, ConnectDummy, Live
  <2> QED BY <1>1, <2>1 DEF Promise!vars
<1>3. CASE p \in Recognised
  <2>1. /\ n \in Handles /\ n \in Nat /\ nextHandle' = n + 1
        /\ DOMAIN devices' = DOMAIN devices \cup {n} /\ devices'[n] = p
        /\ \A h \in DOMAIN devices : h # n => devices'[h] = devices[h]
    BY <1>0, <1>3 DEF DeviceAttached, AttachController, TypeOK, BackendOK, Handles
  <2>2. \A h : Live(h)' <=> Live(h) \/ h = n
    <3>1. \A h \in DOMAIN devices : h < n /\ h \in Nat
      BY <1>0 DEF HandleInv, NullEntriesAreSpent, TypeOK, BackendOK, Handles
    <3> QED BY <2>1, <3>1 DEF Live
  <2>3. ASSUME NEW h \in Handles
        PROVE  /\ h < n => PlugOf(h) # "unused"
               /\ PlugOf(h)' = IF h = n THEN "in" ELSE PlugOf(h)
    <3>1. h \in Nat
      BY DEF Handles
    <3> QED BY <1>0, <2>1, <2>2, <3>1 DEF PlugOf
  <2>4. PlugOf(n) = "unused"
    BY <1>0, <2>1 DEF PlugOf
  <2>5. Promise!PlugIn(n)
    BY <1>1, <2>1, <2>3, <2>4 DEF Promise!PlugIn
  <2> QED BY <2>1, <2>5 DEF Promise!Next
<1> QED BY <1>2, <1>3

\* Removing a pad that has a handle is Unplug of that handle.
LEMMA RemovedKeepsPromise ==
    ASSUME TypeOK, HandleInv, NEW p \in Pads, DeviceRemoved(p),
           UNCHANGED frontendVars
    PROVE  [Promise!Next]_Promise!vars
<1>0. PICK n : n = pads[p].handle
  OBVIOUS
<1>1. UNCHANGED [h \in Handles |-> ViewOf(h)]
  BY SameViews DEF frontendVars, Listed
<1>2. /\ DOMAIN devices' = DOMAIN devices \ {n}
      /\ \A h \in DOMAIN devices' : devices'[h] = devices[h]
      /\ UNCHANGED nextHandle
  BY <1>0 DEF DeviceRemoved, DetachController
<1>3. \A h : Live(h)' <=> Live(h) /\ h # n
  BY <1>2 DEF Live
<1>4. CASE n \notin DOMAIN devices
  <2>1. UNCHANGED [h \in Handles |-> PlugOf(h)]
    BY <1>2, <1>3, <1>4, SamePlugs DEF Live
  <2> QED BY <1>1, <2>1 DEF Promise!vars
<1>5. CASE n \in DOMAIN devices
  <2>1. Live(n) /\ n \in Handles /\ n < nextHandle
    BY <1>0, <1>5 DEF DeviceRemoved, HandleInv, HandlesMatchPads,
       NullEntriesAreSpent, TypeOK, BackendOK, Handles
  <2>2. n < nextHandle => ~(n >= nextHandle)
    BY <2>1 DEF TypeOK, BackendOK, Handles
  <2>3. PlugOf(n) = "in"
    BY <2>1, <2>2 DEF PlugOf
  <2>4. \A h \in Handles : PlugOf(h)' = IF h = n THEN "out" ELSE PlugOf(h)
    BY <1>2, <1>3, <2>1, <2>2 DEF PlugOf
  <2>5. Promise!Unplug(n)
    BY <1>1, <2>1, <2>3, <2>4 DEF Promise!Unplug
  <2> QED BY <2>1, <2>5 DEF Promise!Next
<1> QED BY <1>4, <1>5

\* A Connect packet is Show, because no object of its handle or a newer one was
\* made; a Disconnect packet that finds its controller is Hide.
LEMMA ReceiveKeepsPromise ==
    ASSUME TypeOK, HandleInv, ListInv, FrontendReceive, UNCHANGED backendVars
    PROVE  [Promise!Next]_Promise!vars
<1>0. PICK pkt, h : pkt = Head(up) /\ h = pkt.handle
  OBVIOUS
<1>1. UNCHANGED [g \in Handles |-> PlugOf(g)]
  BY SamePlugs DEF backendVars, Live
<1>2. /\ pkt \in Packets /\ h \in Handles /\ h \in Nat
      /\ 1 \in 1..Len(up) /\ up[1] = pkt
  BY <1>0, ReceiveCases, PacketFields, InTransitOfTail
     DEF TypeOK, ChannelsOK, Handles
<1>3. h < nextHandle /\ nextHandle \in Nat
  BY <1>0, <1>2 DEF HandleInv, HandlesAreIssued, TypeOK, BackendOK
<1>4. \A g : Listed(g) => g \in DOMAIN objects
  BY DEF ListInv, ListedHaveObjects, Listed
<1>5. CASE pkt.type = "Connect" /\ HandlePacketConnect(h)
  <2>1. /\ controllers' = Append(controllers, h) /\ controllers \in Seq(Handles)
        /\ DOMAIN objects' = DOMAIN objects \cup {h}
    BY <1>5 DEF HandlePacketConnect, TypeOK, FrontendOK
  <2>2. \A g : Listed(g)' <=> Listed(g) \/ g = h
    <3>1. /\ Len(controllers') = Len(controllers) + 1 /\ Len(controllers) \in Nat
          /\ \A k \in 1..Len(controllers) : controllers'[k] = controllers[k]
          /\ controllers'[Len(controllers) + 1] = h
      BY <1>2, <2>1, AppendProperties
    <3> QED BY <3>1 DEF Listed
  <2>3. PlugOf(h) # "unused"
    BY <1>2, <1>3 DEF PlugOf
  <2>4. \A g \in Handles : g >= h => ViewOf(g) = "unseen"
    <3>1. \A g \in DOMAIN objects : g < h
      BY <1>0, <1>2, <1>5 DEF ListInv, ChannelInv, ConnectsAreNew
    <3> QED BY <1>2, <3>1 DEF ViewOf, Handles
  <2>5. \A g \in Handles : ViewOf(g)' = IF g = h THEN "shown" ELSE ViewOf(g)
    BY <2>1, <2>2 DEF ViewOf
  <2>6. Promise!Show(h)
    BY <1>1, <1>2, <2>3, <2>4, <2>5 DEF Promise!Show
  <2> QED BY <1>2, <2>6 DEF Promise!Next
<1>6. CASE /\ pkt.type = "Disconnect" /\ HandlePacketDisconnect(h)
           /\ FindControllerByHandle(h) # -1
  <2>1. UNCHANGED objects /\ \A g : Listed(g)' <=> Listed(g) /\ g # h
    BY <1>2, <1>6, FoundIsRemoved
       DEF HandlePacketDisconnect, TypeOK, FrontendOK, ListInv
  <2>2. Listed(h)
    BY <1>2, <1>6, FindFacts DEF TypeOK, FrontendOK, Listed
  <2>3. ~Live(h)
    BY <1>0, <1>2, <1>6 DEF ListInv, ChannelInv, DisconnectsAreDue
  <2>4. PlugOf(h) = "out" /\ ViewOf(h) = "shown"
    BY <1>2, <1>3, <1>4, <2>2, <2>3 DEF PlugOf, ViewOf
  <2>5. \A g \in Handles : ViewOf(g)' = IF g = h THEN "gone" ELSE ViewOf(g)
    BY <1>4, <2>1, <2>2 DEF ViewOf
  <2>6. Promise!Hide(h)
    BY <1>1, <1>2, <2>4, <2>5 DEF Promise!Hide
  <2> QED BY <1>2, <2>6 DEF Promise!Next
<1>7. CASE DOMAIN objects' = DOMAIN objects /\ UNCHANGED controllers
  <2>1. UNCHANGED [g \in Handles |-> ViewOf(g)]
    BY <1>7, SameViews DEF Listed
  <2> QED BY <1>1, <2>1 DEF Promise!vars
<1>8. CASE pkt.type = "Disconnect" /\ HandlePacketDisconnect(h)
  BY <1>6, <1>7, <1>8 DEF HandlePacketDisconnect
<1>9. ASSUME HandlePacketInputState(h, pkt.value) PROVE [Promise!Next]_Promise!vars
  BY <1>7, <1>9 DEF HandlePacketInputState
<1> QED BY <1>0, <1>5, <1>7, <1>8, <1>9, ReceiveCases DEF TypeOK

\* Every step of the library is a step Lifecycle allows or changes nothing that
\* Lifecycle knows of.
LEMMA NextKeepsPromise ==
    TypeOK /\ HandleInv /\ ListInv /\ [Next]_vars => [Promise!Next]_Promise!vars
<1> SUFFICES ASSUME TypeOK, HandleInv, ListInv, [Next]_vars
             PROVE  [Promise!Next]_Promise!vars
  OBVIOUS
<1>1. ASSUME UNCHANGED <<nextHandle, controllers>>, DOMAIN objects' = DOMAIN objects,
             \A h : Live(h)' <=> Live(h)
      PROVE  [Promise!Next]_Promise!vars
  <2>1. UNCHANGED [h \in Handles |-> PlugOf(h)]
    BY <1>1, SamePlugs
  <2>2. UNCHANGED [h \in Handles |-> ViewOf(h)]
    BY <1>1, SameViews DEF Listed
  <2> QED BY <2>1, <2>2 DEF Promise!vars
<1>2. ASSUME Startup PROVE [Promise!Next]_Promise!vars
  BY <1>1, <1>2 DEF Startup, Live
<1>3. ASSUME ManagerThread /\ UNCHANGED frontendVars
      PROVE  [Promise!Next]_Promise!vars
  BY <1>1, <1>3 DEF ManagerThread, frontendVars, Live
<1>4. ASSUME NEW p \in Pads, NEW state \in Inputs, NEW pauseDown \in BOOLEAN,
             DeviceReport(p, state, pauseDown) /\ UNCHANGED frontendVars
      PROVE  [Promise!Next]_Promise!vars
  BY <1>1, <1>4 DEF DeviceReport, frontendVars, Live
<1>5. ASSUME BackendReceive /\ UNCHANGED frontendVars
      PROVE  [Promise!Next]_Promise!vars
  <2>1. \A h : Live(h)' <=> Live(h)
    BY <1>5 DEF BackendReceive, HandleSetPlayerIndex, Live
  <2> QED BY <1>1, <1>5, <2>1 DEF BackendReceive, frontendVars
<1>6. ASSUME NEW h \in Handles, NEW i \in Indices,
             SetPlayerIndex(h, i) /\ UNCHANGED backendVars
      PROVE  [Promise!Next]_Promise!vars
  BY <1>1, <1>6 DEF SetPlayerIndex, backendVars, Live
<1>7. ASSUME UNCHANGED vars PROVE [Promise!Next]_Promise!vars
  BY <1>1, <1>7 DEF vars, backendVars, frontendVars, Live
<1> QED
  BY <1>2, <1>3, <1>4, <1>5, <1>6, <1>7, NextCases, AttachedKeepsPromise,
     RemovedKeepsPromise, ReceiveKeepsPromise

\* The whole library implements Lifecycle: for any number of pads and handles
\* and any size of the socket buffer, a controller is shown at most once, in the
\* order of plugging in, and hidden only after it was unplugged and for good.
THEOREM PromiseIsKept == Spec => KeepsPromise
<1>1. Init => Promise!Init
  <2> SUFFICES ASSUME Init PROVE Promise!Init
    OBVIOUS
  <2>1. nextHandle = 1 /\ DOMAIN objects = {}
    BY DEF Init, BackendInit, FrontendInit
  <2>2. \A h \in Handles : PlugOf(h) = "unused" /\ ViewOf(h) = "unseen"
    BY <2>1 DEF PlugOf, ViewOf, Handles
  <2> QED BY <2>2 DEF Promise!Init
<1> QED BY <1>1, NextKeepsPromise, ListInvariance, PTL
        DEF Spec, KeepsPromise, Promise!Spec

-----------------------------------------------------------------------------
(* The values.  Both are written often and read late, so what counts is the *)
(* last packet under way.                                                   *)

\* The k-th packet of the channel c is the last of its type for h.
LastIn(c, type, h, k) ==
    /\ k \in 1..Len(c)
    /\ c[k].type = type /\ c[k].handle = h
    /\ \A j \in (k + 1)..Len(c) : ~(c[j].type = type /\ c[j].handle = h)

\* The last packet of that type for h, if there is one, carries v.
LastCarries(c, type, h, v) ==
    \A k \in 1..Len(c) : LastIn(c, type, h, k) => c[k].value = v

(***************************************************************************)
(* The inductive invariants.  InputSettles says nothing while a report is  *)
(* under way, so it needs to know that the last one under way is the last  *)
(* one written; and an object that is still to be made will start from     *)
(* Released, so no report may have been written, received and forgotten    *)
(* before its Connect packet is handled.                                   *)
(***************************************************************************)
InputAgrees(h) ==
    /\ h >= nextHandle => reported[h] = Released
    /\ <<"InputState", h>> \notin lost =>
          /\ LastCarries(up, "InputState", h, reported[h])
          /\ ~InTransit(up, "InputState", h) =>
                /\ Listed(h) => objects[h].input = reported[h]
                /\ InTransit(up, "Connect", h) => reported[h] = Released

InputInv == \A h \in Handles : InputAgrees(h)

\* An object sends its index from its constructor on, because there is a
\* connection by then.
IndexAgrees(h) ==
    <<"SetPlayerIndex", h>> \notin lost =>
        /\ LastCarries(down, "SetPlayerIndex", h, objects[h].index)
        /\ Live(h) /\ ~InTransit(down, "SetPlayerIndex", h) =>
              pads[devices[h]].index = objects[h].index

IndexInv ==
    /\ DOMAIN objects # {} => connected
    /\ \A h \in DOMAIN objects : IndexAgrees(h)

-----------------------------------------------------------------------------
(* The last packet of a channel. *)

\* The packet just written is the last of its type for its handle.
LEMMA AppendCarries ==
    ASSUME NEW c \in Seq(Packets), NEW pkt \in Packets
    PROVE  /\ LastCarries(Append(c, pkt), pkt.type, pkt.handle, pkt.value)
           /\ InTransit(Append(c, pkt), pkt.type, pkt.handle)
<1>0. PICK d : d = Append(c, pkt)
  OBVIOUS
<1>1. /\ Len(d) = Len(c) + 1 /\ Len(c) \in Nat
      /\ d[Len(c) + 1] = pkt
      /\ InTransit(d, pkt.type, pkt.handle)
  BY <1>0, InTransitOfAppend
<1>2. ASSUME NEW k \in 1..Len(d), LastIn(d, pkt.type, pkt.handle, k)
      PROVE  d[k].value = pkt.value
  <2>1. CASE k = Len(c) + 1
    BY <1>1, <2>1
  <2>2. CASE k # Len(c) + 1
    <3>1. Len(c) + 1 \in (k + 1)..Len(d)
      BY <1>1, <2>2
    <3> QED BY <1>1, <1>2, <3>1 DEF LastIn
  <2> QED BY <2>1, <2>2
<1> QED BY <1>0, <1>1, <1>2 DEF LastCarries

\* A packet of another type or for another handle is no news for h.
LEMMA AppendOther ==
    ASSUME NEW c \in Seq(Packets), NEW pkt \in Packets, NEW type, NEW h, NEW v,
           ~(pkt.type = type /\ pkt.handle = h), LastCarries(c, type, h, v)
    PROVE  LastCarries(Append(c, pkt), type, h, v)
<1>0. PICK d : d = Append(c, pkt)
  OBVIOUS
<1>1. /\ Len(d) = Len(c) + 1 /\ Len(c) \in Nat
      /\ \A k \in 1..Len(c) : d[k] = c[k]
      /\ d[Len(c) + 1] = pkt
  BY <1>0, InTransitOfAppend
<1>2. ASSUME NEW k \in 1..Len(d), LastIn(d, type, h, k)
      PROVE  d[k].value = v
  <2>1. k \in 1..Len(c)
    BY <1>1, <1>2 DEF LastIn
  <2>2. \A j \in (k + 1)..Len(c) : j \in (k + 1)..Len(d) /\ d[j] = c[j]
    BY <1>1
  <2>3. LastIn(c, type, h, k)
    BY <1>1, <1>2, <2>1, <2>2 DEF LastIn
  <2> QED BY <1>1, <2>1, <2>3 DEF LastCarries
<1> QED BY <1>0, <1>2 DEF LastCarries

\* Taking the first packet leaves the last one, or takes it.
LEMMA TailCarries ==
    ASSUME NEW c \in Seq(Packets), c # <<>>, NEW type, NEW h, NEW v,
           LastCarries(c, type, h, v)
    PROVE  /\ LastCarries(Tail(c), type, h, v)
           /\ /\ Head(c).type = type /\ Head(c).handle = h
              /\ ~InTransit(Tail(c), type, h)
              => Head(c).value = v
<1>0. PICK d : d = Tail(c)
  OBVIOUS
<1>1. /\ Len(d) = Len(c) - 1 /\ Len(c) \in Nat \ {0} /\ Head(c) = c[1]
      /\ \A k \in 1..Len(d) : d[k] = c[k + 1]
      /\ \A k \in 1..Len(c) : k # 1 => k - 1 \in 1..Len(d) /\ c[k] = d[k - 1]
  BY <1>0, InTransitOfTail
<1>2. ASSUME NEW k \in 1..Len(d), LastIn(d, type, h, k)
      PROVE  d[k].value = v
  <2>1. k + 1 \in 1..Len(c) /\ d[k] = c[k + 1]
    BY <1>1
  <2>2. ASSUME NEW j \in (k + 2)..Len(c) PROVE ~(c[j].type = type /\ c[j].handle = h)
    <3>1. j - 1 \in (k + 1)..Len(d) /\ c[j] = d[j - 1]
      BY <1>1
    <3> QED BY <1>2, <3>1 DEF LastIn
  <2>3. LastIn(c, type, h, k + 1)
    <3>1. (k + 1) + 1 = k + 2
      OBVIOUS
    <3> QED BY <1>2, <2>1, <2>2, <3>1 DEF LastIn
  <2> QED BY <2>1, <2>3 DEF LastCarries
<1>3. ASSUME Head(c).type = type, Head(c).handle = h, ~InTransit(d, type, h)
      PROVE  Head(c).value = v
  <2>1. ASSUME NEW j \in (1 + 1)..Len(c) PROVE ~(c[j].type = type /\ c[j].handle = h)
    <3>1. j - 1 \in 1..Len(d) /\ c[j] = d[j - 1]
      BY <1>1
    <3> QED BY <1>3, <3>1 DEF InTransit
  <2>2. 1 \in 1..Len(c) /\ LastIn(c, type, h, 1)
    BY <1>1, <1>3, <2>1 DEF LastIn
  <2> QED BY <1>1, <2>2 DEF LastCarries
<1> QED BY <1>0, <1>2, <1>3 DEF LastCarries

\* A write about something else, whether or not it is refused.
LEMMA SentOther ==
    ASSUME NEW c \in Seq(Packets), NEW pkt \in Packets, NEW type, NEW h,
           ~(pkt.type = type /\ pkt.handle = h)
    PROVE  /\ Sent(c, pkt) \in Seq(Packets)
           /\ InTransit(Sent(c, pkt), type, h) <=> InTransit(c, type, h)
           /\ \A v : LastCarries(c, type, h, v) => LastCarries(Sent(c, pkt), type, h, v)
           /\ <<type, h>> \notin Refused(c, pkt)
<1>1. CASE Fits(c)
  <2>1. Sent(c, pkt) = Append(c, pkt) /\ Refused(c, pkt) = {}
    BY <1>1 DEF Sent, Refused
  <2> QED BY <2>1, AppendOther, InTransitOfAppend
<1>2. CASE ~Fits(c)
  BY <1>2 DEF Sent, Refused
<1> QED BY <1>1, <1>2

\* A write is recorded as lost or is the news in the channel.
LEMMA SentSame ==
    ASSUME NEW c \in Seq(Packets), NEW pkt \in Packets,
           <<pkt.type, pkt.handle>> \notin Refused(c, pkt)
    PROVE  /\ LastCarries(Sent(c, pkt), pkt.type, pkt.handle, pkt.value)
           /\ InTransit(Sent(c, pkt), pkt.type, pkt.handle)
<1>1. Sent(c, pkt) = Append(c, pkt)
  BY DEF Sent, Refused
<1> QED BY <1>1, AppendCarries

-----------------------------------------------------------------------------
(* The input state. *)

\* A new handle has nothing reported yet.
LEMMA AttachedInputInv ==
    ASSUME TypeOK, HandleInv, InputInv, NEW p \in Pads, DeviceAttached(p),
           UNCHANGED frontendVars
    PROVE  InputInv'
<1>0. PICK n, pkt : n = nextHandle /\ pkt = Connect(n)
  OBVIOUS
<1>1. CASE p \notin Recognised
  BY <1>1 DEF DeviceAttached, ConnectDummy, frontendVars, InputInv, InputAgrees, Listed
<1>2. CASE p \in Recognised
  <2>1. /\ n \in Handles /\ n \in Nat /\ nextHandle = n /\ nextHandle' = n + 1
        /\ up' = Sent(up, pkt) /\ lost' = lost \cup Refused(up, pkt)
        /\ UNCHANGED <<controllers, objects, reported>>
    BY <1>0, <1>2 DEF DeviceAttached, AttachController, TypeOK, BackendOK,
       Handles, frontendVars
  <2>2. /\ pkt \in Packets /\ up \in Seq(Packets)
        /\ pkt.type = "Connect" /\ pkt.handle = n
    BY <1>0, <2>1, PacketTyping DEF Connect, TypeOK, ChannelsOK
  <2>3. \A h : Listed(h)' <=> Listed(h)
    BY <2>1 DEF Listed
  <2> SUFFICES ASSUME NEW h \in Handles PROVE InputAgrees(h)'
    BY DEF InputInv
  <2>4. InputAgrees(h) /\ h \in Nat
    BY DEF InputInv, Handles
  <2>5. h >= nextHandle' => reported'[h] = Released
    BY <2>1, <2>4 DEF InputAgrees
  <2>6. /\ InTransit(up', "InputState", h) <=> InTransit(up, "InputState", h)
        /\ \A v : LastCarries(up, "InputState", h, v)
                  => LastCarries(up', "InputState", h, v)
    BY <2>1, <2>2, SentOther
  <2>7. InTransit(up', "Connect", h) => InTransit(up, "Connect", h) \/ h = n
    <3>1. up' = up \/ up' = Append(up, pkt)
      BY <2>1 DEF Sent
    <3>2. InTransit(Append(up, pkt), "Connect", h)
             => InTransit(up, "Connect", h) \/ h = n
      BY <2>2, InTransitOfAppend
    <3>3. CASE up' = up
      BY <3>3
    <3>4. CASE up' = Append(up, pkt)
      BY <3>2, <3>4
    <3> QED BY <3>1, <3>3, <3>4
  <2>8. h = n => reported[h] = Released
    BY <2>1, <2>4 DEF InputAgrees
  <2> QED BY <2>1, <2>3, <2>4, <2>5, <2>6, <2>7, <2>8 DEF InputAgrees
<1> QED BY <1>1, <1>2

\* A Disconnect packet is no report.
LEMMA RemovedInputInv ==
    ASSUME TypeOK, HandleInv, InputInv, NEW p \in Pads, DeviceRemoved(p),
           UNCHANGED frontendVars
    PROVE  InputInv'
<1>0. PICK n, pkt : n = pads[p].handle /\ pkt = Disconnect(n)
  OBVIOUS
<1>1. UNCHANGED <<nextHandle, reported, controllers, objects>>
  BY DEF DeviceRemoved, frontendVars
<1>2. \A h : Listed(h)' <=> Listed(h)
  BY <1>1 DEF Listed
<1>3. CASE n \notin DOMAIN devices
  <2>1. UNCHANGED <<up, lost>>
    BY <1>0, <1>3 DEF DeviceRemoved, DetachController
  <2> QED BY <1>1, <1>2, <2>1 DEF InputInv, InputAgrees
<1>4. CASE n \in DOMAIN devices
  <2>1. /\ up' = Sent(up, pkt) /\ lost' = lost \cup Refused(up, pkt)
        /\ pkt \in Packets /\ up \in Seq(Packets)
        /\ pkt.type = "Disconnect"
    BY <1>0, <1>4, PacketTyping
       DEF DeviceRemoved, DetachController, Disconnect, TypeOK, BackendOK, ChannelsOK
  <2>2. \A h : /\ InTransit(up', "InputState", h) <=> InTransit(up, "InputState", h)
               /\ InTransit(up', "Connect", h) <=> InTransit(up, "Connect", h)
               /\ \A v : LastCarries(up, "InputState", h, v)
                         => LastCarries(up', "InputState", h, v)
    BY <2>1, SentOther
  <2> QED BY <1>1, <1>2, <2>1, <2>2 DEF InputInv, InputAgrees
<1> QED BY <1>3, <1>4

\* A report is the news about its handle, or is lost.
LEMMA ReportInputInv ==
    ASSUME TypeOK, HandleInv, InputInv, NEW p \in Pads, NEW state \in Inputs,
           NEW pauseDown \in BOOLEAN, DeviceReport(p, state, pauseDown),
           UNCHANGED frontendVars
    PROVE  InputInv'
<1>0. PICK n, pause, c, pkt :
         /\ n = pads[p].handle /\ pause = PausePressed(n)
         /\ pkt = InputState(n, state)
         /\ c = IF pauseDown /\ ~pads[p].pauseHeld THEN Sent(up, pause) ELSE up
  OBVIOUS
<1>1. /\ n \in Handles /\ n \in Nat /\ n < nextHandle /\ nextHandle \in Nat
      /\ ~(n >= nextHandle)
  BY <1>0 DEF DeviceReport, HandleInv, HandlesMatchPads, NullEntriesAreSpent, Live,
     TypeOK, BackendOK, Connections, Handles
<1>2. /\ up' = Sent(c, pkt) /\ lost' = lost \cup Refused(c, pkt)
      /\ reported' = [reported EXCEPT ![n] = state]
      /\ reported \in [Handles -> Inputs]
      /\ UNCHANGED <<nextHandle, controllers, objects>>
  BY <1>0 DEF DeviceReport, frontendVars, TypeOK, BackendOK
<1>3. /\ pause \in Packets /\ pkt \in Packets /\ up \in Seq(Packets)
      /\ pause.type = "PausePressed" /\ pkt.type = "InputState"
      /\ pkt.handle = n /\ pkt.value = state
  BY <1>0, <1>1, PacketTyping DEF PausePressed, InputState, TypeOK, ChannelsOK
<1>4. /\ c \in Seq(Packets)
      /\ \A h : /\ InTransit(c, "InputState", h) <=> InTransit(up, "InputState", h)
                /\ InTransit(c, "Connect", h) <=> InTransit(up, "Connect", h)
                /\ \A v : LastCarries(up, "InputState", h, v)
                          => LastCarries(c, "InputState", h, v)
  BY <1>0, <1>3, SentOther
<1>5. \A h : Listed(h)' <=> Listed(h)
  BY <1>2 DEF Listed
<1> SUFFICES ASSUME NEW h \in Handles PROVE InputAgrees(h)'
  BY DEF InputInv
<1>6. InputAgrees(h)
  BY DEF InputInv
<1>7. CASE h = n
  <2>1. reported'[h] = state
    BY <1>2, <1>7
  <2>2. <<"InputState", h>> \notin lost' =>
           LastCarries(up', "InputState", h, state) /\ InTransit(up', "InputState", h)
    BY <1>2, <1>3, <1>4, <1>7, SentSame
  <2> QED BY <1>1, <1>2, <1>7, <2>1, <2>2 DEF InputAgrees
<1>8. CASE h # n
  <2>1. reported'[h] = reported[h]
    BY <1>2, <1>8
  <2>2. /\ InTransit(up', "InputState", h) <=> InTransit(c, "InputState", h)
        /\ InTransit(up', "Connect", h) <=> InTransit(c, "Connect", h)
        /\ \A v : LastCarries(c, "InputState", h, v)
                  => LastCarries(up', "InputState", h, v)
    BY <1>2, <1>3, <1>4, <1>8, SentOther
  <2> QED BY <1>2, <1>4, <1>5, <1>6, <2>1, <2>2 DEF InputAgrees
<1> QED BY <1>7, <1>8

\* SetControllerIndex only ever loses SetPlayerIndex packets.
LEMMA IndexLosses ==
    ASSUME NEW g, NEW i, SetControllerIndex(g, i), NEW h
    PROVE  <<"InputState", h>> \in lost' <=> <<"InputState", h>> \in lost
BY DEF SetControllerIndex, Refused, SetPlayerIndexPacket

\* A Connect packet finds a pad that reported nothing or whose report is still
\* behind it; the last report handled is the one the object shows.
LEMMA FrontendReceiveInputInv ==
    ASSUME TypeOK, HandleInv, ListInv, InputInv, FrontendReceive,
           UNCHANGED backendVars
    PROVE  InputInv'
<1>0. PICK pkt, g, c : pkt = Head(up) /\ g = pkt.handle /\ c = Tail(up)
  OBVIOUS
<1>1. /\ up # <<>> /\ up' = c /\ up \in Seq(Packets)
      /\ UNCHANGED <<nextHandle, reported>>
  BY <1>0, ReceiveCases DEF TypeOK, ChannelsOK, backendVars
<1>2. /\ pkt \in Packets /\ g \in Handles
      /\ \A type, h : InTransit(up, type, h) <=>
            InTransit(c, type, h) \/ (pkt.type = type /\ g = h)
  BY <1>0, <1>1, ReceiveCases, PacketFields, InTransitOfTail DEF TypeOK
<1>3. \A h, v : LastCarries(up, "InputState", h, v) =>
         /\ LastCarries(c, "InputState", h, v)
         /\ pkt.type = "InputState" /\ g = h /\ ~InTransit(c, "InputState", h)
            => pkt.value = v
  BY <1>0, <1>1, TailCarries
<1>4. /\ controllers \in Seq(Handles)
      /\ \A h \in DOMAIN objects : objects[h] \in [index : Indices, input : Inputs]
  BY DEF TypeOK, FrontendOK
<1> SUFFICES ASSUME NEW h \in Handles PROVE InputAgrees(h)'
  BY DEF InputInv
<1>5. InputAgrees(h)
  BY DEF InputInv
<1>6. ASSUME <<"InputState", h>> \in lost' <=> <<"InputState", h>> \in lost,
             pkt.type = "InputState" => g # h,
             Listed(h)' /\ ~InTransit(up, "InputState", h)
                /\ <<"InputState", h>> \notin lost
             => objects'[h].input = reported[h]
      PROVE  InputAgrees(h)'
  BY <1>1, <1>2, <1>3, <1>5, <1>6 DEF InputAgrees
<1>7. CASE pkt.type = "Connect" /\ HandlePacketConnect(g)
  <2>1. /\ objects'[g].input = Released
        /\ h # g /\ h \in DOMAIN objects => objects'[h] = objects[h]
        /\ controllers' = Append(controllers, g)
    BY <1>7 DEF HandlePacketConnect
  <2>2. Listed(h)' => Listed(h) \/ h = g
    <3>1. /\ Len(controllers') = Len(controllers) + 1 /\ Len(controllers) \in Nat
          /\ \A k \in 1..Len(controllers) : controllers'[k] = controllers[k]
          /\ controllers'[Len(controllers) + 1] = g
      BY <1>2, <1>4, <2>1, AppendProperties
    <3> QED BY <3>1 DEF Listed
  <2>3. Listed(h) => h \in DOMAIN objects
    BY DEF ListInv, ListedHaveObjects, Listed
  <2>4. <<"InputState", h>> \in lost' <=> <<"InputState", h>> \in lost
    BY <1>7, IndexLosses DEF HandlePacketConnect
  <2> QED BY <1>2, <1>5, <1>6, <1>7, <2>1, <2>2, <2>3, <2>4 DEF InputAgrees
<1>8. CASE pkt.type = "Disconnect" /\ HandlePacketDisconnect(g)
  <2>1. UNCHANGED <<objects, lost>>
    BY <1>8 DEF HandlePacketDisconnect
  <2>2. Listed(h)' => Listed(h)
    BY <1>2, <1>4, <1>8, FoundIsRemoved
       DEF HandlePacketDisconnect, ListInv, Listed
  <2> QED BY <1>5, <1>6, <1>8, <2>1, <2>2 DEF InputAgrees
<1>9. CASE pkt.type = "InputState" /\ HandlePacketInputState(g, pkt.value)
  <2>1. /\ UNCHANGED <<controllers, lost>>
        /\ objects' = IF FindControllerByHandle(g) = -1 THEN objects
                      ELSE [objects EXCEPT ![g].input = pkt.value]
    BY <1>9 DEF HandlePacketInputState
  <2>2. Listed(h)' <=> Listed(h)
    BY <2>1 DEF Listed
  <2>3. CASE h # g
    <3>1. objects'[h] = objects[h]
      BY <2>1, <2>3
    <3> QED BY <1>5, <1>6, <2>1, <2>2, <2>3, <3>1 DEF InputAgrees
  <2>4. CASE h = g
    <3>1. Listed(h) => h \in DOMAIN objects /\ objects'[h].input = pkt.value
      <4>1. Listed(h) => h \in DOMAIN objects /\ FindControllerByHandle(g) # -1
        BY <1>2, <1>4, <2>4, FindFacts DEF ListInv, ListedHaveObjects, Listed
      <4>2. h \in DOMAIN objects => objects[h] \in [index : Indices, input : Inputs]
        BY <1>4
      <4> QED BY <2>1, <2>4, <4>1, <4>2
    <3>2. ~InTransit(c, "Connect", h)
      <4>1. ASSUME NEW k \in 1..Len(c), c[k].type = "Connect", c[k].handle = h
            PROVE  FALSE
        <5>1. /\ k + 1 \in 1..Len(up) /\ up[k + 1] = c[k] /\ up[1] = pkt
              /\ 1 \in 1..((k + 1) - 1)
          BY <1>0, <1>1, InTransitOfTail
        <5>2. up[1].handle < up[k + 1].handle
          BY <4>1, <5>1 DEF ListInv, ChannelInv, ConnectsAreNew
        <5> QED BY <1>0, <2>4, <4>1, <5>1, <5>2 DEF Handles
      <4> QED BY <4>1 DEF InTransit
    <3> QED BY <1>1, <1>3, <1>5, <1>9, <2>1, <2>2, <2>4, <3>1, <3>2 DEF InputAgrees
  <2> QED BY <2>3, <2>4
<1>10. CASE /\ pkt.type \notin {"Connect", "Disconnect", "InputState"}
            /\ UNCHANGED <<controllers, objects, crashed, down, lost>>
  <2>1. Listed(h)' <=> Listed(h)
    BY <1>10 DEF Listed
  <2> QED BY <1>5, <1>6, <1>10, <2>1 DEF InputAgrees
<1> QED BY <1>0, <1>7, <1>8, <1>9, <1>10, ReceiveCases DEF TypeOK

\* Nothing was reported and nothing is under way.
LEMMA InitInputInv == Init => InputInv
<1> SUFFICES ASSUME Init PROVE InputInv
  OBVIOUS
<1>1. /\ up = <<>> /\ controllers = <<>>
      /\ \A h \in Handles : reported[h] = Released
  BY DEF Init, ChannelsInit, BackendInit, FrontendInit
<1>2. Len(up) = 0 /\ Len(controllers) = 0
  BY <1>1
<1> QED BY <1>1, <1>2 DEF InputInv, InputAgrees, LastCarries, Listed, InTransit

\* Every step keeps the inductive invariant of the input state.
LEMMA NextInputInv ==
    TypeOK /\ HandleInv /\ ListInv /\ InputInv /\ [Next]_vars => InputInv'
<1> SUFFICES ASSUME TypeOK, HandleInv, ListInv, InputInv, [Next]_vars
             PROVE  InputInv'
  OBVIOUS
<1>1. ASSUME UNCHANGED <<nextHandle, reported, controllers, up>>,
             \A h : <<"InputState", h>> \in lost' <=> <<"InputState", h>> \in lost,
             ListInv => \A h : Listed(h) => objects'[h].input = objects[h].input
      PROVE  InputInv'
  <2>1. \A h : Listed(h)' <=> Listed(h)
    BY <1>1 DEF Listed
  <2> QED BY <1>1, <2>1 DEF InputInv, InputAgrees
<1>2. ASSUME Startup PROVE InputInv'
  BY <1>1, <1>2 DEF Startup
<1>3. ASSUME ManagerThread /\ UNCHANGED frontendVars PROVE InputInv'
  BY <1>1, <1>3 DEF ManagerThread, frontendVars
<1>4. ASSUME BackendReceive /\ UNCHANGED frontendVars PROVE InputInv'
  BY <1>1, <1>4 DEF BackendReceive, frontendVars
<1>5. ASSUME NEW g \in Handles, NEW i \in Indices,
             SetPlayerIndex(g, i) /\ UNCHANGED backendVars
      PROVE  InputInv'
  <2>1. \A h : <<"InputState", h>> \in lost' <=> <<"InputState", h>> \in lost
    BY <1>5, IndexLosses DEF SetPlayerIndex
  <2>2. ASSUME NEW h, Listed(h) PROVE objects'[h].input = objects[h].input
    <3>1. h \in DOMAIN objects
      BY <2>2 DEF ListInv, ListedHaveObjects, Listed
    <3>2. objects[h] \in [index : Indices, input : Inputs]
      BY <3>1 DEF TypeOK, FrontendOK
    <3> QED BY <1>5, <3>1, <3>2 DEF SetPlayerIndex
  <2>3. UNCHANGED <<nextHandle, reported, controllers, up>>
    BY <1>5 DEF SetPlayerIndex, backendVars
  <2> QED BY <1>1, <2>1, <2>2, <2>3
<1>6. ASSUME UNCHANGED vars PROVE InputInv'
  BY <1>1, <1>6 DEF vars, backendVars, frontendVars
<1> QED
  BY <1>2, <1>3, <1>4, <1>5, <1>6, NextCases, AttachedInputInv, RemovedInputInv,
     ReportInputInv, FrontendReceiveInputInv

\* The input an application reads is the last one reported, unless a newer
\* report is under way or was lost: for any number of pads and input states,
\* however many reports are queued before and after the Connect packet.
THEOREM InputIsCurrent == Spec => []InputSettles
<1>1. TypeOK /\ HandleInv /\ ListInv /\ InputInv => InputSettles
  BY DEF InputInv, InputAgrees, InputSettles
<1> QED BY <1>1, ListInvariance, InitInputInv, NextInputInv, PTL DEF Spec

-----------------------------------------------------------------------------
(* The player index. *)

\* A new pad has no object yet, and takes no other pad's place.
LEMMA AttachedIndexInv ==
    ASSUME TypeOK, HandleInv, IndexInv, NEW p \in Pads, DeviceAttached(p),
           UNCHANGED frontendVars
    PROVE  IndexInv'
<1>1. /\ UNCHANGED <<connected, objects, down>> /\ ~pads[p].open
      /\ \A q \in Pads : q # p => pads'[q] = pads[q]
      /\ pads \in [Pads -> Connections]
  BY DEF DeviceAttached, AttachController, ConnectDummy, frontendVars, TypeOK, BackendOK
<1>2. \A h : <<"SetPlayerIndex", h>> \in lost' <=> <<"SetPlayerIndex", h>> \in lost
  BY DEF DeviceAttached, AttachController, ConnectDummy, Refused, Connect
<1>3. ASSUME NEW h \in DOMAIN objects
      PROVE  Live(h)' => Live(h) /\ devices'[h] = devices[h]
  <2>1. h < nextHandle /\ h \in Nat /\ nextHandle \in Nat
    BY DEF HandleInv, HandlesAreIssued, TypeOK, FrontendOK, BackendOK, Handles
  <2>2. h # nextHandle
    BY <2>1
  <2> QED BY <2>2 DEF DeviceAttached, AttachController, ConnectDummy, Live
<1>4. ASSUME NEW h \in DOMAIN objects, Live(h)
      PROVE  pads'[devices[h]] = pads[devices[h]]
  <2>1. devices[h] \in Pads /\ pads[devices[h]].open
    BY <1>4 DEF HandleInv, HandlesMatchPads, Live, TypeOK, BackendOK
  <2> QED BY <1>1, <2>1
<1> QED BY <1>1, <1>2, <1>3, <1>4 DEF IndexInv, IndexAgrees

\* Removing a pad leaves the others their index.
LEMMA RemovedIndexInv ==
    ASSUME TypeOK, HandleInv, IndexInv, NEW p \in Pads, DeviceRemoved(p),
           UNCHANGED frontendVars
    PROVE  IndexInv'
<1>0. PICK n : n = pads[p].handle
  OBVIOUS
<1>1. /\ UNCHANGED <<connected, objects, down>>
      /\ \A q : q # p => pads'[q] = pads[q]
      /\ DOMAIN devices' = DOMAIN devices \ {n}
      /\ \A h \in DOMAIN devices' : devices'[h] = devices[h]
  BY <1>0 DEF DeviceRemoved, DetachController, frontendVars, TypeOK, BackendOK
<1>2. \A h : <<"SetPlayerIndex", h>> \in lost' <=> <<"SetPlayerIndex", h>> \in lost
  BY DEF DeviceRemoved, DetachController, Refused, Disconnect
<1>3. ASSUME NEW h \in DOMAIN objects, Live(h)'
      PROVE  /\ Live(h) /\ devices'[h] = devices[h]
             /\ pads'[devices[h]] = pads[devices[h]]
  <2>1. Live(h) /\ h # n /\ devices'[h] = devices[h]
    BY <1>1, <1>3 DEF Live
  <2>2. pads[devices[h]].handle = h
    BY <2>1 DEF HandleInv, HandlesMatchPads, Live
  <2>3. devices[h] # p
    BY <1>0, <2>1, <2>2
  <2> QED BY <1>1, <2>1, <2>3
<1> QED BY <1>1, <1>2, <1>3 DEF IndexInv, IndexAgrees

\* A report changes no index.
LEMMA ReportIndexInv ==
    ASSUME TypeOK, HandleInv, IndexInv, NEW p \in Pads, NEW state \in Inputs,
           NEW pauseDown \in BOOLEAN, DeviceReport(p, state, pauseDown),
           UNCHANGED frontendVars
    PROVE  IndexInv'
<1>1. /\ UNCHANGED <<connected, objects, down, devices>>
      /\ pads' = [pads EXCEPT ![p].pauseHeld = pauseDown]
      /\ pads \in [Pads -> Connections]
  BY DEF DeviceReport, frontendVars, TypeOK, BackendOK
<1>2. \A h : <<"SetPlayerIndex", h>> \in lost' <=> <<"SetPlayerIndex", h>> \in lost
  BY DEF DeviceReport, Refused, InputState
<1>3. \A q \in Pads : pads'[q].index = pads[q].index
  BY <1>1 DEF Connections
<1>4. \A h : Live(h)' <=> Live(h)
  BY <1>1 DEF Live
<1>5. \A h : Live(h) => devices[h] \in Pads
  BY DEF Live, TypeOK, BackendOK
<1> QED BY <1>1, <1>2, <1>3, <1>4, <1>5 DEF IndexInv, IndexAgrees

\* The packet handled is the last one about its object, or another follows it;
\* no two handles lead to the same pad.
LEMMA BackendReceiveIndexInv ==
    ASSUME TypeOK, HandleInv, IndexInv, BackendReceive, UNCHANGED frontendVars
    PROVE  IndexInv'
<1>0. PICK pkt, g, c : pkt = Head(down) /\ g = pkt.handle /\ c = Tail(down)
  OBVIOUS
<1>1. /\ down # <<>> /\ down' = c /\ down \in Seq(Packets)
      /\ UNCHANGED <<connected, objects, lost>>
      /\ pads \in [Pads -> Connections]
      /\ IF pkt.type = "SetPlayerIndex"
         THEN HandleSetPlayerIndex(pkt) ELSE UNCHANGED <<devices, pads>>
  BY <1>0 DEF BackendReceive, frontendVars, TypeOK, ChannelsOK, BackendOK
<1>2. /\ pkt \in Packets /\ g \in Handles
      /\ \A h : InTransit(down, "SetPlayerIndex", h) <=>
            \/ InTransit(c, "SetPlayerIndex", h)
            \/ pkt.type = "SetPlayerIndex" /\ g = h
  BY <1>0, <1>1, HeadTail, PacketFields, InTransitOfTail
<1>3. \A h, v : LastCarries(down, "SetPlayerIndex", h, v) =>
         /\ LastCarries(c, "SetPlayerIndex", h, v)
         /\ /\ pkt.type = "SetPlayerIndex" /\ g = h
            /\ ~InTransit(c, "SetPlayerIndex", h)
            => pkt.value = v
  BY <1>0, <1>1, TailCarries
<1>4. \A h : Live(h)' => Live(h) /\ devices'[h] = devices[h]
  BY <1>1 DEF HandleSetPlayerIndex, Live
<1>5. \A h : Live(h) => /\ devices[h] \in Pads
                        /\ pads[devices[h]].handle = h
  BY DEF Live, HandleInv, HandlesMatchPads, TypeOK, BackendOK
<1> SUFFICES ASSUME NEW h \in DOMAIN objects, Live(h)
             PROVE  IF pkt.type = "SetPlayerIndex" /\ g = h
                    THEN pads'[devices[h]].index = pkt.value
                    ELSE pads'[devices[h]].index = pads[devices[h]].index
  BY <1>1, <1>2, <1>3, <1>4 DEF IndexInv, IndexAgrees
<1>6. CASE pkt.type = "SetPlayerIndex" /\ g = h
  BY <1>0, <1>1, <1>5, <1>6 DEF HandleSetPlayerIndex, Connections
<1>7. CASE pkt.type = "SetPlayerIndex" /\ g # h
  <2>1. CASE Live(g)
    <3>1. devices[g] # devices[h]
      BY <1>5, <1>7, <2>1
    <3>2. pads' = [pads EXCEPT ![devices[g]].index = pkt.value]
      BY <1>0, <1>1, <1>7, <2>1 DEF HandleSetPlayerIndex
    <3> QED BY <1>1, <1>5, <1>7, <3>1, <3>2
  <2>2. CASE ~Live(g)
    BY <1>0, <1>1, <1>7, <2>2 DEF HandleSetPlayerIndex
  <2> QED BY <2>1, <2>2
<1>8. CASE pkt.type # "SetPlayerIndex"
  BY <1>1, <1>8
<1> QED BY <1>6, <1>7, <1>8

\* Setting an index writes it, or loses it and says so.
LEMMA SetControllerIndexSettles ==
    ASSUME ChannelsOK, connected, NEW g \in Handles, NEW i \in Indices,
           SetControllerIndex(g, i), NEW h,
           <<"SetPlayerIndex", h>> \notin lost'
    PROVE  /\ <<"SetPlayerIndex", h>> \notin lost
           /\ h = g => /\ LastCarries(down', "SetPlayerIndex", h, i)
                       /\ InTransit(down', "SetPlayerIndex", h)
           /\ h # g => /\ InTransit(down', "SetPlayerIndex", h)
                          <=> InTransit(down, "SetPlayerIndex", h)
                       /\ \A v : LastCarries(down, "SetPlayerIndex", h, v)
                                 => LastCarries(down', "SetPlayerIndex", h, v)
<1>0. PICK pkt : pkt = SetPlayerIndexPacket(g, i)
  OBVIOUS
<1>1. /\ pkt \in Packets /\ pkt.type = "SetPlayerIndex"
      /\ pkt.handle = g /\ pkt.value = i /\ down \in Seq(Packets)
  BY <1>0, PacketTyping DEF SetPlayerIndexPacket, ChannelsOK
<1>2. down' = Sent(down, pkt) /\ lost' = lost \cup Refused(down, pkt)
  BY <1>0 DEF SetControllerIndex
<1>3. CASE h = g
  BY <1>1, <1>2, <1>3, SentSame
<1>4. CASE h # g
  BY <1>1, <1>2, <1>4, SentOther
<1> QED BY <1>3, <1>4

\* A new object sends that its index is unset; no other packet touches one.
LEMMA FrontendReceiveIndexInv ==
    ASSUME TypeOK, HandleInv, IndexInv, FrontendReceive, UNCHANGED backendVars
    PROVE  IndexInv'
<1>0. PICK pkt, g : pkt = Head(up) /\ g = pkt.handle
  OBVIOUS
<1>1. /\ UNCHANGED <<devices, pads>> /\ connected /\ connected'
      /\ \A h : Live(h)' <=> Live(h)
  BY ReceiveCases DEF TypeOK, backendVars, Live
<1>2. /\ g \in Handles /\ Unset \in Indices /\ ChannelsOK
      /\ \A h \in DOMAIN objects : objects[h] \in [index : Indices, input : Inputs]
  BY <1>0, ReceiveCases, PacketFields DEF TypeOK, FrontendOK
<1>3. CASE pkt.type = "Connect" /\ HandlePacketConnect(g)
  <2>1. /\ objects'[g].index = Unset /\ DOMAIN objects' = DOMAIN objects \cup {g}
        /\ \A h \in DOMAIN objects : h # g => objects'[h] = objects[h]
        /\ SetControllerIndex(g, Unset)
    BY <1>3 DEF HandlePacketConnect
  <2> SUFFICES ASSUME NEW h \in DOMAIN objects', <<"SetPlayerIndex", h>> \notin lost'
               PROVE  IndexAgrees(h)'
    BY <1>1 DEF IndexInv, IndexAgrees
  <2>2. /\ <<"SetPlayerIndex", h>> \notin lost
        /\ h = g => /\ LastCarries(down', "SetPlayerIndex", h, Unset)
                    /\ InTransit(down', "SetPlayerIndex", h)
        /\ h # g => /\ InTransit(down', "SetPlayerIndex", h)
                       <=> InTransit(down, "SetPlayerIndex", h)
                    /\ \A v : LastCarries(down, "SetPlayerIndex", h, v)
                              => LastCarries(down', "SetPlayerIndex", h, v)
    BY <1>1, <1>2, <2>1, SetControllerIndexSettles
  <2>3. CASE h = g
    BY <2>1, <2>2, <2>3 DEF IndexAgrees
  <2>4. CASE h # g
    BY <1>1, <2>1, <2>2, <2>4 DEF IndexInv, IndexAgrees
  <2> QED BY <2>3, <2>4
<1>4. ASSUME UNCHANGED <<down, lost>>, DOMAIN objects' = DOMAIN objects,
             \A h \in DOMAIN objects : objects'[h].index = objects[h].index
      PROVE  IndexInv'
  BY <1>1, <1>4 DEF IndexInv, IndexAgrees
<1>5. CASE HandlePacketInputState(g, pkt.value)
  BY <1>2, <1>4, <1>5 DEF HandlePacketInputState
<1>6. CASE HandlePacketDisconnect(g)
  BY <1>4, <1>6 DEF HandlePacketDisconnect
<1>7. CASE UNCHANGED <<controllers, objects, crashed, down, lost>>
  BY <1>4, <1>7
<1> QED BY <1>0, <1>3, <1>5, <1>6, <1>7, ReceiveCases DEF TypeOK

\* What the application sets is on its way, or lost.
LEMMA SetPlayerIndexIndexInv ==
    ASSUME TypeOK, HandleInv, IndexInv, NEW g \in Handles, NEW i \in Indices,
           SetPlayerIndex(g, i), UNCHANGED backendVars
    PROVE  IndexInv'
<1>1. /\ UNCHANGED <<devices, pads, connected>> /\ connected
      /\ SetControllerIndex(g, i) /\ ChannelsOK
      /\ g \in DOMAIN objects /\ objects' = [objects EXCEPT ![g].index = i]
      /\ objects[g] \in [index : Indices, input : Inputs]
  BY DEF SetPlayerIndex, backendVars, IndexInv, TypeOK, FrontendOK
<1>2. \A h : Live(h)' <=> Live(h)
  BY <1>1 DEF Live
<1>3. /\ DOMAIN objects' = DOMAIN objects /\ objects'[g].index = i
      /\ \A h \in DOMAIN objects : h # g => objects'[h] = objects[h]
  BY <1>1
<1> SUFFICES ASSUME NEW h \in DOMAIN objects, <<"SetPlayerIndex", h>> \notin lost'
             PROVE  IndexAgrees(h)'
  BY <1>1, <1>3 DEF IndexInv, IndexAgrees
<1>4. /\ <<"SetPlayerIndex", h>> \notin lost
      /\ h = g => /\ LastCarries(down', "SetPlayerIndex", h, i)
                  /\ InTransit(down', "SetPlayerIndex", h)
      /\ h # g => /\ InTransit(down', "SetPlayerIndex", h)
                     <=> InTransit(down, "SetPlayerIndex", h)
                  /\ \A v : LastCarries(down, "SetPlayerIndex", h, v)
                            => LastCarries(down', "SetPlayerIndex", h, v)
  BY <1>1, SetControllerIndexSettles
<1>5. CASE h = g
  BY <1>3, <1>4, <1>5 DEF IndexAgrees
<1>6. CASE h # g
  BY <1>1, <1>2, <1>3, <1>4, <1>6 DEF IndexInv, IndexAgrees
<1> QED BY <1>5, <1>6

\* There are no objects yet.
LEMMA InitIndexInv == Init => IndexInv
BY DEF Init, FrontendInit, IndexInv

\* Every step keeps the inductive invariant of the player index.
LEMMA NextIndexInv ==
    TypeOK /\ HandleInv /\ IndexInv /\ [Next]_vars => IndexInv'
<1> SUFFICES ASSUME TypeOK, HandleInv, IndexInv, [Next]_vars PROVE IndexInv'
  OBVIOUS
<1>1. ASSUME UNCHANGED <<devices, pads, objects, down, lost>>, connected => connected'
      PROVE  IndexInv'
  <2>1. \A h : Live(h)' <=> Live(h)
    BY <1>1 DEF Live
  <2> QED BY <1>1, <2>1 DEF IndexInv, IndexAgrees
<1>2. ASSUME Startup PROVE IndexInv'
  BY <1>1, <1>2 DEF Startup
<1>3. ASSUME ManagerThread /\ UNCHANGED frontendVars PROVE IndexInv'
  BY <1>1, <1>3 DEF ManagerThread, frontendVars
<1>4. ASSUME UNCHANGED vars PROVE IndexInv'
  BY <1>1, <1>4 DEF vars, backendVars, frontendVars
<1> QED
  BY <1>2, <1>3, <1>4, NextCases, AttachedIndexInv, RemovedIndexInv, ReportIndexInv,
     BackendReceiveIndexInv, FrontendReceiveIndexInv, SetPlayerIndexIndexInv

\* A pad shows the index of its object, unless a newer SetPlayerIndex is under
\* way or was lost: for any number of pads and indices, however removals, new
\* controllers and calls of the application cross.
THEOREM IndexIsCurrent == Spec => []IndexSettles
<1>1. IndexInv => IndexSettles
  BY DEF IndexInv, IndexAgrees, IndexSettles
<1>2. Spec => [](TypeOK /\ HandleInv)
  BY TypeCorrect, HandleInvariant, PTL
<1> QED BY <1>1, <1>2, InitIndexInv, NextIndexInv, PTL DEF Spec
=============================================================================
