------------------------------ MODULE Protocol ------------------------------
(***************************************************************************)
(* The packets of include/protocol.h and the socket pair that carries them *)
(* between the manager thread (backend) and the application's main thread  *)
(* (frontend).  Each direction is a queue of whole packets: module Link    *)
(* shows that Connection (src/common.cpp) turns the byte stream into one.  *)
(*                                                                         *)
(* Both descriptors are non-blocking and no Send function looks at what    *)
(* write() returned, so a packet that does not fit in the socket buffer is *)
(* silently lost.  "lost" records what was lost; it is a history variable, *)
(* the program keeps nothing of the kind.  A short write, which takes the  *)
(* beginning of a packet, is left to Link: the stream ends with it.        *)
(***************************************************************************)
EXTENDS Integers, Sequences

CONSTANTS
    MaxHandle,  \* bound: how many controllers the manager thread attaches
    Inputs,     \* the input states a report can carry
    Released,   \* the input state in which nothing is pressed
    Indices,    \* the player indices the application assigns
    Capacity    \* packets that fit in the socket buffer of one direction

\* GCControllerPlayerIndexUnset.
Unset == -1

ASSUME ProtocolAssumption ==
    /\ MaxHandle \in Nat
    /\ Released \in Inputs
    /\ Indices \subseteq Int /\ Unset \in Indices
    /\ Capacity \in Nat \ {0}

VARIABLES
    up,         \* packets on their way from the backend to the frontend
    down,       \* packets on their way from the frontend to the backend
    lost        \* history: type and handle of the packets write() refused,
                \* but for PausePressed

(***************************************************************************)
(* nextHandle starts at 1 and 32 bits are never used up (MaxHandle bounds  *)
(* the attachments), so 0 stays the handle of an interface that was never  *)
(* attached and 16^^FFFFFFFF that of the iCade keyboard.                   *)
(***************************************************************************)
Handles == 1..MaxHandle

PacketTypes ==
    {"Connect", "Disconnect", "InputState", "SetPlayerIndex", "PausePressed"}

Packets ==
    [type : {"Connect", "Disconnect", "PausePressed"}, handle : Handles,
     value : {Released}]
    \cup [type : {"InputState"}, handle : Handles, value : Inputs]
    \cup [type : {"SetPlayerIndex"}, handle : Handles, value : Indices]

Connect(h)           == [type |-> "Connect", handle |-> h, value |-> Released]
Disconnect(h)        == [type |-> "Disconnect", handle |-> h, value |-> Released]
InputState(h, state) == [type |-> "InputState", handle |-> h, value |-> state]
PausePressed(h)      == [type |-> "PausePressed", handle |-> h, value |-> Released]
SetPlayerIndexPacket(h, i) ==
    [type |-> "SetPlayerIndex", handle |-> h, value |-> i]

Fits(channel) == Len(channel) < Capacity

\* The channel after write(Descriptor, &pkt, pkt.Size).
Sent(channel, pkt) == IF Fits(channel) THEN Append(channel, pkt) ELSE channel

\* What that write lost.
Refused(channel, pkt) ==
    IF Fits(channel) THEN {} ELSE {<<pkt.type, pkt.handle>>}

\* A packet of that type for h is still in the channel.
InTransit(channel, type, h) ==
    \E k \in 1..Len(channel) : channel[k].type = type /\ channel[k].handle = h

ChannelsOK ==
    /\ up \in Seq(Packets)
    /\ down \in Seq(Packets)
    /\ lost \subseteq PacketTypes \X Handles

ChannelsInit == up = <<>> /\ down = <<>> /\ lost = {}
=============================================================================
