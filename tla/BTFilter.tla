------------------------------ MODULE BTFilter ------------------------------
(***************************************************************************)
(* The tweak in BTServer, BTServerFilter.cpp: it looks at the HCI packets  *)
(* that pass through read and write and changes some of them.  BTServer    *)
(* reads a packet in pieces of its own choosing, so the filter puts the    *)
(* pieces together in ctx.context, and a byte of a piece that was handed   *)
(* over already can no longer be changed for certain.                      *)
(*                                                                         *)
(* The filter knows the length of events and of ACL data only.  Any other  *)
(* packet it drops after every piece, and so looks for the beginning of a  *)
(* packet in the middle of that one.  When a later piece of it begins like *)
(* an event or like data, the filter may be out of step from then on; the  *)
(* module follows the reads up to there (strayed).                         *)
(*                                                                         *)
(* BTServer, the radio and the devices are not part of the program.        *)
(* BTServer never reads beyond the end of a packet.  Before the length of  *)
(* a packet and its event code are read, the filter looks at bytes past    *)
(* the end of ctx.context; they are an arbitrary choice here.  A write     *)
(* sends a command whole or fails; commands have the length the filters    *)
(* expect, as those of another length pass unchanged.                      *)
(***************************************************************************)
EXTENDS Integers

CONSTANTS
    Devices,    \* Bluetooth devices
    Wii,        \* those named like a Wii Remote
    Chunks      \* the sizes of the pieces BTServer reads

ASSUME BTFilterAssumption ==
    /\ Wii \subseteq Devices
    /\ Chunks \subseteq Nat \ {0}

VARIABLES
    packet,       \* the packet BTServer reads, or has just read
    position,     \* its bytes BTServer has, 0 for all of them
    minor,        \* byte 12 of it as BTServer has it
    context,      \* ctx.context.size()
    watching,     \* ReadFilters[0x0E] is set
    localAddress, \* localAddress was captured
    deviceNames,  \* what find gives: "absent" is deviceNames.end()
    sent,         \* what the radio got of the last command
    failed,       \* a filter wrote it, and that write failed
    strayed,      \* a piece inside a packet was taken for a beginning
    whole,        \* history: the first 16 bytes came in one piece
    named,        \* history: the names BTServer was told
    addressTold   \* history: BTServer was told the local address

filterVars == <<context, watching, localAddress, deviceNames>>
readVars == <<packet, position, minor, filterVars, strayed, whole, named, addressTold>>
vars == <<readVars, sent, failed>>

Names == {"absent", "wii", "other", "empty"}

NameOf(d) == IF d \in Wii THEN "wii" ELSE "other"

\* An inquiry result of one or two responses, or an extended one, which always
\* is one response; their first 18 bytes are alike.
Inquiries ==
    [kind : {"inquiry"}, peripheral : BOOLEAN, count : {1}, len : {18, 258}]
    \cup [kind : {"inquiry"}, peripheral : BOOLEAN, count : {2}, len : {32}]

\* A request that failed has no name in it.
NameEvents ==
    UNION {[kind : {"name"}, device : {d}, name : {"empty", NameOf(d)},
            len : {258}] : d \in Devices}

\* The completion of Read Local Address and of other commands.
Completions == [kind : {"complete"}, address : BOOLEAN, len : {13}]

\* An event without a filter, ACL data, and a packet that is neither an event
\* nor ACL data.
Unfiltered == [kind : {"event", "data", "other"}, len : {9}]

HCIPackets == Inquiries \cup NameEvents \cup Completions \cup Unfiltered

Init ==
    /\ packet \in Unfiltered
    /\ position = 0
    /\ minor = "device"
    /\ context = 0
    /\ watching = TRUE
    /\ localAddress = FALSE
    /\ deviceNames = [d \in Devices |-> "absent"]
    /\ sent = "nothing"
    /\ failed = FALSE
    /\ strayed = FALSE
    /\ whole = FALSE
    /\ named = [d \in Devices |-> "absent"]
    /\ addressTold = FALSE

-----------------------------------------------------------------------------
\* Seeded fault: the three bytes before the payload are not counted.
PktSizes_Payload(size) ==
    IF packet'.kind = "other" THEN {0}
    ELSE IF packet'.kind = "data" THEN IF size < 5 THEN {5, 65540} ELSE {packet'.len}
    ELSE IF size < 3 THEN 3..258 ELSE {packet'.len - 3}

\* pktSize: 0 unless the first byte is that of an event or of data.  As long as
\* its bytes are not read yet it is that of an event of any length, or that of
\* the least or of the greatest amount of data.
PktSizes(size) ==
    IF packet'.kind = "other" THEN {0}
    ELSE IF packet'.kind = "data" THEN IF size < 5 THEN {5, 65540} ELSE {packet'.len}
    ELSE IF size < 3 THEN 3..258 ELSE {packet'.len}

\* What the filter takes a packet for; the first byte says if it is an event,
\* and the second one which.
EventKinds(size) ==
    IF size < 2 /\ packet'.kind \notin {"data", "other"}
    THEN {"inquiry", "name", "complete", "event"} ELSE {packet'.kind}

\* Seeded fault: the class of the device is not looked at.
FilterInquiryResultEventGeneral_AnyClass(size) ==
    IF size < 16 \/ packet'.count # 1 THEN minor' = "device"
    ELSE minor' = "keyboard"

\* Byte 12 is patched in place when this piece holds it.  Otherwise the write
\* goes before the piece, which is where byte 12 is only if BTServer reads the
\* pieces of a packet into one buffer.
FilterInquiryResultEventGeneral(size) ==
    IF size < 16 \/ packet'.count # 1 \/ ~packet'.peripheral
    THEN minor' = IF position = 0 THEN "device" ELSE minor
    ELSE IF context <= 12 THEN minor' = "keyboard"
    ELSE minor' \in {minor, "keyboard"}

\* The status in the event is not looked at.
FilterRemoteNameRequestCompleteEvent(size) ==
    deviceNames' = IF size < 255 THEN deviceNames
                   ELSE [deviceNames EXCEPT ![packet'.device] = packet'.name]

\* Seeded fault: the first completion of any command ends the watch.
FilterCommandCompleteEvent_First(size) ==
    IF size < 13 THEN UNCHANGED <<watching, localAddress>>
    ELSE watching' = FALSE /\ localAddress' = packet'.address

FilterCommandCompleteEvent(size) ==
    IF size < 13 \/ ~packet'.address THEN UNCHANGED <<watching, localAddress>>
    ELSE watching' = FALSE /\ localAddress' = TRUE

\* The filter that is called, and what the others leave alone.
Filter(event, size) ==
    /\ IF event = "inquiry" THEN FilterInquiryResultEventGeneral(size)
       ELSE minor' = IF position = 0 THEN "device" ELSE minor
    /\ IF event = "name" THEN FilterRemoteNameRequestCompleteEvent(size)
       ELSE UNCHANGED deviceNames
    /\ IF event = "complete" /\ watching THEN FilterCommandCompleteEvent(size)
       ELSE UNCHANGED <<watching, localAddress>>

\* The read hook for a piece of n bytes, of a new packet or of the last one.  A
\* later piece of a packet that is dropped piece by piece may begin with any
\* byte; what the filter makes of it when it strays is not modelled.
Read(n) ==
    LET size == context + n IN
    /\ ~strayed
    /\ IF position = 0 THEN packet' \in HCIPackets ELSE UNCHANGED packet
    /\ position + n <= packet'.len
    /\ position' = IF position + n = packet'.len THEN 0 ELSE position + n
    /\ strayed' \in IF position # 0 /\ packet.kind = "other" THEN BOOLEAN ELSE {FALSE}
    /\ \E event \in EventKinds(size) : Filter(event, size)
    /\ \E pktSize \in PktSizes(size) :
          context' = IF size >= pktSize THEN 0 ELSE size
    /\ whole' = IF position = 0 THEN n >= 16 ELSE whole
    /\ named' = IF position' = 0 /\ packet'.kind = "name"
                THEN [named EXCEPT ![packet'.device] = packet'.name] ELSE named
    /\ addressTold' = (addressTold \/ (/\ position' = 0
                                       /\ packet'.kind = "complete"
                                       /\ packet'.address))
    /\ UNCHANGED <<sent, failed>>

\* The write hook, with what the filter writes itself: one command or, when it
\* returns 0, none.  After a failed write of the filter's the hook goes on as if
\* there were no filter, and its own write may fail as well.
WriteHook(own, original) ==
    /\ \/ sent' \in own /\ failed' = FALSE
       \/ sent' \in {original, "nothing"} /\ failed' = (own # {})
    /\ UNCHANGED readVars

\* The role of every accepted connection is master.
FilterAcceptConnectionRequestCommand ==
    WriteHook({"accept as master"}, "accept as asked")

\* BTServer replies with the PIN the user entered; a device named like a Wii
\* Remote gets the local address, all zeros before it was captured.
FilterPINCodeRequestReplyCommand(d) ==
    WriteHook(IF deviceNames[d] # "wii" THEN {}
              ELSE {IF localAddress THEN "PIN of address" ELSE "PIN of zeros"},
              "PIN as entered")

Next ==
    \/ \E n \in Chunks : Read(n)
    \/ FilterAcceptConnectionRequestCommand
    \/ \E d \in Devices : FilterPINCodeRequestReplyCommand(d)

Spec == Init /\ [][Next]_vars

-----------------------------------------------------------------------------
\* The types, and the framing: until it strays, what the filter holds in
\* ctx.context is exactly what BTServer has of the current event or data packet,
\* and nothing of any other packet, however they are cut into pieces and whatever
\* the bytes are that the filter looks at before they are read.
TypeOK ==
    /\ packet \in HCIPackets
    /\ position \in 0..257
    /\ minor \in {"device", "keyboard"}
    /\ deviceNames \in [Devices -> Names] /\ named \in [Devices -> Names]
    /\ sent \in {"nothing", "accept as master", "accept as asked",
                 "PIN as entered", "PIN of address", "PIN of zeros"}
    /\ failed \in BOOLEAN /\ strayed \in BOOLEAN
    /\ ~strayed => context = IF packet.kind = "other" THEN 0 ELSE position

\* Until the filter strays, BTServer never sees a keyboard where there is none,
\* and sees one for every Peripheral in a response of its own, extended or not,
\* whose first 16 bytes it reads in one piece.
InquiryIsPatched ==
    LET seen == position = 0 /\ packet.kind = "inquiry" IN
    ~strayed =>
        /\ minor = "keyboard" => packet.kind = "inquiry" /\ packet.peripheral
        /\ seen /\ packet.count = 1 /\ packet.peripheral /\ whole =>
              minor = "keyboard"

\* Between two packets, until the filter strays, a PIN reply goes by what BTServer
\* itself was told: no device but one whose last name was a Wii Remote's gets
\* another PIN than the one that was entered, and that one gets the local address
\* as soon as BTServer knows it, unless the write of that very command failed:
\* then the hook sends the PIN that was entered.
PinFollowsName ==
    [][\A d \in Devices :
          ~strayed /\ position = 0 /\ FilterPINCodeRequestReplyCommand(d) =>
              /\ named[d] # "wii" => sent' \in {"PIN as entered", "nothing"}
              /\ named[d] = "wii" /\ addressTold =>
                    sent' = "PIN of address" \/ failed']_vars

\* README.md, Technical: an inquiry result "which define a device whose Class of
\* Device major field is Peripheral will have its minor filed set to keyboard".
PeripheralsBecomeKeyboards ==
    position = 0 /\ packet.kind = "inquiry" /\ packet.peripheral =>
        minor = "keyboard"
=============================================================================
