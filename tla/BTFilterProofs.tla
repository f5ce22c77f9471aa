--------------------------- MODULE BTFilterProofs ----------------------------
(***************************************************************************)
(* Theorems about BTFilter: for any set of devices and however BTServer    *)
(* cuts the packets into pieces, as long as the filter does not stray: a   *)
(* packet that is neither an event nor data may put it out of step, when   *)
(* it is cut.                                                              *)
(***************************************************************************)
EXTENDS BTFilter, TLAPS

USE BTFilterAssumption DEF BTFilterAssumption

(***************************************************************************)
(* InquiryIsPatched speaks of a packet BTServer has read to its end, and   *)
(* PinFollowsName of the pause between two packets.  In the middle of one: *)
(*                                                                         *)
(* Once a first piece held byte 12 of a single Peripheral response, the    *)
(* response is a keyboard's to its end.                                    *)
(***************************************************************************)
PatchSticks ==
    /\ minor = "keyboard" => packet.kind = "inquiry" /\ packet.peripheral
    /\ whole /\ packet.kind = "inquiry" =>
          (packet.count = 1 /\ packet.peripheral => minor = "keyboard")

\* The filter learns a name some bytes before BTServer has all of it.
NameRuns(d) == position >= 255 /\ packet.kind = "name" /\ packet.device = d

NamesAgree ==
    \A d \in Devices :
        deviceNames[d] = IF NameRuns(d) THEN packet.name ELSE named[d]

\* The watch ends with the address, not before.
AddressKnown ==
    /\ watching \in BOOLEAN /\ localAddress \in BOOLEAN /\ addressTold \in BOOLEAN
    /\ ~watching => localAddress
    /\ addressTold => localAddress

FilterInv == TypeOK /\ PatchSticks /\ NamesAgree /\ AddressKnown

\* What a packet is, by its kind.
LEMMA PacketKinds ==
    ASSUME NEW pk \in HCIPackets
    PROVE  /\ pk.kind \in {"inquiry", "name", "complete", "event", "data", "other"}
           /\ pk.len \in 9..258
           /\ pk.kind = "inquiry" => pk.peripheral \in BOOLEAN /\ pk.count \in {1, 2}
           /\ pk.kind = "inquiry" => pk.len \in {18, 32, 258}
           /\ pk.kind = "name" => /\ pk.device \in Devices /\ pk.name \in Names
                                  /\ pk.len = 258
           /\ pk.kind = "complete" => pk.address \in BOOLEAN /\ pk.len = 13
           /\ pk.kind \in {"event", "data", "other"} => pk.len = 9
<1>1. CASE pk \in Inquiries
  BY <1>1 DEF Inquiries
<1>2. CASE pk \in NameEvents
  <2>1. PICK d \in Devices : pk \in [kind : {"name"}, device : {d},
                                    name : {"empty", NameOf(d)}, len : {258}]
    BY <1>2 DEF NameEvents
  <2>2. NameOf(d) \in Names /\ "empty" \in Names
    BY DEF NameOf, Names
  <2> QED BY <2>1, <2>2
<1>3. CASE pk \in Completions
  BY <1>3 DEF Completions
<1>4. CASE pk \in Unfiltered
  BY <1>4 DEF Unfiltered
<1> QED BY <1>1, <1>2, <1>3, <1>4 DEF HCIPackets

\* One piece: the filter's framing is BTServer's for events and data, and from the
\* second byte on it takes the packet for what it is.
LEMMA ReadFraming ==
    ASSUME FilterInv, NEW n \in Chunks, Read(n)
    PROVE  /\ n \in Nat \ {0} /\ position \in 0..257 /\ strayed' \in BOOLEAN
           /\ packet' \in HCIPackets
           /\ position # 0 => packet' = packet
           /\ position + n <= packet'.len
           /\ position' = IF position + n = packet'.len THEN 0 ELSE position + n
           /\ position' \in 0..257
           /\ context' = IF packet'.kind = "other" THEN 0 ELSE position'
           /\ \E event, size :
                 /\ Filter(event, size)
                 /\ packet'.kind # "other" => size = position + n
                 /\ packet'.kind = "other" => event = "other"
                 /\ position + n >= 2 => event = packet'.kind
<1>1. /\ n \in Nat \ {0} /\ position \in 0..257 /\ strayed' \in BOOLEAN
      /\ context = IF packet.kind = "other" THEN 0 ELSE position
      /\ packet' \in HCIPackets /\ (position # 0 => packet' = packet)
  BY DEF Read, FilterInv, TypeOK
<1>2. /\ packet'.kind \in {"inquiry", "name", "complete", "event", "data", "other"}
      /\ packet'.len \in 9..258
  BY <1>1, PacketKinds
<1>3. /\ position + n <= packet'.len
      /\ position' = IF position + n = packet'.len THEN 0 ELSE position + n
  BY DEF Read
<1>4. PICK size : size = context + n
  OBVIOUS
<1>5. PICK pktSize \in PktSizes(size) : context' = IF size >= pktSize THEN 0 ELSE size
  BY <1>4 DEF Read
<1>6. PICK event \in EventKinds(size) : Filter(event, size)
  BY <1>4 DEF Read
<1>7. packet'.kind # "other" => context = position
  BY <1>1
<1>8. context' = IF packet'.kind = "other" THEN 0 ELSE position'
  <2>0. size \in Nat \ {0}
    BY <1>1, <1>4
  <2>1. CASE packet'.kind = "other"
    BY <2>0, <1>5, <2>1 DEF PktSizes
  <2>2. CASE packet'.kind = "data" /\ size < 5
    <3>1. pktSize \in {5, 65540}
      BY <1>5, <2>2 DEF PktSizes
    <3> QED BY <1>1, <1>2, <1>3, <1>4, <1>5, <1>7, <2>2, <3>1
  <2>3. CASE packet'.kind \notin {"data", "other"} /\ size < 3
    <3>1. pktSize \in 3..258
      BY <1>5, <2>3 DEF PktSizes
    <3> QED BY <1>1, <1>2, <1>3, <1>4, <1>5, <1>7, <2>3, <3>1
  <2>4. CASE /\ packet'.kind # "other"
             /\ IF packet'.kind = "data" THEN ~(size < 5) ELSE ~(size < 3)
    <3>1. pktSize = packet'.len
      BY <1>5, <2>4 DEF PktSizes
    <3> QED BY <1>1, <1>2, <1>3, <1>4, <1>5, <1>7, <2>4, <3>1
  <2> QED BY <2>1, <2>2, <2>3, <2>4
<1>9. /\ packet'.kind # "other" => size = position + n
      /\ packet'.kind = "other" => event = "other"
      /\ position + n >= 2 => event = packet'.kind
  <2>1. packet'.kind = "other" => event = "other"
    BY <1>6 DEF EventKinds
  <2>2. packet'.kind # "other" /\ position + n >= 2 => event = packet'.kind
    BY <1>1, <1>4, <1>6, <1>7 DEF EventKinds
  <2> QED BY <1>4, <1>7, <2>1, <2>2
<1>10. position' \in 0..257
  BY <1>1, <1>2, <1>3
<1> QED BY <1>1, <1>3, <1>6, <1>8, <1>9, <1>10

\* The pieces of a response: the first sixteen bytes in one piece are patched in
\* that piece, and later pieces do not undo it.
LEMMA ReadPatches ==
    ASSUME FilterInv, NEW n \in Chunks, Read(n)
    PROVE  minor' \in {"device", "keyboard"} /\ PatchSticks'
<1>1. /\ n \in Nat \ {0} /\ position \in 0..257
      /\ packet' \in HCIPackets /\ (position # 0 => packet' = packet)
      /\ packet'.kind # "other" => context = position
  <2>1. context = IF packet.kind = "other" THEN 0 ELSE position
    BY DEF Read, FilterInv, TypeOK
  <2> QED BY <2>1, ReadFraming
<1>2. PICK event, size : /\ Filter(event, size)
                         /\ packet'.kind # "other" => size = position + n
                         /\ packet'.kind = "other" => event = "other"
                         /\ position + n >= 2 => event = packet'.kind
  BY ReadFraming
<1>3. whole' = IF position = 0 THEN n >= 16 ELSE whole
  BY DEF Read
<1>4. minor \in {"device", "keyboard"} /\ PatchSticks
  BY DEF FilterInv, TypeOK
<1>5. event = "inquiry" => size = position + n /\ packet'.kind # "other"
  BY <1>2
<1>6. CASE event = "inquiry"
  <2>1. FilterInquiryResultEventGeneral(size)
    BY <1>2, <1>6 DEF Filter
  <2>2. CASE size < 16 \/ packet'.count # 1 \/ ~packet'.peripheral
    <3>1. minor' = IF position = 0 THEN "device" ELSE minor
      BY <1>1, <2>1, <2>2 DEF FilterInquiryResultEventGeneral
    <3>2. CASE position = 0
      <4>1. minor' = "device" /\ size = n /\ n \in Nat
        BY <1>1, <1>5, <1>6, <3>1, <3>2
      <4>3. whole' => n >= 16
        BY <1>3, <3>2
      <4>2. whole' => ~(packet'.count = 1 /\ packet'.peripheral)
        BY <2>2, <4>1, <4>3
      <4> QED BY <4>1, <4>2 DEF PatchSticks
    <3>3. CASE position # 0
      BY <1>1, <1>3, <1>4, <3>1, <3>3 DEF PatchSticks
    <3> QED BY <3>2, <3>3
  <2>3. CASE ~(size < 16 \/ packet'.count # 1 \/ ~packet'.peripheral)
    <3>1. /\ minor' \in {minor, "keyboard"}
          /\ position <= 12 => minor' = "keyboard"
          /\ packet'.kind = "inquiry" /\ packet'.peripheral
      BY <1>1, <1>2, <1>5, <1>6, <2>1, <2>3 DEF FilterInquiryResultEventGeneral
    <3> QED BY <1>1, <1>3, <1>4, <3>1 DEF PatchSticks
  <2> QED BY <2>2, <2>3
<1>7. CASE event # "inquiry"
  <2>1. minor' = IF position = 0 THEN "device" ELSE minor
    BY <1>1, <1>2, <1>7 DEF Filter
  <2>2. CASE position = 0
    <3>1. minor' = "device" /\ whole' = (n >= 16)
      BY <1>3, <2>1, <2>2
    <3>2. n >= 16 => packet'.kind # "inquiry"
      BY <1>1, <1>2, <1>7, <2>2
    <3> QED BY <3>1, <3>2 DEF PatchSticks
  <2>3. CASE position # 0
    BY <1>1, <1>3, <1>4, <2>1, <2>3 DEF PatchSticks
  <2> QED BY <2>2, <2>3
<1> QED BY <1>6, <1>7

\* The name in a packet is learned with its 255th byte.
LEMMA ReadNames ==
    ASSUME FilterInv, NEW n \in Chunks, Read(n)
    PROVE  /\ deviceNames' \in [Devices -> Names] /\ named' \in [Devices -> Names]
           /\ NamesAgree'
<1>1. /\ n \in Nat \ {0} /\ position \in 0..257
      /\ packet' \in HCIPackets /\ (position # 0 => packet' = packet)
      /\ position + n <= packet'.len
      /\ position' = IF position + n = packet'.len THEN 0 ELSE position + n
  BY ReadFraming
<1>2. PICK event, size : /\ Filter(event, size)
                         /\ packet'.kind # "other" => size = position + n
                         /\ packet'.kind = "other" => event = "other"
                         /\ position + n >= 2 => event = packet'.kind
  BY ReadFraming
<1>3. named' = IF position' = 0 /\ packet'.kind = "name"
               THEN [named EXCEPT ![packet'.device] = packet'.name] ELSE named
  BY DEF Read
<1>4. /\ deviceNames \in [Devices -> Names] /\ named \in [Devices -> Names]
      /\ NamesAgree
  BY DEF FilterInv, TypeOK
<1>6. /\ packet'.len \in 9..258
      /\ packet'.kind = "name" => /\ packet'.device \in Devices /\ packet'.name \in Names
                                  /\ packet'.len = 258
  BY <1>1, PacketKinds
<1>7. CASE packet'.kind = "name" /\ position + n >= 255
  <2>1. deviceNames' = [deviceNames EXCEPT ![packet'.device] = packet'.name]
    BY <1>1, <1>2, <1>7 DEF Filter, FilterRemoteNameRequestCompleteEvent
  <2>2. \A d \in Devices : d # packet'.device => deviceNames[d] = named[d]
    BY <1>1, <1>4, <1>6, <1>7 DEF NamesAgree, NameRuns
  <2>3. CASE position' = 0
    BY <1>3, <1>4, <1>6, <1>7, <2>1, <2>2, <2>3 DEF NamesAgree, NameRuns
  <2>4. CASE position' # 0
    <3>1. position' >= 255 /\ named' = named
      BY <1>1, <1>3, <1>7, <2>4
    <3> QED BY <1>4, <1>6, <1>7, <2>1, <2>2, <3>1 DEF NamesAgree, NameRuns
  <2> QED BY <2>3, <2>4
<1>8. CASE ~(packet'.kind = "name" /\ position + n >= 255)
  <2>1. deviceNames' = deviceNames
    BY <1>1, <1>2, <1>8 DEF Filter, FilterRemoteNameRequestCompleteEvent
  <2>2. named' = named
    BY <1>1, <1>3, <1>6, <1>8
  <2>3. \A d \in Devices : ~NameRuns(d) /\ ~NameRuns(d)'
    BY <1>1, <1>6, <1>8 DEF NameRuns
  <2> QED BY <1>4, <2>1, <2>2, <2>3 DEF NamesAgree
<1> QED BY <1>7, <1>8

\* The completion that tells BTServer the address tells the filter too, unless
\* the filter knew it already.
LEMMA ReadAddress ==
    ASSUME FilterInv, NEW n \in Chunks, Read(n) PROVE AddressKnown'
<1>1. /\ n \in Nat \ {0} /\ position \in 0..257
      /\ packet' \in HCIPackets
      /\ position' = IF position + n = packet'.len THEN 0 ELSE position + n
  BY ReadFraming
<1>2. PICK event, size : /\ Filter(event, size)
                         /\ packet'.kind # "other" => size = position + n
                         /\ packet'.kind = "other" => event = "other"
                         /\ position + n >= 2 => event = packet'.kind
  BY ReadFraming
<1>3. addressTold' = (addressTold \/ (/\ position' = 0
                                       /\ packet'.kind = "complete"
                                       /\ packet'.address))
  BY DEF Read
<1>4. AddressKnown
  BY DEF FilterInv
<1>5. packet'.kind = "complete" => packet'.len = 13
  BY <1>1, PacketKinds
<1>0. PICK told \in BOOLEAN :
         told <=> position' = 0 /\ packet'.kind = "complete" /\ packet'.address
  OBVIOUS
<1>8. told => /\ position + n = 13 /\ event = "complete" /\ packet'.address
  BY <1>0, <1>1, <1>2, <1>5
<1>9. addressTold' = (addressTold \/ told) /\ told \in BOOLEAN
  BY <1>0, <1>3
<1>6. CASE event = "complete" /\ watching
  <2>1. FilterCommandCompleteEvent(position + n)
    BY <1>2, <1>6 DEF Filter
  <2>2. CASE position + n < 13 \/ ~packet'.address
    <3>1. UNCHANGED <<watching, localAddress>> /\ ~told
      BY <1>1, <1>8, <2>1, <2>2 DEF FilterCommandCompleteEvent
    <3> QED BY <1>4, <1>9, <3>1 DEF AddressKnown
  <2>3. CASE ~(position + n < 13 \/ ~packet'.address)
    <3>1. watching' = FALSE /\ localAddress' = TRUE
      BY <2>1, <2>3 DEF FilterCommandCompleteEvent
    <3> QED BY <1>4, <1>9, <3>1 DEF AddressKnown
  <2> QED BY <2>2, <2>3
<1>7. CASE ~(event = "complete" /\ watching)
  <2>1. UNCHANGED <<watching, localAddress>>
    BY <1>2, <1>7 DEF Filter
  <2>2. told => localAddress
    BY <1>4, <1>7, <1>8 DEF AddressKnown
  <2> QED BY <1>4, <1>9, <2>1, <2>2 DEF AddressKnown
<1> QED BY <1>6, <1>7

\* The commands change nothing the invariant is about.
LEMMA CommandKeeps ==
    ASSUME FilterInv,
           UNCHANGED readVars, failed' \in BOOLEAN,
           sent' \in {"nothing", "accept as master", "accept as asked",
                      "PIN as entered", "PIN of address", "PIN of zeros"}
    PROVE  FilterInv'
BY DEF FilterInv, TypeOK, readVars, filterVars, PatchSticks, NamesAgree, NameRuns,
       AddressKnown

\* Every step keeps the framing, the patch and the names.
LEMMA NextFilterInv == FilterInv /\ [Next]_vars => FilterInv'
<1> SUFFICES ASSUME FilterInv, [Next]_vars PROVE FilterInv'
  OBVIOUS
<1>1. ASSUME NEW n \in Chunks, Read(n) PROVE FilterInv'
  <2>1. /\ packet' \in HCIPackets /\ position' \in 0..257 /\ strayed' \in BOOLEAN
        /\ context' = IF packet'.kind = "other" THEN 0 ELSE position'
    BY <1>1, ReadFraming
  <2>2. UNCHANGED <<sent, failed>>
    BY <1>1 DEF Read
  <2> QED BY <1>1, <2>1, <2>2, ReadPatches, ReadNames, ReadAddress
          DEF FilterInv, TypeOK
<1>2. CASE FilterAcceptConnectionRequestCommand
  BY <1>2, CommandKeeps DEF FilterAcceptConnectionRequestCommand, WriteHook
<1>3. ASSUME NEW d \in Devices, FilterPINCodeRequestReplyCommand(d)
      PROVE  FilterInv'
  BY <1>3, CommandKeeps DEF FilterPINCodeRequestReplyCommand, WriteHook
<1>4. CASE UNCHANGED vars
  BY <1>4, CommandKeeps DEF vars, FilterInv, TypeOK
<1> QED BY <1>1, <1>2, <1>3, <1>4 DEF Next

\* Nothing is read, patched or named at first.
LEMMA InitFilterInv == Init => FilterInv
<1> SUFFICES ASSUME Init PROVE FilterInv
  OBVIOUS
<1>1. packet \in HCIPackets /\ packet.kind \in {"event", "data", "other"}
  BY DEF Init, Unfiltered, HCIPackets
<1>2. TypeOK
  <2>1. [d \in Devices |-> "absent"] \in [Devices -> Names]
    BY DEF Names
  <2>2. position = 0 /\ context = 0 /\ packet \in HCIPackets
    BY <1>1 DEF Init
  <2>3. ~strayed => context = IF packet.kind = "other" THEN 0 ELSE position
    BY <2>2
  <2>4. failed = FALSE /\ strayed = FALSE
    BY DEF Init
  <2>5. /\ minor \in {"device", "keyboard"} /\ sent = "nothing"
        /\ deviceNames \in [Devices -> Names] /\ named \in [Devices -> Names]
    BY <2>1 DEF Init
  <2>6. position \in 0..257
    BY <2>2
  <2> QED BY <2>2, <2>3, <2>4, <2>5, <2>6 DEF TypeOK
<1>3. PatchSticks /\ AddressKnown
  BY <1>1 DEF Init, PatchSticks, AddressKnown
<1>4. NamesAgree
  BY <1>1 DEF Init, NamesAgree, NameRuns
<1> QED BY <1>2, <1>3, <1>4 DEF FilterInv

\* The inductive invariant holds in every reachable state.
LEMMA FilterInvariance == Spec => []FilterInv
BY InitFilterInv, NextFilterInv, PTL DEF Spec

\* Until a piece of a packet that is neither an event nor data is taken for a
\* beginning, the filter's idea of where events and data begin and end is
\* BTServer's, for every way to cut the stream and whatever lies past the bytes
\* read so far.
THEOREM FramingIsRight == Spec => []TypeOK
BY FilterInvariance, PTL DEF FilterInv

\* Until then no device but a Peripheral is made a keyboard, and every single
\* Peripheral response, extended or not, whose first sixteen bytes come in one
\* piece is.
THEOREM InquiriesArePatched == Spec => []InquiryIsPatched
<1>1. FilterInv => InquiryIsPatched
  BY DEF FilterInv, PatchSticks, InquiryIsPatched
<1> QED BY <1>1, FilterInvariance, PTL

\* Between two packets, until then, the PIN goes by the name and the address
\* BTServer knows, or the write of the filter's command has failed.
THEOREM PinIsRight == Spec => PinFollowsName
<1>1. ASSUME FilterInv, [Next]_vars
      PROVE  [\A d \in Devices :
                 ~strayed /\ position = 0 /\ FilterPINCodeRequestReplyCommand(d) =>
                     /\ named[d] # "wii" => sent' \in {"PIN as entered", "nothing"}
                     /\ named[d] = "wii" /\ addressTold =>
                           sent' = "PIN of address" \/ failed']_vars
  <2> SUFFICES ASSUME NEW d \in Devices, position = 0,
                      FilterPINCodeRequestReplyCommand(d)
               PROVE  /\ named[d] # "wii" => sent' \in {"PIN as entered", "nothing"}
                      /\ named[d] = "wii" /\ addressTold =>
                            sent' = "PIN of address" \/ failed'
    OBVIOUS
  <2>1. deviceNames[d] = named[d]
    BY <1>1 DEF FilterInv, NamesAgree, NameRuns
  <2>2. addressTold => localAddress
    BY <1>1 DEF FilterInv, AddressKnown
  <2>3. CASE named[d] # "wii"
    BY <2>1, <2>3 DEF FilterPINCodeRequestReplyCommand, WriteHook
  <2>4. CASE named[d] = "wii" /\ addressTold
    <3>1. WriteHook({"PIN of address"}, "PIN as entered")
      BY <2>1, <2>2, <2>4 DEF FilterPINCodeRequestReplyCommand
    <3> QED BY <2>4, <3>1 DEF WriteHook
  <2>5. CASE named[d] = "wii" /\ ~addressTold
    BY <2>5
  <2> QED BY <2>3, <2>4, <2>5
<1> QED BY <1>1, FilterInvariance, PTL DEF Spec, PinFollowsName
=============================================================================
