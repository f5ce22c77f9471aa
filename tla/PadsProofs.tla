----------------------------- MODULE PadsProofs ------------------------------
(***************************************************************************)
(* Theorems about Pads: for any number of pads of the three kinds, any set *)
(* of player indices and any number of presses, the drivers are type       *)
(* correct, the lights show the players and no pause is made up.           *)
(***************************************************************************)
EXTENDS Pads, TLAPS

USE PadsAssumption DEF PadsAssumption

(***************************************************************************)
(* Neither LightShowsPlayer nor the light's type is inductive: SetReport   *)
(* looks at the driver's index only, so that index has to be the stored    *)
(* form of the one the application gave, from the constructor on.          *)
(***************************************************************************)
IndexIsStored ==
    \A p \in Pads : device[p].on => driver[p].index = Stored(p, wanted[p])

\* A press that is not reported yet counts as much as a pause that was sent.
Unreported(p) == IF device[p].button /\ ~driver[p].pauseHeld THEN 1 ELSE 0

PausesAreDue == \A p \in Pads : pauses[p] + Unreported(p) <= presses[p]

PadsInv == TypeOK /\ IndexIsStored /\ LightShowsPlayer /\ PausesAreDue

Drivers == [index : -1..255, needSetReport : BOOLEAN, pauseHeld : BOOLEAN]
Devices == [on : BOOLEAN, light : Lights, full : BOOLEAN, owes : BOOLEAN,
            button : BOOLEAN]

\* What one pad contributes to PadsInv.
PadInv(p) ==
    /\ driver[p] \in Drivers /\ device[p] \in Devices
    /\ wanted[p] \in Indices
    /\ presses[p] \in 0..MaxPresses /\ pauses[p] \in Nat
    /\ ~device[p].on => device[p] = Off /\ ~driver[p].needSetReport
    /\ device[p].on => driver[p].index = Stored(p, wanted[p])
    /\ device[p].on /\ ~driver[p].needSetReport =>
          /\ wanted[p] \in 0..3 => device[p].light = wanted[p]
          /\ kind[p] = "Playstation3" /\ wanted[p] \notin 0..3 =>
                device[p].light = None
    /\ pauses[p] + Unreported(p) <= presses[p]

\* PadsInv, pad by pad.
LEMMA PadByPad ==
    PadsInv <=> /\ kind \in [Pads -> Kinds] /\ colour \in Lights
                /\ driver = [p \in Pads |-> driver[p]]
                /\ device = [p \in Pads |-> device[p]]
                /\ wanted = [p \in Pads |-> wanted[p]]
                /\ presses = [p \in Pads |-> presses[p]]
                /\ pauses = [p \in Pads |-> pauses[p]]
                /\ \A p \in Pads : PadInv(p)
BY DEF PadsInv, TypeOK, IndexIsStored, LightShowsPlayer, PausesAreDue, PadInv,
       Drivers, Devices

\* Assignments to the fields of a driver give a driver.
LEMMA IndexAssigned ==
    ASSUME driver \in [Pads -> Drivers], NEW p \in Pads,
           NEW x \in -1..255,
           driver' = [driver EXCEPT ![p].index = x, ![p].needSetReport = TRUE]
    PROVE  \E drv \in Drivers :
              /\ drv.index = x /\ drv.needSetReport
              /\ drv.pauseHeld = driver[p].pauseHeld
              /\ driver' = [driver EXCEPT ![p] = drv]
<1>1. PICK d : d = [driver[p] EXCEPT !.index = x, !.needSetReport = TRUE]
  OBVIOUS
<1>2. /\ d \in Drivers
      /\ d.index = x /\ d.needSetReport
      /\ d.pauseHeld = driver[p].pauseHeld
  BY <1>1, ZenonT(60) DEF Drivers
<1>3. driver' = [driver EXCEPT ![p] = d]
  BY <1>1, ZenonT(60)
<1> QED BY <1>2, <1>3

\* The same for a report that was sent.
LEMMA ReportSent ==
    ASSUME driver \in [Pads -> Drivers], NEW p \in Pads,
           driver' = [driver EXCEPT ![p].needSetReport = FALSE]
    PROVE  \E drv \in Drivers :
              /\ drv.index = driver[p].index /\ ~drv.needSetReport
              /\ drv.pauseHeld = driver[p].pauseHeld
              /\ driver' = [driver EXCEPT ![p] = drv]
<1>1. PICK d : d = [driver[p] EXCEPT !.needSetReport = FALSE]
  OBVIOUS
<1>2. /\ d \in Drivers
      /\ d.index = driver[p].index /\ ~d.needSetReport
      /\ d.pauseHeld = driver[p].pauseHeld
  BY <1>1, ZenonT(60) DEF Drivers
<1>3. driver' = [driver EXCEPT ![p] = d]
  BY <1>1, ZenonT(60)
<1> QED BY <1>2, <1>3

\* The same for an input report.
LEMMA ButtonSeen ==
    ASSUME driver \in [Pads -> Drivers], NEW p \in Pads, NEW b \in BOOLEAN,
           driver' = [driver EXCEPT ![p].needSetReport = FALSE, ![p].pauseHeld = b]
    PROVE  \E drv \in Drivers :
              /\ drv.index = driver[p].index /\ ~drv.needSetReport
              /\ drv.pauseHeld = b
              /\ driver' = [driver EXCEPT ![p] = drv]
<1>1. PICK d : d = [driver[p] EXCEPT !.needSetReport = FALSE, !.pauseHeld = b]
  OBVIOUS
<1>2. /\ d \in Drivers
      /\ d.index = driver[p].index /\ d.needSetReport = FALSE
      /\ d.pauseHeld = b
  BY <1>1, ZenonT(60) DEF Drivers
<1>3. driver' = [driver EXCEPT ![p] = d]
  BY <1>1, ZenonT(60)
<1> QED BY <1>2, <1>3

\* An index is stored as a light or as a byte, and a player as itself.
LEMMA StoredFacts ==
    ASSUME NEW p \in Pads, kind[p] \in Kinds, NEW i \in Indices
    PROVE  /\ Stored(p, i) \in -1..255
           /\ i \in 0..3 => Stored(p, i) = i
           /\ kind[p] = "Playstation3" =>
                 /\ Stored(p, i) \in Lights
                 /\ i \notin 0..3 => Stored(p, i) = None
<1>1. i \in Int
  OBVIOUS
<1>2. i % 256 \in 0..255 /\ (i \in 0..3 => i % 256 = i)
  BY <1>1
<1> QED BY <1>1, <1>2 DEF Stored, Lights, None

\* A step of one pad keeps the others, when it keeps their variables.
LEMMA OnePad ==
    ASSUME PadsInv, NEW p \in Pads, UNCHANGED kind,
           colour' \in Lights,
           NEW drv, driver' = [driver EXCEPT ![p] = drv],
           NEW dev, device' = [device EXCEPT ![p] = dev],
           NEW w, wanted' = [wanted EXCEPT ![p] = w],
           NEW n, presses' = [presses EXCEPT ![p] = n],
           NEW m, pauses' = [pauses EXCEPT ![p] = m],
           PadInv(p)'
    PROVE  PadsInv'
<1>1. \A q \in Pads : q # p => (PadInv(q) => PadInv(q)')
  BY DEF PadsInv, TypeOK, PadInv, Unreported, Stored
<1>2. /\ driver' \in [Pads -> Drivers] /\ device' \in [Pads -> Devices]
      /\ wanted' \in [Pads -> Indices] /\ presses' \in [Pads -> 0..MaxPresses]
      /\ pauses' \in [Pads -> Nat]
  BY DEF PadInv, PadsInv, TypeOK, Drivers, Devices
<1>3. \A q \in Pads : PadInv(q)'
  BY <1>1, PadByPad
<1> QED BY <1>2, <1>3 DEF PadsInv, TypeOK, IndexIsStored, LightShowsPlayer,
        PausesAreDue, PadInv, Drivers, Devices

-----------------------------------------------------------------------------
(* The steps. *)

\* The variables are functions on Pads, so that a step of one pad is an EXCEPT.
LEMMA Kept ==
    ASSUME PadsInv, NEW p \in Pads
    PROVE  /\ driver = [driver EXCEPT ![p] = driver[p]]
           /\ device = [device EXCEPT ![p] = device[p]]
           /\ wanted = [wanted EXCEPT ![p] = wanted[p]]
           /\ presses = [presses EXCEPT ![p] = presses[p]]
           /\ pauses = [pauses EXCEPT ![p] = pauses[p]]
           /\ driver \in [Pads -> Drivers] /\ device \in [Pads -> Devices]
           /\ kind[p] \in Kinds /\ colour \in Lights /\ PadInv(p)
  BY PadByPad DEF PadsInv, TypeOK, Drivers, Devices

\* A new driver has a report to send and takes the button for held.
LEMMA ConnectKeeps ==
    ASSUME PadsInv, NEW p \in Pads, Connect(p) PROVE PadsInv'
<1>1. PICK held \in BOOLEAN :
         device' = [device EXCEPT ![p] =
              [on |-> TRUE, light |-> None, full |-> kind[p] # "WiiUPro",
               owes |-> kind[p] = "WiiUPro", button |-> held]]
  BY DEF Connect
<1>2. Stored(p, -1) \in -1..255
  BY StoredFacts, Kept
<1>3. /\ driver'[p] = NewDriver(p) /\ driver'[p] \in Drivers
      /\ device'[p] \in Devices /\ device'[p].on
      /\ wanted'[p] = -1 /\ presses'[p] = 0 /\ pauses'[p] = 0
  BY <1>1, <1>2, Kept DEF Connect, NewDriver, Drivers, Devices, Lights, PadsInv, TypeOK
<1>4. /\ driver'[p].index = Stored(p, -1) /\ driver'[p].needSetReport
      /\ driver'[p].pauseHeld
  BY <1>3 DEF NewDriver
<1>5. UNCHANGED kind /\ Stored(p, -1)' = Stored(p, -1)
  BY DEF Connect, Stored
<1>6. PadInv(p)'
  <2>1. Unreported(p)' = 0
    BY <1>4 DEF Unreported
  <2>2. Stored(p, wanted[p])' = Stored(p, -1)
    BY <1>3, <1>5 DEF Stored
  <2> QED BY <1>3, <1>4, <2>1, <2>2 DEF PadInv
<1> QED BY <1>1, <1>6, OnePad, Kept DEF Connect

\* A pad that is off has nothing to show and nothing to send.
LEMMA DisconnectKeeps ==
    ASSUME PadsInv, NEW p \in Pads, Disconnect(p) PROVE PadsInv'
<1>1. /\ driver'[p] = NoDriver /\ device'[p] = Off
      /\ wanted'[p] = -1 /\ presses'[p] = 0 /\ pauses'[p] = 0
  BY DEF Disconnect, PadsInv, TypeOK
<1>2. NoDriver \in Drivers /\ Off \in Devices
  BY DEF NoDriver, Off, Drivers, Devices, Lights
<1>3. PadInv(p)'
  BY <1>1, <1>2 DEF PadInv, Unreported, NoDriver, Off
<1> QED BY <1>3, OnePad, Kept DEF Disconnect

\* A new index is stored and will be sent.
LEMMA SetPlayerIndexKeeps ==
    ASSUME PadsInv, NEW p \in Pads, NEW i \in Indices, SetPlayerIndex(p, i)
    PROVE  PadsInv'
<1>1. Stored(p, i) \in -1..255
  BY StoredFacts, Kept
<1>2. PICK drv \in Drivers :
         /\ drv.index = Stored(p, i) /\ drv.needSetReport
         /\ drv.pauseHeld = driver[p].pauseHeld
         /\ driver' = [driver EXCEPT ![p] = drv]
  <2>1. PICK x \in -1..255 : x = Stored(p, i)
    BY <1>1
  <2>2. driver' = [driver EXCEPT ![p].index = x, ![p].needSetReport = TRUE]
    BY <2>1 DEF SetPlayerIndex
  <2>3. driver \in [Pads -> Drivers]
    BY Kept
  <2>4. \E drv \in Drivers :
           /\ drv.index = x /\ drv.needSetReport
           /\ drv.pauseHeld = driver[p].pauseHeld
           /\ driver' = [driver EXCEPT ![p] = drv]
    BY <2>2, <2>3, IndexAssigned, ZenonT(60)
  <2> QED BY <2>1, <2>4
<1>3. driver'[p] = drv
  BY <1>2, Kept
<1>4. /\ wanted'[p] = i /\ device'[p] = device[p] /\ device[p].on
      /\ presses'[p] = presses[p] /\ pauses'[p] = pauses[p]
  BY DEF SetPlayerIndex, PadsInv, TypeOK
<1>5. PadInv(p)'
  BY <1>2, <1>3, <1>4, Kept DEF PadInv, Unreported, Stored, SetPlayerIndex
<1> QED BY <1>2, <1>5, OnePad, Kept, ZenonT(60) DEF SetPlayerIndex

\* After the head of HandlePacket the pad shows its player: either the report
\* just went out, or it did before and the pad was left alone since.
LEMMA FlushFacts ==
    ASSUME PadsInv, NEW p \in Pads, device[p].on, NEW owes \in BOOLEAN,
           Flush(p, owes)
    PROVE  \E dev \in Devices :
              /\ device' = [device EXCEPT ![p] = dev]
              /\ colour' \in Lights
              /\ dev.on /\ dev.button = device[p].button
              /\ wanted[p] \in 0..3 => dev.light = wanted[p]
              /\ kind[p] = "Playstation3" /\ wanted[p] \notin 0..3 =>
                    dev.light = None
<1>1. /\ PadInv(p) /\ kind[p] \in Kinds /\ colour \in Lights
      /\ device \in [Pads -> Devices]
  BY Kept
<1>2. /\ driver[p].index = Stored(p, wanted[p]) /\ wanted[p] \in Indices
      /\ device[p] \in Devices
  BY <1>1 DEF PadInv
<1>3. /\ driver[p].index \in -1..255
      /\ wanted[p] \in 0..3 => driver[p].index = wanted[p]
      /\ kind[p] = "Playstation3" =>
            /\ driver[p].index \in Lights
            /\ wanted[p] \notin 0..3 => driver[p].index = None
  <2>1. PICK i \in Indices : i = wanted[p]
    BY <1>2
  <2>2. driver[p].index = Stored(p, i)
    BY <1>2, <2>1
  <2> QED BY <1>1, <2>1, <2>2, StoredFacts
<1>4. CASE driver[p].needSetReport
  <2>1. ColourAfter(p) \in Lights /\ LightAfter(p) \in Lights
    BY <1>1, <1>2, <1>3 DEF ColourAfter, LightAfter, Lights, Devices
  <2>2. PICK dev : dev = [device[p] EXCEPT !.light = LightAfter(p), !.full = TRUE,
                                           !.owes = owes]
    OBVIOUS
  <2>3. /\ dev \in Devices /\ dev.on /\ dev.button = device[p].button
        /\ dev.light = LightAfter(p)
    BY <1>2, <2>1, <2>2 DEF Devices
  <2>4. device' = [device EXCEPT ![p] = dev] /\ colour' \in Lights
    BY <1>1, <1>4, <2>1, <2>2 DEF Flush
  <2>5. /\ wanted[p] \in 0..3 => LightAfter(p) = wanted[p]
        /\ kind[p] = "Playstation3" /\ wanted[p] \notin 0..3 => LightAfter(p) = None
    BY <1>1, <1>3 DEF LightAfter, ColourAfter, Kinds
  <2> QED BY <2>3, <2>4, <2>5
<1>5. CASE ~driver[p].needSetReport
  <2>1. PICK dev : dev = [device[p] EXCEPT !.owes = owes]
    OBVIOUS
  <2>2. /\ dev \in Devices /\ dev.on /\ dev.button = device[p].button
        /\ dev.light = device[p].light
    BY <1>2, <2>1 DEF Devices
  <2>3. device' = [device EXCEPT ![p] = dev] /\ colour' \in Lights
    BY <1>1, <1>5, <2>1 DEF Flush
  <2> QED BY <1>1, <1>5, <2>2, <2>3 DEF PadInv
<1> QED BY <1>4, <1>5

\* A report that is no input report sends what was pending.
LEMMA OtherReportKeeps ==
    ASSUME PadsInv, NEW p \in Pads, OtherReport(p) PROVE PadsInv'
<1>1. PICK dev \in Devices :
         /\ device' = [device EXCEPT ![p] = dev] /\ colour' \in Lights
         /\ dev.on /\ dev.button = device[p].button
         /\ wanted[p] \in 0..3 => dev.light = wanted[p]
         /\ kind[p] = "Playstation3" /\ wanted[p] \notin 0..3 => dev.light = None
  BY FlushFacts DEF OtherReport
<1>2. PICK drv \in Drivers :
         /\ drv.index = driver[p].index /\ ~drv.needSetReport
         /\ drv.pauseHeld = driver[p].pauseHeld
         /\ driver' = [driver EXCEPT ![p] = drv]
  BY Kept, ReportSent DEF OtherReport
<1>3. driver'[p] = drv /\ device'[p] = dev
  BY <1>1, <1>2, Kept
<1>4. /\ UNCHANGED <<kind, wanted, presses, pauses>> /\ device[p].on
  BY DEF OtherReport
<1>5. PadInv(p)'
  BY <1>1, <1>2, <1>3, <1>4, Kept DEF PadInv, Unreported, Stored
<1> QED BY <1>1, <1>2, <1>4, <1>5, OnePad, Kept

\* An input report sends a pause for a press that was not reported yet.
LEMMA InputReportKeeps ==
    ASSUME PadsInv, NEW p \in Pads, InputReport(p) PROVE PadsInv'
<1>0. device[p].owes \in BOOLEAN /\ device[p].button \in BOOLEAN
  BY Kept DEF Devices
<1>1. PICK dev \in Devices :
         /\ device' = [device EXCEPT ![p] = dev] /\ colour' \in Lights
         /\ dev.on /\ dev.button = device[p].button
         /\ wanted[p] \in 0..3 => dev.light = wanted[p]
         /\ kind[p] = "Playstation3" /\ wanted[p] \notin 0..3 => dev.light = None
  BY <1>0, FlushFacts DEF InputReport
<1>2. PICK drv \in Drivers :
         /\ drv.index = driver[p].index /\ ~drv.needSetReport
         /\ drv.pauseHeld = device[p].button
         /\ driver' = [driver EXCEPT ![p] = drv]
  <2>1. PICK b \in BOOLEAN : b = device[p].button
    BY <1>0
  <2>2. driver' = [driver EXCEPT ![p].needSetReport = FALSE, ![p].pauseHeld = b]
    BY <2>1 DEF InputReport
  <2>3. driver \in [Pads -> Drivers]
    BY Kept
  <2>4. \E drv \in Drivers :
           /\ drv.index = driver[p].index /\ ~drv.needSetReport
           /\ drv.pauseHeld = b
           /\ driver' = [driver EXCEPT ![p] = drv]
    BY <2>2, <2>3, ButtonSeen
  <2> QED BY <2>1, <2>4
<1>3. driver'[p] = drv /\ device'[p] = dev
  BY <1>1, <1>2, Kept
<1>4. /\ UNCHANGED <<kind, wanted, presses>> /\ device[p].on
      /\ pauses'[p] = pauses[p] + Unreported(p)
      /\ pauses' = [pauses EXCEPT ![p] = pauses[p] + Unreported(p)]
      /\ Unreported(p) \in Nat /\ Unreported(p)' = 0
  <2>1. Unreported(p)' = 0
    BY <1>1, <1>2, <1>3 DEF Unreported
  <2>2. /\ pauses \in [Pads -> Nat] /\ Unreported(p) \in Nat
        /\ pauses[p] + 0 = pauses[p]
    BY DEF PadsInv, TypeOK, Unreported
  <2>3. pauses' = [pauses EXCEPT ![p] = pauses[p] + Unreported(p)]
    BY <2>2, Kept DEF InputReport, Unreported
  <2> QED BY <2>1, <2>2, <2>3 DEF InputReport
<1>5. PadInv(p)'
  BY <1>1, <1>2, <1>3, <1>4, Kept DEF PadInv, Stored
<1> QED BY <1>1, <1>2, <1>4, <1>5, OnePad, Kept

\* A press is one more to report; a release takes none back.
LEMMA ButtonKeeps ==
    ASSUME PadsInv, NEW p \in Pads, Press(p) \/ Release(p) PROVE PadsInv'
<1>1. PICK b, dev :
         /\ b \in BOOLEAN /\ dev = [device[p] EXCEPT !.button = b]
         /\ device' = [device EXCEPT ![p] = dev]
         /\ \/ b /\ ~device[p].button /\ presses[p] < MaxPresses
               /\ presses' = [presses EXCEPT ![p] = presses[p] + 1]
            \/ ~b /\ presses' = presses
  BY DEF Press, Release
<1>2. /\ UNCHANGED <<kind, driver, colour, wanted, pauses>> /\ device[p].on
  BY DEF Press, Release
<1>3. /\ dev \in Devices /\ dev.on /\ dev.light = device[p].light
      /\ dev.button = b /\ device'[p] = dev
  BY <1>1, <1>2, Kept DEF Devices
<1>4. \/ b /\ ~device[p].button /\ presses[p] < MaxPresses
         /\ presses'[p] = presses[p] + 1
      \/ ~b /\ presses'[p] = presses[p]
  BY <1>1 DEF PadsInv, TypeOK
<1>5. PadInv(p)'
  BY <1>2, <1>3, <1>4, Kept DEF PadInv, Unreported, Stored
<1>6. presses' = [presses EXCEPT ![p] = presses'[p]]
  BY <1>1, <1>4, Kept
<1> QED BY <1>1, <1>2, <1>3, <1>5, <1>6, OnePad, Kept

\* Every step keeps the inductive invariant.
LEMMA NextPadsInv == PadsInv /\ [Next]_vars => PadsInv'
<1> SUFFICES ASSUME PadsInv, [Next]_vars PROVE PadsInv'
  OBVIOUS
<1>1. CASE UNCHANGED vars
  BY <1>1 DEF vars, PadsInv, TypeOK, IndexIsStored, Stored, LightShowsPlayer,
     PausesAreDue, Unreported
<1> QED
  BY <1>1, ConnectKeeps, DisconnectKeeps, SetPlayerIndexKeeps, OtherReportKeeps,
     InputReportKeeps, ButtonKeeps DEF Next

\* At first no pad has a player or a pause button held.
LEMMA InitPadsInv == Init => PadsInv
<1> SUFFICES ASSUME Init PROVE PadsInv
  OBVIOUS
<1>1. NoDriver \in Drivers /\ Off \in Devices /\ None \in Lights
  BY DEF NoDriver, Off, Drivers, Devices, Lights
<1> QED BY <1>1 DEF Init, PadsInv, TypeOK, IndexIsStored, LightShowsPlayer,
        PausesAreDue, Unreported, NoDriver, Off, Drivers, Devices

\* The inductive invariant holds in every reachable state.
LEMMA PadsInvariance == Spec => []PadsInv
BY InitPadsInv, NextPadsInv, PTL DEF Spec

\* Every driver keeps an index that fits its type, and a pad that is off has
\* nothing pending.
THEOREM PadsTypeCorrect == Spec => []TypeOK
BY PadsInvariance, PTL DEF PadsInv

\* A driver with nothing left to send has its pad show the right player: for
\* any number of pads that share the static buffer, and whether or not the index
\* fits in a uint8_t.
THEOREM LightIsRight == Spec => []LightShowsPlayer
BY PadsInvariance, PTL DEF PadsInv

\* A connection never sends more pauses than the button was pressed, however
\* often it is pressed between two reports.
THEOREM PausesAreEarned == Spec => []PauseNeedsPress
<1>1. PadsInv => PauseNeedsPress
  <2> SUFFICES ASSUME PadsInv, NEW p \in Pads PROVE pauses[p] <= presses[p]
    BY DEF PauseNeedsPress
  <2>1. /\ pauses[p] \in Nat /\ presses[p] \in Nat /\ Unreported(p) \in Nat
        /\ pauses[p] + Unreported(p) <= presses[p]
    BY DEF PadsInv, TypeOK, PausesAreDue, Unreported
  <2> QED BY <2>1
<1> QED BY <1>1, PadsInvariance, PTL
=============================================================================
