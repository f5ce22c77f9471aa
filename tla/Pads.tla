-------------------------------- MODULE Pads --------------------------------
(***************************************************************************)
(* The drivers of the Playstation 3, DualShock 4 and Wii U Pro pads, with  *)
(* the pads they talk to: the light that shows the player, the pause       *)
(* button and the start of the input reports.  All drivers run on the      *)
(* manager thread; none may call a pad back at once, so a player index is  *)
(* kept until the next report of that pad.                                 *)
(*                                                                         *)
(* The output report of the DualShock 4 is built in a static buffer, which *)
(* all pads of that kind share.                                            *)
(***************************************************************************)
EXTENDS Integers

CONSTANTS
    Pads,         \* the pads of the user
    Indices,      \* the player indices the application assigns, as int32_t
    MaxPresses    \* bound: presses of the pause button in one connection

ASSUME PadsAssumption ==
    /\ Indices \subseteq Int /\ -1 \in Indices
    /\ MaxPresses \in Nat

Kinds == {"Playstation3", "DualShock4", "WiiUPro"}

VARIABLES
    kind,      \* the driver HIDPad::Connect chose for each pad
    driver,    \* the HIDPad::Interface of each pad
    colour,    \* DualShock4::SetReport: the colour in the static buffer
    device,    \* the pad itself
    wanted,    \* history: the last index the application gave the pad
    presses,   \* history: presses of the pause button since it connected
    pauses     \* history: PausePressed packets since it connected

vars == <<kind, driver, colour, device, wanted, presses, pauses>>

None == -1

Lights == {None} \cup 0..3

Off == [on |-> FALSE, light |-> None, full |-> FALSE, owes |-> FALSE,
        button |-> FALSE]

NoDriver == [index |-> -1, needSetReport |-> FALSE, pauseHeld |-> TRUE]

\* Seeded fault: the index is kept as the int32_t it came in.
Stored_Whole(p, i) ==
    IF kind[p] = "Playstation3" THEN IF i \in 0..3 THEN i ELSE None ELSE i

\* The uint8_t of the DualShock 4 and Wii U Pro drivers; ledByte of the
\* Playstation 3 driver stands for one of four players or none.
Stored(p, i) ==
    IF kind[p] = "Playstation3" THEN IF i \in 0..3 THEN i ELSE None
    ELSE i % 256

\* Seeded fault: nothing is sent before an index is assigned.
NewDriver_NothingToSend(p) ==
    [index |-> Stored(p, -1), needSetReport |-> FALSE, pauseHeld |-> TRUE]

\* Seeded fault: the button counts as released before the first report.
NewDriver_NotHeld(p) ==
    [index |-> Stored(p, -1), needSetReport |-> TRUE, pauseHeld |-> FALSE]

NewDriver(p) ==
    [index |-> Stored(p, -1), needSetReport |-> TRUE, pauseHeld |-> TRUE]

Init ==
    /\ kind \in [Pads -> Kinds]
    /\ driver = [p \in Pads |-> NoDriver]
    /\ device = [p \in Pads |-> Off]
    /\ colour = None
    /\ wanted = [p \in Pads |-> -1]
    /\ presses = [p \in Pads |-> 0]
    /\ pauses = [p \in Pads |-> 0]

-----------------------------------------------------------------------------
\* The constructors.  Those of the Sony drivers put the pad into its full
\* report mode; that of the Wii U Pro asks for a status report.  The user may
\* hold the pause button, which is how a pad is switched on.
Connect(p) ==
    /\ ~device[p].on
    /\ driver' = [driver EXCEPT ![p] = NewDriver(p)]
    /\ \E held \in BOOLEAN :
          device' = [device EXCEPT ![p] =
              [on |-> TRUE, light |-> None, full |-> kind[p] # "WiiUPro",
               owes |-> kind[p] = "WiiUPro", button |-> held]]
    /\ wanted' = [wanted EXCEPT ![p] = -1]
    /\ presses' = [presses EXCEPT ![p] = 0]
    /\ pauses' = [pauses EXCEPT ![p] = 0]
    /\ UNCHANGED <<kind, colour>>

Disconnect(p) ==
    /\ device[p].on
    /\ driver' = [driver EXCEPT ![p] = NoDriver]
    /\ device' = [device EXCEPT ![p] = Off]
    /\ wanted' = [wanted EXCEPT ![p] = -1]
    /\ presses' = [presses EXCEPT ![p] = 0]
    /\ pauses' = [pauses EXCEPT ![p] = 0]
    /\ UNCHANGED <<kind, colour>>

\* Seeded fault: an index is only stored.
SetPlayerIndex_NotSent(p, i) ==
    /\ device[p].on
    /\ driver' = [driver EXCEPT ![p].index = Stored(p, i)]
    /\ wanted' = [wanted EXCEPT ![p] = i]
    /\ UNCHANGED <<kind, colour, device, presses, pauses>>

SetPlayerIndex(p, i) ==
    /\ device[p].on
    /\ driver' = [driver EXCEPT ![p].index = Stored(p, i),
                                ![p].needSetReport = TRUE]
    /\ wanted' = [wanted EXCEPT ![p] = i]
    /\ UNCHANGED <<kind, colour, device, presses, pauses>>

\* Seeded fault: the colour is put into the shared buffer once.
ColourAfter_Once(p) ==
    IF kind[p] = "DualShock4" /\ driver[p].index \in 0..3 /\ colour = None
    THEN driver[p].index ELSE colour

\* The colour in the static buffer after DualShock4::SetReport: an index
\* without a colour leaves the one that was there.
ColourAfter(p) ==
    IF kind[p] = "DualShock4" /\ driver[p].index \in 0..3
    THEN driver[p].index ELSE colour

\* The light of the pad after SetReport.
LightAfter(p) ==
    CASE kind[p] = "Playstation3" -> driver[p].index
      [] kind[p] = "DualShock4"   -> ColourAfter(p)
      [] OTHER -> IF driver[p].index \in 0..3 THEN driver[p].index
                  ELSE device[p].light

\* The head of HandlePacket: a pending report goes out before anything else,
\* and the Wii U Pro's sets its report mode too.
Flush(p, owes) ==
    IF driver[p].needSetReport
    THEN /\ device' = [device EXCEPT ![p].light = LightAfter(p),
                                     ![p].full = TRUE, ![p].owes = owes]
         /\ colour' = ColourAfter(p)
    ELSE /\ device' = [device EXCEPT ![p].owes = owes]
         /\ UNCHANGED colour

\* Reports that are not the driver's input reports, the status report of the
\* Wii U Pro among them: the driver returns after the flush.  The Playstation 3
\* driver takes every report for an input report.
OtherReport(p) ==
    /\ device[p].on /\ kind[p] # "Playstation3"
    /\ Flush(p, FALSE)
    /\ driver' = [driver EXCEPT ![p].needSetReport = FALSE]
    /\ UNCHANGED <<kind, wanted, presses, pauses>>

\* An input report, with the pause button as it is now.
InputReport(p) ==
    /\ device[p].on /\ device[p].full
    /\ Flush(p, device[p].owes)
    /\ driver' = [driver EXCEPT ![p].needSetReport = FALSE,
                                ![p].pauseHeld = device[p].button]
    /\ pauses' = IF device[p].button /\ ~driver[p].pauseHeld
                 THEN [pauses EXCEPT ![p] = @ + 1] ELSE pauses
    /\ UNCHANGED <<kind, wanted, presses>>

\* The user presses or releases the pause button.
Press(p) ==
    /\ device[p].on /\ ~device[p].button /\ presses[p] < MaxPresses
    /\ device' = [device EXCEPT ![p].button = TRUE]
    /\ presses' = [presses EXCEPT ![p] = @ + 1]
    /\ UNCHANGED <<kind, driver, colour, wanted, pauses>>

Release(p) ==
    /\ device[p].on /\ device[p].button
    /\ device' = [device EXCEPT ![p].button = FALSE]
    /\ UNCHANGED <<kind, driver, colour, wanted, presses, pauses>>

Next ==
    \E p \in Pads :
        \/ Connect(p) \/ Disconnect(p)
        \/ \E i \in Indices : SetPlayerIndex(p, i)
        \/ OtherReport(p) \/ InputReport(p)
        \/ Press(p) \/ Release(p)

Spec == Init /\ [][Next]_vars

(***************************************************************************)
(* A status report that was asked for comes.  The Sony pads report all the *)
(* time; the Wii U Pro, told not to, only when something changes.          *)
(***************************************************************************)
Fairness ==
    \A p \in Pads :
        /\ WF_vars(device[p].owes /\ OtherReport(p))
        /\ WF_vars(kind[p] # "WiiUPro" /\ InputReport(p))

FairSpec == Spec /\ Fairness

-----------------------------------------------------------------------------
\* The variables have their types; a pad that is off has no driver, and one
\* that asked for nothing is on.
TypeOK ==
    /\ kind \in [Pads -> Kinds]
    /\ driver \in [Pads -> [index : -1..255, needSetReport : BOOLEAN,
                            pauseHeld : BOOLEAN]]
    /\ colour \in Lights
    /\ device \in [Pads -> [on : BOOLEAN, light : Lights, full : BOOLEAN,
                            owes : BOOLEAN, button : BOOLEAN]]
    /\ wanted \in [Pads -> Indices]
    /\ presses \in [Pads -> 0..MaxPresses] /\ pauses \in [Pads -> Nat]
    /\ \A p \in Pads : ~device[p].on =>
          device[p] = Off /\ ~driver[p].needSetReport

\* Once a driver has nothing left to send, the pad shows the player it was
\* given, whatever the other pads sent through the shared buffer since.  Only
\* the Playstation 3 pad shows no player for every index that is not one.
LightShowsPlayer ==
    \A p \in Pads : device[p].on /\ ~driver[p].needSetReport =>
        /\ wanted[p] \in 0..3 => device[p].light = wanted[p]
        /\ kind[p] = "Playstation3" /\ wanted[p] \notin 0..3 =>
              device[p].light = None

\* A connection sends at most one PausePressed for each press of the button,
\* and none for a button that was held while the pad connected, however the
\* reports that are not input reports fall in between.
PauseNeedsPress == \A p \in Pads : pauses[p] <= presses[p]

\* Every pad that stays connected comes to send input reports, also when the
\* only status report of a Wii U Pro arrives before any player index.
ReportsStart == \A p \in Pads : device[p].on ~> (device[p].full \/ ~device[p].on)

\* A player index the application settles on comes to be shown for good by a
\* Sony pad, whose reports never stop.
LightArrives ==
    \A p \in Pads, i \in Indices \cap 0..3 :
        kind[p] # "WiiUPro" =>
            (<>[](device[p].on /\ wanted[p] = i) => <>[](device[p].light = i))
=============================================================================
