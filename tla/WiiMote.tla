------------------------------ MODULE WiiMote -------------------------------
(***************************************************************************)
(* The Wii Remote driver, HIDPad_WiiMote.cpp and wiimote.cpp, with the     *)
(* remote it talks to.  The handshake is a state machine that every status *)
(* or memory report resumes; it finds out what is plugged into the remote  *)
(* while the user plugs and unplugs expansions.                            *)
(*                                                                         *)
(* The remote is not part of the program.  It is modelled from how the     *)
(* driver uses it: it carries out commands in order, answers a status or a *)
(* read request with one report, sends a status report of its own accord   *)
(* when an expansion comes or goes, and data reports in the mode it was    *)
(* last told.                                                              *)
(***************************************************************************)
EXTENDS Integers, Sequences

CONSTANTS
    MaxPlugs,     \* bound: how often an expansion comes or goes
    QueueBound,   \* bound: packets of one direction, for optional senders
    Indices       \* player indices the frontend sends

ASSUME WiiMoteAssumption ==
    /\ MaxPlugs \in Nat /\ QueueBound \in Nat
    /\ Indices \subseteq -1..3

VARIABLES
    handshake_state,  \* wm->handshake_state
    state,            \* wm->state, its flags but the constant CONNECTED
    expType,          \* wm->exp.type
    classic,          \* wm->exp.classic: the plug whose data it has, or Cleared
    unid,             \* wm->unid
    leds,             \* wm->leds: the LED that is lit, -1 for none
    missed,           \* history: an unplug report came while a read was awaited
    toDevice, toHost, \* commands and reports under way
    plugged, mode, litLed, plugs   \* the remote

driverVars == <<handshake_state, state, expType, classic, unid, leds, missed>>
remoteVars == <<plugged, mode, litLed, plugs>>
vars == <<driverVars, remoteVars, toDevice, toHost>>

\* Nothing pressed, the sticks at rest and not calibrated.
Cleared == -1

Flags == {"HANDSHAKE", "HANDSHAKE_COMPLETE", "EXP"}

\* Commands.
Led(l)    == [cmd |-> "led", arg |-> l]
Status    == [cmd |-> "status", arg |-> 0]
WriteData == [cmd |-> "write", arg |-> 0]
ReadId    == [cmd |-> "read", arg |-> "id"]
ReadCalib == [cmd |-> "read", arg |-> "calib"]
ReportIn(m) == [cmd |-> "mode", arg |-> m]

\* Reports, with what was plugged in when the remote sent them, and the number
\* of that plug.
Report(rpt, of) == [rpt |-> rpt, of |-> of, exp |-> plugged, plug |-> plugs]

Init ==
    /\ handshake_state = 0 /\ state = {} /\ expType = "none"
    /\ classic = Cleared /\ unid = -1 /\ leds = -1 /\ missed = FALSE
    /\ toDevice = <<>> /\ toHost = <<>>
    /\ plugged \in {"none", "classic", "other"} /\ mode = "off"
    /\ litLed = -1 /\ plugs = 0

-----------------------------------------------------------------------------
(* The driver.                                                             *)

Send(cmds) == toDevice' = toDevice \o cmds

\* State 0, from the constructor.
Construct ==
    /\ handshake_state = 0
    /\ state' = {"HANDSHAKE"}
    /\ leds' = -1
    /\ Send(<<Led(-1), Status>>)
    /\ handshake_state' = 1
    /\ UNCHANGED <<expType, classic, unid, missed, remoteVars, toHost>>

\* Seeded fault: the handshake begun again also stays complete.
Rehandshake_StaysComplete(s) == s \cup {"HANDSHAKE"}

\* A handshake that was complete is begun again.
Rehandshake(s) ==
    IF "HANDSHAKE_COMPLETE" \in s
    THEN (s \ {"HANDSHAKE_COMPLETE"}) \cup {"HANDSHAKE"} ELSE s

\* States 2 or 3 and then 6: the report mode and the LED of the player.
Finish(s, reportMode) ==
    /\ state' = (s \ {"HANDSHAKE"}) \cup {"HANDSHAKE_COMPLETE"}
    /\ handshake_state' = 1
    /\ leds' = IF unid \in 0..3 THEN unid ELSE leds
    /\ Send(<<ReportIn(reportMode)>>
            \o (IF unid \in 0..3 THEN <<Led(unid)>> ELSE <<>>))

\* State 1, a status report that tells of a new expansion.
BeginExpansion ==
    /\ state' = Rehandshake(state \cup {"EXP"})
    /\ Send(<<WriteData, WriteData, ReadId>>)
    /\ handshake_state' = 4
    /\ UNCHANGED <<expType, classic, leds>>

\* Seeded fault: removing an expansion leaves its flag set.
EndExpansion_KeepsFlag ==
    /\ expType' = "none"
    /\ UNCHANGED classic
    /\ Finish(Rehandshake(state), "btn")

\* State 1, a status report that tells of a removed expansion.
EndExpansion ==
    /\ expType' = "none"
    /\ UNCHANGED classic
    /\ Finish(Rehandshake(state \ {"EXP"}), "btn")

NothingSent ==
    UNCHANGED <<handshake_state, state, expType, classic, leds, toDevice>>

HandshakeStatus(attachment) ==
    CASE attachment /\ "EXP" \notin state  -> BeginExpansion
      [] ~attachment /\ "EXP" \in state    -> EndExpansion
      [] ~attachment /\ "EXP" \notin state /\ "HANDSHAKE" \in state ->
             Finish(state, "btn") /\ UNCHANGED <<expType, classic>>
      [] OTHER -> NothingSent

\* Seeded fault: the identification is asked for twice.
HandshakeId_ReadsTwice(id) ==
    IF id = "classic"
    THEN /\ Send(<<ReadId, ReadCalib>>)
         /\ handshake_state' = 5
         /\ UNCHANGED <<state, expType, classic, leds>>
    ELSE Finish(state, "btn") /\ UNCHANGED <<expType, classic>>

\* Seeded fault: an unknown expansion is left alone.
HandshakeId_Waits(id) ==
    IF id = "classic"
    THEN /\ Send(<<ReadCalib>>)
         /\ handshake_state' = 5
         /\ UNCHANGED <<state, expType, classic, leds>>
    ELSE NothingSent

\* State 4: the identification of the expansion.
HandshakeId(id) ==
    IF id = "classic"
    THEN /\ Send(<<ReadCalib>>)
         /\ handshake_state' = 5
         /\ UNCHANGED <<state, expType, classic, leds>>
    ELSE Finish(state, "btn") /\ UNCHANGED <<expType, classic>>

\* Seeded fault: what an earlier expansion left is not cleared.
HandshakeCalib_KeepsData ==
    /\ expType' = "classic"
    /\ UNCHANGED classic
    /\ Finish(state, "btnexp")

\* State 5, and classic_ctrl_handshake, which does not look at the calibration
\* data.
HandshakeCalib ==
    /\ expType' = "classic"
    /\ classic' = Cleared
    /\ Finish(state, "btnexp")

\* wiimote_handshake, resumed by a report.
Handshake(report) ==
    CASE handshake_state = 1 /\ report.rpt = "status" ->
             HandshakeStatus(report.exp # "none")
      [] handshake_state = 4 /\ report.rpt = "read" -> HandshakeId(report.exp)
      [] handshake_state = 5 /\ report.rpt = "read" -> HandshakeCalib
      [] OTHER -> NothingSent

\* wiimote_handle_expansion: data is decoded as a Classic Controller's.
HandleExpansion(report) ==
    /\ classic' = IF expType = "classic" THEN report.plug ELSE classic
    /\ UNCHANGED <<handshake_state, state, expType, leds, toDevice>>

\* HandlePacket: the handshake for status and read reports, the expansion's
\* data.  Every report ends in ProcessButtons, which sends an input state: that
\* of exp.classic if expType is "classic", else the remote's own buttons.
HandlePacket ==
    /\ handshake_state # 0 /\ toHost # <<>>
    /\ LET report == Head(toHost) IN
         /\ CASE report.rpt \in {"status", "read"} -> Handshake(report)
              [] report.rpt = "btnexp" -> HandleExpansion(report)
              [] OTHER -> NothingSent
         /\ missed' = (missed \/ (/\ handshake_state \in {4, 5}
                                  /\ report.rpt = "status"
                                  /\ report.exp = "none"))
    /\ toHost' = Tail(toHost)
    /\ UNCHANGED <<unid, remoteVars>>

\* Seeded fault: the LED waits for the next handshake.
SetPlayerIndex_Deferred(i) ==
    /\ handshake_state # 0 /\ Len(toDevice) < QueueBound
    /\ unid' = i
    /\ UNCHANGED <<leds, toDevice, handshake_state, state, expType, classic,
                   missed, remoteVars, toHost>>

\* An index outside 0..3 changes no LED.
SetPlayerIndex(i) ==
    /\ handshake_state # 0 /\ Len(toDevice) < QueueBound
    /\ unid' = i
    /\ IF i \in 0..3 THEN leds' = i /\ Send(<<Led(i)>>)
       ELSE UNCHANGED <<leds, toDevice>>
    /\ UNCHANGED <<handshake_state, state, expType, classic, missed,
                   remoteVars, toHost>>

-----------------------------------------------------------------------------
(* The remote and its user.                                                *)

CarryOut ==
    /\ toDevice # <<>>
    /\ toDevice' = Tail(toDevice)
    /\ LET c == Head(toDevice) IN
         /\ litLed' = IF c.cmd = "led" THEN c.arg ELSE litLed
         /\ mode' = IF c.cmd = "mode" THEN c.arg ELSE mode
         /\ toHost' = CASE c.cmd = "status" -> Append(toHost, Report("status", "none"))
                        [] c.cmd = "read" -> Append(toHost, Report("read", c.arg))
                        [] OTHER -> toHost
    /\ UNCHANGED <<driverVars, plugged, plugs>>

SendData ==
    /\ mode # "off" /\ Len(toHost) < QueueBound
    /\ toHost' = Append(toHost, Report(mode, "none"))
    /\ UNCHANGED <<driverVars, remoteVars, toDevice>>

Replug ==
    /\ plugs < MaxPlugs
    /\ plugs' = plugs + 1
    /\ plugged' \in IF plugged = "none" THEN {"classic", "other"} ELSE {"none"}
    /\ toHost' = Append(toHost, Report("status", "none")')
    /\ UNCHANGED <<driverVars, mode, litLed, toDevice>>

Next ==
    \/ Construct \/ HandlePacket
    \/ \E i \in Indices : SetPlayerIndex(i)
    \/ CarryOut \/ SendData \/ Replug

(***************************************************************************)
(* The run loop delivers reports and the remote carries out commands.      *)
(***************************************************************************)
Spec == Init /\ [][Next]_vars
FairSpec == Spec /\ WF_vars(Construct) /\ WF_vars(HandlePacket) /\ WF_vars(CarryOut)

-----------------------------------------------------------------------------
TypeOK ==
    /\ handshake_state \in {0, 1, 4, 5} /\ state \subseteq Flags
    /\ expType \in {"none", "classic"} /\ classic \in {Cleared} \cup 0..MaxPlugs
    /\ unid \in Indices \cup {-1}
    /\ leds \in -1..3 /\ litLed \in -1..3
    /\ mode \in {"off", "btn", "btnexp"}
    /\ handshake_state # 0 =>
          ("HANDSHAKE" \in state <=> "HANDSHAKE_COMPLETE" \notin state)

\* A read report taken for the identification answers the request for the
\* identification, one taken for the calibration that for the calibration:
\* the driver cannot tell them apart and relies on their order.
ReadsAnswerTheirRequest ==
    toHost # <<>> /\ Head(toHost).rpt = "read" =>
        \/ handshake_state = 4 /\ Head(toHost).of = "id"
        \/ handshake_state = 5 /\ Head(toHost).of = "calib"

\* No status is under way that would tell the driver something.
Settled ==
    /\ handshake_state = 1
    /\ \A k \in 1..Len(toHost) : toHost[k].rpt \notin {"status", "read"}
    /\ \A k \in 1..Len(toDevice) : toDevice[k].cmd \notin {"status", "read", "mode"}

\* What comment 179 of wiimote.cpp says of state 1: a new handshake begins when
\* an expansion is plugged in or removed.  So when nothing is under way the
\* driver knows what is plugged in.
ExpansionIsFollowed == Settled => (expType = "classic" <=> plugged = "classic")

\* The same, and the report mode fits, as long as no removal is reported while
\* the driver waits for a read.
ExpansionIsFollowedUnlessMissed ==
    ~missed /\ Settled =>
        /\ expType = "classic" <=> plugged = "classic"
        /\ mode = IF plugged = "classic" THEN "btnexp" ELSE "btn"

\* The input state sent in the Classic Controller's layout never shows what an
\* earlier expansion had pressed, nor bytes of a port that is empty or holds
\* something else: each is the data of the Classic Controller that was plugged
\* in when the remote sent the report, or none yet.  Under the same condition.
StateIsOfThisExpansion ==
    [][toHost # <<>> /\ toHost' = Tail(toHost) =>
          (~missed' /\ expType' = "classic" =>
              /\ Head(toHost).exp = "classic"
              /\ classic' \in {Cleared, Head(toHost).plug})]_vars

\* The remote shows the LED of its player once the commands are carried out,
\* whatever handshakes ran in between.
LedShowsPlayer ==
    unid \in 0..3 =>
        \/ \E k \in 1..Len(toDevice) : toDevice[k].cmd = "led"
        \/ litLed = unid

\* Every handshake ends, with whatever expansion, and the remote reports.
HandshakeEnds == <>[]("HANDSHAKE_COMPLETE" \in state /\ mode # "off")
=============================================================================
