-------------------------------- MODULE ICade --------------------------------
(***************************************************************************)
(* What feeds the elements.  In the usual build it is the backend, one     *)
(* packet at a time: a Parse inside a handler reads nothing.  Built with   *)
(* USE_ICADE it is the keyboard, frontend/keyboard.mm, with the hook of    *)
(* GCController_Hook_iOS.xm that calls it.  UIKit calls that hook twice    *)
(* for every key event, and also for the events of a run loop that a       *)
(* handler runs.                                                           *)
(***************************************************************************)
EXTENDS Elements, FiniteSetsExt

CONSTANTS
    Keys,       \* the iCade buttons the user has
    MaxNesting  \* bound: key events being handled inside one another

ASSUME ICadeAssumption ==
    /\ Keys \subseteq {"UP", "DOWN", "LEFT", "RIGHT", "LW_LF", "SELECT", "START"}
    /\ MaxNesting \in Nat \ {0}

VARIABLES
    build,            \* "packets", or "icade" for USE_ICADE
    started,          \* Startup has made the array of controllers
    initialized,      \* Event's static of that name
    listed,           \* the keyboard's controller is in the array
    handleSet,        \* dataPacket has its Handle
    last_time_stamp,  \* the hook's static of that name
    held,             \* the buttons the user holds
    disturbed,        \* history: inputs whose last key event was interrupted by
                      \* another, handled inside a handler
    unapplied         \* history: the state was stored but not passed on

keyboardVars == <<started, initialized, listed, handleSet, last_time_stamp,
                  held, disturbed, unapplied>>
vars == <<elementVars, build, keyboardVars>>

\* A key that is no iCade button: iCadeMap has -1 for it.
NoButton == "none"

Init ==
    /\ ElementsInit
    /\ build \in {"packets", "icade"}
    /\ started = FALSE /\ initialized = FALSE /\ listed = FALSE
    /\ handleSet = FALSE /\ last_time_stamp = 0
    /\ held = {} /\ disturbed = {} /\ unapplied = FALSE

-----------------------------------------------------------------------------
\* FrontendConnection::HandlePacket for InputState, in the usual build.
ReceivePacket(state) ==
    /\ build = "packets" /\ stack = <<>>
    /\ buffer' = state
    /\ Push(UpdateFrame)
    /\ UNCHANGED <<value, told, build, keyboardVars>>

Startup ==
    /\ AppRuns /\ ~started
    /\ started' = TRUE
    /\ UNCHANGED <<elementVars, build, initialized, listed, handleSet,
                   last_time_stamp, held, disturbed, unapplied>>

-----------------------------------------------------------------------------
HookFrames == {k \in 1..Len(stack) : stack[k].stage = "hook"}

\* Time stamps only matter as far as they are equal.
FreshTimeStamp ==
    CHOOSE t \in 1..(MaxNesting + 2) :
        t # last_time_stamp /\ \A k \in HookFrames : stack[k].time # t

Opposite(b) == CASE b = "UP" -> "DOWN" [] b = "DOWN" -> "UP"
                 [] b = "LEFT" -> "RIGHT" [] b = "RIGHT" -> "LEFT"
                 [] OTHER -> b

\* The float that a button's codes change, if any.
InputOf(b) == CASE b \in {"UP", "DOWN"}    -> "DPadY"
                [] b \in {"LEFT", "RIGHT"} -> "DPadX"
                [] b = "LW_LF" -> "A" [] OTHER -> NoButton

\* The inputs of the key events that are in the first of their two calls.
Interrupted ==
    {InputOf(stack[k].button) : k \in {j \in HookFrames : stack[j].calls = 1}}
        \ {NoButton}

\* The user presses or releases a button, or presses some other key.  No
\* direction pad is pushed two ways at once.  UIKit calls the hook, twice.
Key(b) ==
    /\ build = "icade" /\ AppRuns /\ Cardinality(HookFrames) < MaxNesting
    /\ b \in held \/ Opposite(b) \notin held
    /\ held' = IF b = NoButton THEN held
               ELSE IF b \in held THEN held \ {b} ELSE held \cup {b}
    /\ disturbed' = (disturbed \ {InputOf(b)}) \cup Interrupted
    /\ Push([stage |-> "hook", calls |-> 0, time |-> FreshTimeStamp,
             button |-> b, up |-> b \in held, calling |-> FALSE])
    /\ UNCHANGED <<buffer, value, told, build, started, initialized, listed,
                   handleSet, last_time_stamp, unapplied>>

\* Seeded fault: the code of a direction's release is taken for a press.
Stored_NoRelease(b, up) ==
    CASE b = "UP"    -> [buffer EXCEPT !.DPadY = -1]
      [] b = "DOWN"  -> [buffer EXCEPT !.DPadY = 1]
      [] b = "LEFT"  -> [buffer EXCEPT !.DPadX = -1]
      [] b = "RIGHT" -> [buffer EXCEPT !.DPadX = 1]
      [] b = "LW_LF" -> [buffer EXCEPT !.A = IF up THEN 0 ELSE 1]
      [] OTHER -> buffer

\* The floats after the code of a button.  SELECT has no case.
Stored(b, up) ==
    LET check(v) == IF up THEN 0 ELSE v IN
    CASE b = "UP"    -> [buffer EXCEPT !.DPadY = check(-1)]
      [] b = "DOWN"  -> [buffer EXCEPT !.DPadY = check(1)]
      [] b = "LEFT"  -> [buffer EXCEPT !.DPadX = check(-1)]
      [] b = "RIGHT" -> [buffer EXCEPT !.DPadX = check(1)]
      [] b = "LW_LF" -> [buffer EXCEPT !.A = check(1)]
      [] OTHER -> buffer

CallingFrame(stage) == [stage |-> stage, calling |-> TRUE]

\* The rest of Event once the keyboard is connected, above the frames "below".
\* START calls the pause handler, on press and release.
HandleKey(below, b, up, handle) ==
    LET found == listed /\ handle
        state == Stored(b, up)
    IN  /\ buffer' = state
        /\ stack' = below \o
              (CASE b = NoButton -> <<>>
                 [] b = "START"  -> IF listed THEN <<CallingFrame("pause")>>
                                    ELSE <<>>
                 [] OTHER        -> IF found THEN <<UpdateFrame>> ELSE <<>>)
        /\ unapplied' = IF b \in {NoButton, "START"} THEN unapplied
                        ELSE ~found

\* One of the two calls of the hook, and the head of Event.  The call is
\* passed over when it has the time stamp of the last one.
HookCall ==
    /\ stack # <<>> /\ Top.stage = "hook" /\ Top.calls < 2
    /\ LET counted == Append(Front(stack), [Top EXCEPT !.calls = @ + 1])
           fresh   == last_time_stamp # Top.time
       IN  /\ last_time_stamp' = Top.time
           /\ IF fresh /\ ~initialized
              THEN /\ initialized' = TRUE
                   /\ listed' = started
                   /\ stack' = Append(counted, CallingFrame("connect"))
                   /\ UNCHANGED <<buffer, unapplied>>
              ELSE /\ UNCHANGED <<initialized, listed>>
                   /\ IF fresh
                      THEN HandleKey(counted, Top.button, Top.up, handleSet)
                      ELSE stack' = counted /\ UNCHANGED <<buffer, unapplied>>
    /\ UNCHANGED <<value, told, build, started, handleSet, held, disturbed>>

\* The observers of the connection have been called.
FinishConnect ==
    /\ stack # <<>> /\ Top.stage = "connect"
    /\ handleSet' = TRUE
    /\ LET hook == Last(Front(stack)) IN
          HandleKey(Front(stack), hook.button, hook.up, TRUE)
    /\ UNCHANGED <<value, told, build, started, initialized, listed,
                   last_time_stamp, held, disturbed>>

\* An update, a pause handler or the second call of the hook returns.
Return ==
    /\ \/ UpdateDone
       \/ stack # <<>> /\ Top.stage = "pause"
       \/ stack # <<>> /\ Top.stage = "hook" /\ Top.calls = 2
    /\ stack' = Front(stack)
    /\ UNCHANGED <<buffer, value, told, build, keyboardVars>>

Next ==
    \/ \E state \in Buffers : ReceivePacket(state)
    \/ Startup
    \/ \E b \in Keys \cup {NoButton} : Key(b)
    \/ HookCall \/ FinishConnect \/ Return
    \/ ElementsNext /\ UNCHANGED <<build, keyboardVars>>

Spec == Init /\ [][Next]_vars

-----------------------------------------------------------------------------
\* The types of what the application sees, and between two updates a program
\* that reads the elements' values and one that only listens to their
\* handlers agree with the last state that was passed on, however many
\* updates were begun in the middle of one another.
ElementsAreCurrent ==
    /\ ElementsOK
    /\ stack = <<>> /\ ~unapplied => ElementsShowBuffer

\* The floats of an iCade whose buttons in b are held.
FloatsOf(b) ==
    LET way(minus, plus) ==
            IF minus \in b THEN -1 ELSE IF plus \in b THEN 1 ELSE 0
    IN  [DPadX |-> way("LEFT", "RIGHT"), DPadY |-> way("UP", "DOWN"),
         A |-> IF "LW_LF" \in b THEN 1 ELSE 0]

\* The comment on dataPacket: it holds the current state of the iCade inputs.
\* So it does for the direction pad and the button, except for an input whose
\* last key event was interrupted: the second call of the hook for that event
\* then finds another time stamp and handles the event again, in place of the
\* events that came in between.
StateIsHeld ==
    build = "icade" /\ stack = <<>> =>
        \A i \in DOMAIN buffer \ disturbed : buffer[i] = FloatsOf(held)[i]
=============================================================================
