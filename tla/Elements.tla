------------------------------ MODULE Elements -------------------------------
(***************************************************************************)
(* One controller's elements, frontend/MFiWrapper.mm: a direction pad with *)
(* its two axes and four buttons, and a button after it.  The other pads   *)
(* and buttons follow in the same way.  tweakUpdateButtons walks through a *)
(* packet's floats and calls a handler of the application at every change. *)
(* While a handler runs the application may run the run loop, so an update *)
(* can be begun while another is half done: the stack holds their frames,  *)
(* and each frame reads the floats through a pointer when it needs them.   *)
(***************************************************************************)
EXTENDS Integers, Sequences, SequencesExt

VARIABLES
    buffer,   \* the floats of the packet, as DPadX, DPadY, A
    value,    \* the value property of each element
    told,     \* history: what each element's handler was last called with
    stack     \* frames of the calls under way on the main thread

elementVars == <<buffer, value, told, stack>>

Buttons  == {"left", "right", "up", "down", "A"}
Elements == {"xAxis", "yAxis"} \cup Buttons

Buffers == [DPadX : {-1, 0, 1}, DPadY : {-1, 0, 1}, A : {0, 1}]
Rest    == [DPadX |-> 0, DPadY |-> 0, A |-> 0]

Positive(v) == IF v > 0 THEN v ELSE 0

\* The value an element takes from the floats it is given.
Target(e, b) ==
    CASE e = "xAxis" -> b.DPadX
      [] e = "left"  -> Positive(-b.DPadX)
      [] e = "right" -> Positive(b.DPadX)
      [] e = "yAxis" -> b.DPadY
      [] e = "up"    -> Positive(-b.DPadY)
      [] e = "down"  -> Positive(b.DPadY)
      [] e = "A"     -> b.A

\* The order of an update.  The direction pad has a handler of its own.
Steps == <<"unchanged?", "xAxis", "left", "right", "yAxis", "up", "down",
           "dpad", "A">>

\* A frame is in a handler when "calling" is set.  "step" is the next step of
\* an update; the other modules' frames do not use it.
UpdateFrame == [stage |-> "update", step |-> 1, calling |-> FALSE]

Top == Last(stack)
Push(frame) == stack' = Append(stack, frame)
SetTop(frame) == stack' = Append(Front(stack), frame)

\* Code of the application runs: outside all calls, or in a handler.
AppRuns == stack # <<>> => Top.calling

ElementsInit ==
    /\ buffer = Rest
    /\ value = [e \in Elements |-> 0]
    /\ told = [e \in Elements \cup {"dpad"} |->
                   IF e = "dpad" THEN <<0, 0>> ELSE 0]
    /\ stack = <<>>

-----------------------------------------------------------------------------
InUpdate(step) ==
    /\ stack # <<>> /\ Top.stage = "update" /\ Top.step <= Len(Steps)
    /\ Steps[Top.step] = step

\* Go on with a step that calls a handler, or does not.
Continue(step, calling) ==
    SetTop([Top EXCEPT !.step = step, !.calling = calling])

\* Seeded fault: the pad returns early when one of its axes is unchanged.
Unchanged_OneAxis ==
    value["xAxis"] = buffer.DPadX \/ value["yAxis"] = buffer.DPadY

Unchanged ==
    value["xAxis"] = buffer.DPadX /\ value["yAxis"] = buffer.DPadY

\* The early return of the direction pad's tweakSetValues.
TestUnchanged ==
    /\ InUpdate("unchanged?")
    /\ Continue(IF Unchanged THEN Len(Steps) ELSE Top.step + 1, FALSE)
    /\ UNCHANGED <<buffer, value, told>>

\* tweakSetValue of an axis or a button: nothing when the value is the same,
\* else the value is set and the handler called with it.
SetValue(e) ==
    LET new == Target(e, buffer) IN
    /\ InUpdate(e)
    /\ value' = [value EXCEPT ![e] = new]
    /\ told' = IF new # value[e] THEN [told EXCEPT ![e] = new] ELSE told
    /\ Continue(Top.step + 1, new # value[e])
    /\ UNCHANGED buffer

\* The pad's own handler, called at the end of every update of the pad.
TellDpad ==
    /\ InUpdate("dpad")
    /\ told' = [told EXCEPT !["dpad"] = <<buffer.DPadX, buffer.DPadY>>]
    /\ Continue(Top.step + 1, TRUE)
    /\ UNCHANGED <<buffer, value>>

ElementsNext == TestUnchanged \/ (\E e \in Elements : SetValue(e)) \/ TellDpad

\* The last handler has returned.
UpdateDone == stack # <<>> /\ Top.stage = "update" /\ Top.step > Len(Steps)

-----------------------------------------------------------------------------
ElementsOK ==
    /\ buffer \in Buffers
    /\ value \in [Elements -> {-1, 0, 1}]

\* The elements show the floats, and every handler was last called with what
\* its element shows.
ElementsShowBuffer ==
    /\ \A e \in Elements :
          value[e] = Target(e, buffer) /\ told[e] = value[e]
    /\ told["dpad"] = <<buffer.DPadX, buffer.DPadY>>
=============================================================================
