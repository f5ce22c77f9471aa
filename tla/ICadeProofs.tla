------------------------------ MODULE ICadeProofs ------------------------------
(***************************************************************************)
(* Theorems about Elements and ICade: for any set of keys, any nesting of  *)
(* key events and any depth of updates begun inside one another, the       *)
(* elements and their handlers end up with the last state passed on.       *)
(***************************************************************************)
EXTENDS ICade, FiniteSetTheorems, SequenceTheorems, TLAPS

USE ICadeAssumption DEF ICadeAssumption

-----------------------------------------------------------------------------
(* The call stack. *)

\* The frames of the calls under way.  An update that has not looked at the pad
\* yet calls no handler.
Frames ==
    [stage : {"update"}, step : {1}, calling : {FALSE}]
    \cup [stage : {"update"}, step : 2..10, calling : BOOLEAN]
    \cup [stage : {"hook"}, calls : 0..2, time : Int, button : Keys \cup {NoButton},
          up : BOOLEAN, calling : {FALSE}]
    \cup [stage : {"connect", "pause"}, calling : {TRUE}]

Level == {-1, 0, 1}

FramesOK ==
    /\ stack \in Seq(Frames)
    /\ build = "packets" => \A k \in 1..Len(stack) : stack[k].stage = "update"

\* What an element shows is what its handler was told.
ValuesOK ==
    /\ buffer \in Buffers
    /\ value \in [Elements -> Level]
    /\ told \in [Elements \cup {"dpad"} -> Level \cup (Level \X Level)]
    /\ \A e \in Elements : told[e] = value[e]

\* The step of an update that sees to e.
Place(e) == CASE e = "xAxis" -> 2 [] e = "left" -> 3 [] e = "right" -> 4
              [] e = "yAxis" -> 5 [] e = "up" -> 6 [] e = "down" -> 7
              [] e = "dpad" -> 8 [] OTHER -> 9

\* What e shows, or was told, is not what the floats say.
Stale(e) == IF e = "dpad" THEN told["dpad"] # <<buffer.DPadX, buffer.DPadY>>
            ELSE value[e] # Target(e, buffer)

AtTest == stack # <<>> /\ Top.stage = "update" /\ Top.step = 1

\* A frame of st is of an update that will come to e.
Comes(st, e) ==
    \E k \in 1..Len(st) : st[k].stage = "update" /\ st[k].step \in 2..Place(e)

NoUpdates(st) == \A k \in 1..Len(st) : st[k].stage # "update"

\* Some update under way will still come to e.  One that has still to look at
\* the axes will come to the pad if one of them has changed.
Due(e) ==
    \/ Comes(stack, e)
    \/ AtTest /\ (e = "A" \/ Stale("xAxis") \/ Stale("yAxis"))

StaleIsDue == \A e \in Elements \cup {"dpad"} : Stale(e) => Due(e)

\* No update was begun so far.
NoUpdateYet ==
    /\ \A e \in Elements : value[e] = 0
    /\ told["dpad"] = <<0, 0>>
    /\ NoUpdates(stack)

\* The keyboard's controller is not updated before it is connected.  So what was
\* stored and not passed on cannot meet elements that show something else.
PassedOn ==
    /\ IF build = "packets" THEN ~unapplied
       ELSE unapplied \/ ~listed \/ ~handleSet => NoUpdateYet
    /\ ~initialized => ~listed

ElementsInv == FramesOK /\ ValuesOK /\ PassedOn /\ (~unapplied => StaleIsDue)

-----------------------------------------------------------------------------
(* Stacks. *)

\* A call more.
LEMMA Pushed ==
    ASSUME NEW S, NEW st \in Seq(S), NEW f \in S
    PROVE  /\ Append(st, f) \in Seq(S) /\ Append(st, f) # <<>>
           /\ Len(Append(st, f)) = Len(st) + 1 /\ Len(st) \in Nat
           /\ \A k \in 1..Len(st) : Append(st, f)[k] = st[k]
           /\ Append(st, f)[Len(st) + 1] = f
           /\ Last(Append(st, f)) = f
BY AppendProperties DEF Last

\* A call less.
LEMMA Popped ==
    ASSUME NEW S, NEW st \in Seq(S), st # <<>>
    PROVE  /\ Front(st) \in Seq(S) /\ Last(st) \in S
           /\ Len(Front(st)) = Len(st) - 1 /\ Len(st) \in Nat \ {0}
           /\ \A k \in 1..Len(Front(st)) : Front(st)[k] = st[k]
           /\ \A k \in 1..Len(st) : k \in 1..Len(Front(st)) \/ st[k] = Last(st)
           /\ Last(st) = st[Len(st)]
<1>1. Len(st) \in Nat \ {0} /\ \A i \in 1..Len(st) : st[i] \in S
  OBVIOUS
<1>2. PICK d : d = Front(st)
  OBVIOUS
<1>3. /\ d \in Seq(S) /\ Len(d) = Len(st) - 1
      /\ \A k \in 1..Len(d) : d[k] = st[k]
  <2>1. PICK n \in Nat : n = Len(st) - 1
    BY <1>1
  <2>2. d = SubSeq(st, 1, n) /\ (\A i \in 1..n : st[i] \in S) /\ n - 1 + 1 = n
    BY <1>1, <1>2, <2>1 DEF Front
  <2>3. /\ d \in Seq(S) /\ Len(d) = (IF 1 <= n THEN n ELSE 0)
        /\ \A i \in 1..n : d[i] = st[1 + i - 1]
    BY <2>2, SubSeqProperties
  <2> QED BY <2>1, <2>3
<1> QED BY <1>1, <1>2, <1>3 DEF Last

\* What comes when a call is pushed.
LEMMA ComesPushed ==
    ASSUME NEW S, NEW st \in Seq(S), NEW f \in S
    PROVE  /\ \A e : Comes(st, e) => Comes(Append(st, f), e)
           /\ NoUpdates(st) /\ f.stage # "update" => NoUpdates(Append(st, f))
<1>1. PICK d : d = Append(st, f)
  OBVIOUS
<1>2. /\ Len(d) = Len(st) + 1 /\ Len(st) \in Nat /\ d[Len(st) + 1] = f
      /\ \A k \in 1..Len(st) : d[k] = st[k]
  BY <1>1, Pushed
<1>3. \A e : Comes(st, e) => Comes(d, e)
  BY <1>2 DEF Comes
<1>4. NoUpdates(st) /\ f.stage # "update" => NoUpdates(d)
  BY <1>2 DEF NoUpdates
<1> QED BY <1>1, <1>3, <1>4

\* What comes when the topmost call returns.
LEMMA ComesPopped ==
    ASSUME NEW S, NEW st \in Seq(S), st # <<>>
    PROVE  /\ \A e : /\ Comes(st, e)
                     /\ Last(st).stage # "update" \/ Last(st).step \notin 2..Place(e)
                     => Comes(Front(st), e)
           /\ NoUpdates(st) => NoUpdates(Front(st)) /\ Last(st).stage # "update"
<1>1. PICK d, f : d = Front(st) /\ f = Last(st)
  OBVIOUS
<1>2. /\ Len(d) = Len(st) - 1 /\ Len(st) \in Nat \ {0}
      /\ \A k \in 1..Len(d) : d[k] = st[k]
      /\ \A k \in 1..Len(st) : k \in 1..Len(d) \/ st[k] = f
      /\ f = st[Len(st)]
  BY <1>1, Popped
<1>3. \A e : Comes(st, e) /\ (f.stage # "update" \/ f.step \notin 2..Place(e))
             => Comes(d, e)
  BY <1>2 DEF Comes
<1>4. NoUpdates(st) => NoUpdates(d) /\ f.stage # "update"
  BY <1>2 DEF NoUpdates
<1> QED BY <1>1, <1>3, <1>4

\* What comes when the topmost call goes on.
LEMMA ComesNext ==
    ASSUME NEW S, NEW st \in Seq(S), st # <<>>, NEW f \in S
    PROVE  /\ Append(Front(st), f) \in Seq(S)
           /\ \A e : /\ Comes(st, e)
                     /\ Last(st).stage # "update" \/ Last(st).step \notin 2..Place(e)
                     => Comes(Append(Front(st), f), e)
           /\ \A e : f.stage = "update" /\ f.step \in 2..Place(e)
                     => Comes(Append(Front(st), f), e)
           /\ NoUpdates(st) /\ f.stage # "update" => NoUpdates(Append(Front(st), f))
<1>1. PICK d : d = Front(st)
  OBVIOUS
<1>2. d \in Seq(S) /\ Append(d, f) \in Seq(S)
  BY <1>1, Popped, Pushed
<1>3. \A e : f.stage = "update" /\ f.step \in 2..Place(e) => Comes(Append(d, f), e)
  <2>1. PICK g : g = Append(d, f)
    OBVIOUS
  <2>2. Len(d) + 1 \in 1..Len(g) /\ g[Len(d) + 1] = f
    BY <1>2, <2>1, Pushed
  <2> QED BY <2>1, <2>2 DEF Comes
<1> QED BY <1>1, <1>2, <1>3, ComesPopped, ComesPushed

-----------------------------------------------------------------------------
(* Updates. *)

\* At first every element shows 0, and so do the floats.
LEMMA InitElementsInv == Init => ElementsInv
<1> SUFFICES ASSUME Init PROVE ElementsInv
  OBVIOUS
<1>1. stack = <<>> /\ Len(stack) = 0 /\ stack \in Seq(Frames)
  BY DEF Init, ElementsInit
<1>2. /\ buffer = Rest /\ \A e \in Elements : value[e] = 0 /\ told[e] = 0
      /\ told["dpad"] = <<0, 0>>
  BY DEF Init, ElementsInit, Elements, Buttons
<1>3. Rest \in Buffers /\ Rest.DPadX = 0 /\ Rest.DPadY = 0 /\ Rest.A = 0
  BY DEF Rest, Buffers
<1>4. \A e \in Elements \cup {"dpad"} : ~Stale(e)
  BY <1>2, <1>3 DEF Stale, Target, Positive, Elements, Buttons
<1>5. ValuesOK
  BY <1>2, <1>3 DEF ValuesOK, Init, ElementsInit, Level
<1> QED BY <1>1, <1>2, <1>4, <1>5
        DEF Init, ElementsInv, FramesOK, PassedOn, NoUpdateYet, NoUpdates, StaleIsDue

\* The frame of an update.
LEMMA UpdateFrames ==
    ASSUME NEW f \in Frames, f.stage = "update"
    PROVE  /\ f \in [stage : {"update"}, step : 1..10, calling : BOOLEAN]
           /\ f.step = 1 => f.calling = FALSE
<1>1. CASE f \in [stage : {"update"}, step : {1}, calling : {FALSE}]
  <2>1. {1} \subseteq 1..10 /\ {FALSE} \subseteq BOOLEAN
    OBVIOUS
  <2>2. f \in [stage : {"update"}, step : 1..10, calling : BOOLEAN]
    BY <1>1, <2>1, Zenon
  <2>3. f.calling = FALSE
    BY <1>1, Zenon
  <2> QED BY <2>2, <2>3
<1>2. CASE f \in [stage : {"update"}, step : 2..10, calling : BOOLEAN]
  <2>1. f.step \in 2..10
    BY <1>2
  <2>2. f.step # 1 /\ 2..10 \subseteq 1..10
    BY <2>1
  <2>3. [stage : {"update"}, step : 2..10, calling : BOOLEAN]
        \subseteq [stage : {"update"}, step : 1..10, calling : BOOLEAN]
    BY <2>2, Zenon
  <2> QED BY <1>2, <2>2, <2>3, Zenon
<1>3. CASE f \in [stage : {"hook"}, calls : 0..2, time : Int,
                  button : Keys \cup {NoButton}, up : BOOLEAN, calling : {FALSE}]
  BY <1>3
<1>4. CASE f \in [stage : {"connect", "pause"}, calling : {TRUE}]
  BY <1>4
<1> QED BY <1>1, <1>2, <1>3, <1>4 DEF Frames

\* The frame of an update that goes on with step n.
LEMMA UpdateGoesOn ==
    ASSUME NEW f \in Frames, f.stage = "update", NEW n \in 2..10,
           NEW c \in {FALSE, TRUE}
    PROVE  /\ [f EXCEPT !.step = n, !.calling = c] \in Frames
           /\ [f EXCEPT !.step = n, !.calling = c].stage = "update"
           /\ [f EXCEPT !.step = n, !.calling = c].step = n
<1>0. PICK g : g = [f EXCEPT !.step = n, !.calling = c]
  OBVIOUS
<1>1. f \in [stage : {"update"}, step : 1..10, calling : BOOLEAN]
  BY UpdateFrames
<1>2. g \in [stage : {"update"}, step : 2..10, calling : BOOLEAN] /\ g.step = n
  BY <1>0, <1>1
<1> QED BY <1>0, <1>2 DEF Frames

\* The places are those of Steps.
LEMMA StepsInOrder ==
    /\ Len(Steps) = 9 /\ Steps[1] = "unchanged?"
    /\ \A n \in 1..9 : /\ Steps[n] = "unchanged?" => n = 1
                       /\ \A e \in Elements \cup {"dpad"} : Steps[n] = e => n = Place(e)
    /\ \A e \in Elements \cup {"dpad"} :
          /\ Place(e) \in 2..9
          /\ \A x \in Elements \cup {"dpad"} : Place(x) = Place(e) => x = e
<1>1. Len(Steps) = 9
  BY DEF Steps
<1>2. \A n \in 1..9 : Steps[n] = CASE n = 1 -> "unchanged?" [] n = 2 -> "xAxis"
                       [] n = 3 -> "left" [] n = 4 -> "right" [] n = 5 -> "yAxis"
                       [] n = 6 -> "up" [] n = 7 -> "down" [] n = 8 -> "dpad"
                       [] n = 9 -> "A"
  BY DEF Steps
<1>3. \A e \in Elements \cup {"dpad"} : Place(e) \in 2..9
  BY DEF Place, Elements, Buttons
<1>4. \A e \in Elements \cup {"dpad"} : \A x \in Elements \cup {"dpad"} :
          Place(x) = Place(e) => x = e
  BY DEF Place, Elements, Buttons
<1>5. ASSUME NEW n \in 1..9
      PROVE  /\ Steps[n] = "unchanged?" => n = 1
             /\ \A e \in Elements \cup {"dpad"} : Steps[n] = e => n = Place(e)
  BY <1>2 DEF Place, Elements, Buttons
<1> QED BY <1>1, <1>2, <1>3, <1>4, <1>5

\* An update under way is one of a controller that is connected.
LEMMA UpdateIsPassedOn ==
    ASSUME ElementsInv, stack # <<>>, Top.stage = "update"
    PROVE  /\ ~unapplied /\ (build = "packets" \/ (listed /\ handleSet))
           /\ StaleIsDue /\ stack \in Seq(Frames) /\ Top \in Frames
           /\ Top.step \in 1..10
<1>1. stack \in Seq(Frames) /\ Top \in Frames
  BY Popped DEF ElementsInv, FramesOK, Top
<1>2. ~NoUpdates(stack)
  BY <1>1, ComesPopped DEF Top
<1>3. Top.step \in 1..10
  BY <1>1, UpdateFrames
<1> QED BY <1>1, <1>2, <1>3 DEF ElementsInv, PassedOn, NoUpdateYet

\* An update that has seen to e goes on to the next step.
LEMMA StepDone ==
    ASSUME ElementsInv, stack # <<>>, Top.stage = "update",
           NEW e \in Elements \cup {"dpad"}, Top.step = Place(e),
           NEW g \in Frames, g.stage = "update", g.step = Place(e) + 1,
           stack' = Append(Front(stack), g),
           \A x \in Elements \cup {"dpad"} : Stale(x)' => Stale(x) /\ x # e
    PROVE  StaleIsDue'
<1>1. StaleIsDue /\ stack \in Seq(Frames) /\ Top \in Frames
  BY UpdateIsPassedOn
<1>2. SUFFICES ASSUME NEW x \in Elements \cup {"dpad"}, Stale(x), x # e
               PROVE  Comes(stack', x)
  <2>1. \A x \in Elements \cup {"dpad"} : Stale(x)' => Comes(stack', x)
    BY <1>2
  <2> QED BY <2>1 DEF StaleIsDue, Due
<1>3. Place(e) \in 2..9 /\ Place(x) \in 2..9 /\ Place(x) # Place(e)
  BY <1>2, StepsInOrder
<1>4. Comes(stack, x)
  BY <1>1, <1>2, <1>3 DEF StaleIsDue, Due, AtTest
<1>5. CASE Top.step \in 2..Place(x)
  BY <1>1, <1>3, <1>5, ComesNext
<1>6. CASE Top.step \notin 2..Place(x)
  BY <1>1, <1>4, <1>6, ComesNext DEF Top
<1> QED BY <1>5, <1>6

\* Every step of an update keeps the elements current.
LEMMA UpdateKeeps ==
    ElementsInv /\ ElementsNext /\ UNCHANGED <<build, keyboardVars>> => ElementsInv'
<1> SUFFICES ASSUME ElementsInv, ElementsNext, UNCHANGED <<build, keyboardVars>>
             PROVE  ElementsInv'
  OBVIOUS
<1>1. stack # <<>> /\ Top.stage = "update" /\ Top.step \in 1..9
  <2>1. stack # <<>> /\ Top.stage = "update" /\ Top.step <= 9
    BY StepsInOrder DEF ElementsNext, TestUnchanged, SetValue, TellDpad, InUpdate
  <2> QED BY <2>1, UpdateIsPassedOn
<1>2. /\ ~unapplied /\ (build = "packets" \/ (listed /\ handleSet))
      /\ StaleIsDue /\ stack \in Seq(Frames) /\ Top \in Frames
      /\ UNCHANGED <<build, unapplied, listed, handleSet, initialized>>
  BY <1>1, UpdateIsPassedOn DEF keyboardVars
<1>3. PassedOn'
  BY <1>2 DEF ElementsInv, PassedOn
<1>4. ASSUME NEW g \in Frames, g.stage = "update", stack' = Append(Front(stack), g)
      PROVE  FramesOK'
  <2>1. stack' \in Seq(Frames)
    BY <1>1, <1>2, <1>4, ComesNext
  <2>2. ASSUME build = "packets", NEW k \in 1..Len(stack') PROVE stack'[k].stage = "update"
    <3>1. Front(stack) \in Seq(Frames) /\ Len(Front(stack)) = Len(stack) - 1
          /\ \A j \in 1..Len(Front(stack)) : Front(stack)[j] = stack[j]
          /\ Len(stack) \in Nat \ {0}
      BY <1>1, <1>2, Popped
    <3>2. /\ Len(stack') = Len(Front(stack)) + 1 /\ stack'[Len(Front(stack)) + 1] = g
          /\ \A j \in 1..Len(Front(stack)) : stack'[j] = Front(stack)[j]
      BY <1>4, <3>1, Pushed
    <3>3. CASE k = Len(stack')
      BY <1>4, <3>2, <3>3
    <3>4. CASE k # Len(stack')
      <4>1. k \in 1..Len(Front(stack)) /\ k \in 1..Len(stack)
        BY <3>1, <3>2, <3>4
      <4>2. stack'[k] = stack[k]
        BY <3>1, <3>2, <4>1
      <4> QED BY <2>2, <4>1, <4>2 DEF ElementsInv, FramesOK
    <3> QED BY <3>3, <3>4
  <2> QED BY <1>2, <2>1, <2>2 DEF FramesOK
<1>5. CASE TestUnchanged
  <2>1. PICK n : n = IF Unchanged THEN 9 ELSE 2
    OBVIOUS
  <2>2. Top.step = 1
    BY <1>1, <1>5, StepsInOrder DEF TestUnchanged, InUpdate
  <2>3. PICK g : g = [Top EXCEPT !.step = n, !.calling = FALSE]
    OBVIOUS
  <2>4. /\ stack' = Append(Front(stack), g) /\ UNCHANGED <<buffer, value, told>>
    <3>1. n = IF Unchanged THEN Len(Steps) ELSE Top.step + 1
      BY <2>1, <2>2, StepsInOrder
    <3> QED BY <1>5, <2>3, <3>1 DEF TestUnchanged, Continue, SetTop
  <2>5. g \in Frames /\ g.stage = "update" /\ g.step = n
    <3>1. n \in 2..10 /\ FALSE \in {FALSE, TRUE}
      BY <2>1
    <3> QED BY <1>1, <1>2, <2>3, <3>1, UpdateGoesOn, Zenon
  <2>6. ASSUME NEW e \in Elements \cup {"dpad"}, Stale(e) PROVE Comes(stack', e)
    <3>1. Due(e) /\ Place(e) \in 2..9 /\ Place("A") = 9
      BY <1>2, <2>6, StepsInOrder DEF StaleIsDue, Place
    <3>2. CASE Comes(stack, e)
      <4>1. Top.step \notin 2..Place(e)
        BY <2>2, <3>1
      <4> QED BY <1>1, <1>2, <2>4, <2>5, <3>2, <4>1, ComesNext DEF Top
    <3>3. CASE e = "A"
      <4>1. n \in 2..Place(e)
        BY <2>1, <3>1, <3>3
      <4> QED BY <1>1, <1>2, <2>4, <2>5, <4>1, ComesNext
    <3>4. CASE Stale("xAxis") \/ Stale("yAxis")
      <4>1. ~Unchanged
        BY <3>4 DEF Unchanged, Stale, Target
      <4>2. n \in 2..Place(e)
        BY <2>1, <3>1, <4>1
      <4> QED BY <1>1, <1>2, <2>4, <2>5, <4>2, ComesNext
    <3> QED BY <3>1, <3>2, <3>3, <3>4 DEF Due
  <2>7. StaleIsDue'
    <3>1. \A e : Stale(e)' <=> Stale(e)
      BY <2>4 DEF Stale
    <3> QED BY <2>6, <3>1 DEF StaleIsDue, Due
  <2>8. ValuesOK'
    BY <2>4 DEF ElementsInv, ValuesOK
  <2> QED BY <1>3, <1>4, <2>4, <2>5, <2>7, <2>8 DEF ElementsInv
<1>6. ASSUME NEW e \in Elements, SetValue(e) PROVE ElementsInv'
  <2>1. PICK new : new = Target(e, buffer)
    OBVIOUS
  <2>2. PICK c \in {FALSE, TRUE} : c = (new # value[e])
    OBVIOUS
  <2>3. Top.step = Place(e) /\ Place(e) \in 2..9
    BY <1>1, <1>6, StepsInOrder DEF SetValue, InUpdate
  <2>4. PICK g : g = [Top EXCEPT !.step = Place(e) + 1, !.calling = c]
    OBVIOUS
  <2>5. /\ value' = [value EXCEPT ![e] = new] /\ buffer' = buffer
        /\ told' = IF new # value[e] THEN [told EXCEPT ![e] = new] ELSE told
        /\ stack' = Append(Front(stack), g)
    BY <1>6, <2>1, <2>2, <2>3, <2>4 DEF SetValue, Continue, SetTop
  <2>6. g \in Frames /\ g.stage = "update" /\ g.step = Place(e) + 1
    <3>1. Place(e) + 1 \in 2..10
      BY <2>3
    <3>2. c \in {FALSE, TRUE} /\ Top \in Frames /\ Top.stage = "update"
      BY <1>1, <1>2, <2>2
    <3>3. [Top EXCEPT !.step = Place(e) + 1, !.calling = c] \in Frames
      BY <3>1, <3>2, UpdateGoesOn, Zenon
    <3>4. /\ [Top EXCEPT !.step = Place(e) + 1, !.calling = c].stage = "update"
          /\ [Top EXCEPT !.step = Place(e) + 1, !.calling = c].step = Place(e) + 1
      <4>1. Top \in [stage : {"update"}, step : 1..10, calling : BOOLEAN]
        BY <3>2, UpdateFrames
      <4> QED BY <4>1
    <3> QED BY <2>4, <3>3, <3>4, Zenon
  <2>7. ValuesOK' /\ value'[e] = Target(e, buffer)' /\ told'["dpad"] = told["dpad"]
        /\ \A x \in Elements : x # e => value'[x] = value[x]
    <3>1. ValuesOK /\ new \in Level /\ e # "dpad"
      BY <2>1 DEF ElementsInv, ValuesOK, Buffers, Target, Positive, Level,
                  Elements, Buttons
    <3> QED BY <2>1, <2>5, <3>1 DEF ValuesOK
  <2>8. \A x \in Elements \cup {"dpad"} : Stale(x)' => Stale(x) /\ x # e
    BY <2>5, <2>7 DEF Stale, Elements, Buttons
  <2>9. StaleIsDue'
    BY <1>1, <2>3, <2>5, <2>6, <2>8, StepDone
  <2> QED BY <1>3, <1>4, <2>5, <2>6, <2>7, <2>9 DEF ElementsInv
<1>7. CASE TellDpad
  <2>1. Top.step = Place("dpad") /\ Place("dpad") \in 2..9
    BY <1>1, <1>7, StepsInOrder DEF TellDpad, InUpdate
  <2>2. PICK g : g = [Top EXCEPT !.step = Place("dpad") + 1, !.calling = TRUE]
    OBVIOUS
  <2>3. /\ told' = [told EXCEPT !["dpad"] = <<buffer.DPadX, buffer.DPadY>>]
        /\ UNCHANGED <<buffer, value>> /\ stack' = Append(Front(stack), g)
    BY <1>7, <2>1, <2>2 DEF TellDpad, Continue, SetTop
  <2>4. g \in Frames /\ g.stage = "update" /\ g.step = Place("dpad") + 1
    <3>1. Place("dpad") + 1 \in 2..10 /\ TRUE \in {FALSE, TRUE}
      BY <2>1
    <3> QED BY <1>1, <1>2, <2>2, <3>1, UpdateGoesOn, ZenonT(60)
  <2>5. ValuesOK' /\ told'["dpad"] = <<buffer.DPadX, buffer.DPadY>>
    <3>1. /\ ValuesOK /\ "dpad" \notin Elements
          /\ <<buffer.DPadX, buffer.DPadY>> \in Level \X Level
      BY DEF ElementsInv, ValuesOK, Buffers, Level, Elements, Buttons
    <3> QED BY <2>3, <3>1 DEF ValuesOK
  <2>6. \A x \in Elements \cup {"dpad"} : Stale(x)' => Stale(x) /\ x # "dpad"
    BY <2>3, <2>5 DEF Stale
  <2>7. StaleIsDue'
    BY <1>1, <2>1, <2>3, <2>4, <2>6, StepDone
  <2> QED BY <1>3, <1>4, <2>3, <2>4, <2>5, <2>7 DEF ElementsInv
<1> QED BY <1>5, <1>6, <1>7 DEF ElementsNext

-----------------------------------------------------------------------------
(* Key events. *)

\* The frame of a hook.
LEMMA HookFrame ==
    ASSUME NEW f \in Frames, f.stage = "hook"
    PROVE  f \in [stage : {"hook"}, calls : 0..2, time : Int,
                  button : Keys \cup {NoButton}, up : BOOLEAN, calling : {FALSE}]
<1>1. CASE f \in [stage : {"update"}, step : {1}, calling : {FALSE}]
  BY <1>1
<1>2. CASE f \in [stage : {"update"}, step : 2..10, calling : BOOLEAN]
  BY <1>2
<1>3. CASE f \in [stage : {"connect", "pause"}, calling : {TRUE}]
  BY <1>3
<1> QED BY <1>1, <1>2, <1>3 DEF Frames

\* The frame of a hook after one more of its two calls.
LEMMA HookGoesOn ==
    ASSUME NEW f \in Frames, f.stage = "hook", f.calls < 2,
           NEW g, g = [f EXCEPT !.calls = f.calls + 1]
    PROVE  g \in Frames /\ g.stage = "hook"
<1> DEFINE H == [stage : {"hook"}, calls : 0..2, time : Int,
                 button : Keys \cup {NoButton}, up : BOOLEAN, calling : {FALSE}]
<1>1. f \in H
  BY HookFrame
<1>2. f.calls + 1 \in 0..2
  BY <1>1
<1>3. g \in H /\ g.stage = "hook"
  BY <1>1, <1>2
<1> QED BY <1>3 DEF Frames

\* A time stamp is always left that none of the key events under way has.
LEMMA FreshTimeStampIsFresh ==
    ASSUME FramesOK, Cardinality(HookFrames) < MaxNesting
    PROVE  /\ FreshTimeStamp \in 1..(MaxNesting + 2)
           /\ FreshTimeStamp # last_time_stamp
           /\ \A k \in HookFrames : stack[k].time # FreshTimeStamp
<1> DEFINE T == 1..(MaxNesting + 2)
           Used == {stack[k].time : k \in HookFrames}
           Taken == Used \cup {last_time_stamp}
<1>1. Len(stack) \in Nat /\ MaxNesting \in Nat
  BY DEF FramesOK
<1>2. IsFiniteSet(HookFrames) /\ Cardinality(HookFrames) \in Nat
  <2>1. IsFiniteSet(1..Len(stack))
    BY <1>1, FS_Interval
  <2>2. HookFrames \subseteq 1..Len(stack)
    BY DEF HookFrames
  <2> QED BY <2>1, <2>2, FS_Subset, FS_CardinalityType
<1>3. IsFiniteSet(Used) /\ Cardinality(Used) <= Cardinality(HookFrames)
  <2>1. PICK f : f = [k \in HookFrames |-> stack[k].time]
    OBVIOUS
  <2>2. f \in Surjection(HookFrames, Used)
    BY <2>1 DEF Surjection
  <2> QED BY <1>2, <2>2, FS_Surjection
<1>4. IsFiniteSet(Taken) /\ Cardinality(Taken) <= Cardinality(Used) + 1
  <2>1. Cardinality(Taken)
        = IF last_time_stamp \in Used THEN Cardinality(Used) ELSE Cardinality(Used) + 1
    BY <1>3, FS_AddElement
  <2>2. Cardinality(Used) \in Nat
    BY <1>3, FS_CardinalityType
  <2> QED BY <1>3, <2>1, <2>2, FS_AddElement
<1>5. IsFiniteSet(T) /\ Cardinality(T) = MaxNesting + 2
  BY <1>1, FS_Interval
<1>6. Cardinality(Used) \in Nat /\ Cardinality(Taken) \in Nat
  BY <1>3, <1>4, FS_CardinalityType
<1>7. Cardinality(Taken) < Cardinality(T)
  BY <1>1, <1>2, <1>3, <1>4, <1>5, <1>6
<1>8. ~(T \subseteq Taken)
  BY <1>4, <1>5, <1>6, <1>7, FS_Subset
<1>9. \E t \in T : t # last_time_stamp /\ \A k \in HookFrames : stack[k].time # t
  BY <1>8
<1> QED BY <1>9 DEF FreshTimeStamp

\* Code of the application does not run before an update has looked at the pad.
LEMMA AppAfterTest ==
    ASSUME ElementsInv, AppRuns PROVE ~AtTest
<1> SUFFICES ASSUME AtTest PROVE FALSE
  OBVIOUS
<1>1. Top \in Frames /\ stack # <<>> /\ Top.stage = "update" /\ Top.step = 1
  BY Popped DEF AtTest, ElementsInv, FramesOK, Top
<1>2. Top.calling = FALSE
  BY <1>1, UpdateFrames
<1> QED BY <1>1, <1>2 DEF AppRuns

\* Outside the keyboard build there is no hook, and nothing is left unapplied.
LEMMA NotAnUpdate ==
    ASSUME ElementsInv, stack # <<>>, Top.stage # "update"
    PROVE  build # "packets" /\ ~AtTest /\ stack \in Seq(Frames) /\ Top \in Frames
<1>1. stack \in Seq(Frames) /\ Top \in Frames /\ Top = stack[Len(stack)]
      /\ Len(stack) \in Nat \ {0}
  BY Popped DEF ElementsInv, FramesOK, Top
<1> QED BY <1>1 DEF ElementsInv, FramesOK, AtTest

\* The floats stay floats; two kinds of code leave them alone.
LEMMA StoredFloats ==
    ASSUME buffer \in Buffers, NEW b, NEW up
    PROVE  /\ Stored(b, up) \in Buffers
           /\ b \in {NoButton, "START"} => Stored(b, up) = buffer
BY DEF Stored, Buffers, NoButton

\* An element goes stale with its axis, or is A; or the axis was stale already.
LEMMA NewlyStale ==
    ASSUME buffer \in Buffers, buffer' \in Buffers, UNCHANGED <<value, told>>,
           NEW e \in Elements \cup {"dpad"}, Stale(e)'
    PROVE  \/ Stale(e) \/ e = "A" \/ Stale("xAxis")' \/ Stale("yAxis")'
           \/ Stale("xAxis")
           \/ Stale("yAxis") /\ Place(e) >= Place("yAxis")
BY DEF Stale, Target, Positive, Place, Elements, Buttons, Buffers

\* A state that was stored and is passed on: what is stale is due.
LEMMA PassedOnIsDue ==
    ASSUME ElementsInv, ~AtTest, buffer' \in Buffers, UNCHANGED <<value, told>>,
           unapplied => NoUpdateYet,
           NEW below \in Seq(Frames), \A e : Comes(stack, e) => Comes(below, e),
           stack' = Append(below, UpdateFrame)
    PROVE  StaleIsDue' /\ stack' \in Seq(Frames)
<1>1. UpdateFrame \in Frames /\ UpdateFrame.stage = "update" /\ UpdateFrame.step = 1
  BY DEF UpdateFrame, Frames
<1>2. stack' \in Seq(Frames) /\ AtTest' /\ \A e : Comes(below, e) => Comes(stack', e)
  BY <1>1, Pushed, ComesPushed DEF AtTest, Top
<1>3. ASSUME NEW e \in Elements \cup {"dpad"}, Stale(e)'
      PROVE  Comes(stack', e) \/ e = "A" \/ Stale("xAxis")' \/ Stale("yAxis")'
  <2>1. buffer \in Buffers /\ "xAxis" \in Elements /\ "yAxis" \in Elements
    BY DEF ElementsInv, ValuesOK, Elements
  <2>2. CASE unapplied
    BY <1>3, <2>1, <2>2 DEF NoUpdateYet, Stale, Target, Positive, Elements, Buttons, Buffers
  <2>3. CASE ~unapplied
    <3>1. \A x \in Elements \cup {"dpad"} : Stale(x) => Comes(stack', x)
      BY <1>2, <2>3 DEF ElementsInv, StaleIsDue, Due
    <3>2. /\ Place("xAxis") = 2 /\ Place("yAxis") = 5 /\ Place(e) \in 2..9
          /\ \A x \in Elements \cup {"dpad"} :
                Place(x) \in 2..9 /\ Place(x) <= Place(e) /\ Comes(stack', x)
                => Comes(stack', e)
      <4>1. Place("xAxis") = 2 /\ Place("yAxis") = 5
        BY DEF Place
      <4>2. ASSUME NEW x \in Elements \cup {"dpad"}, Place(x) \in 2..9,
                   Place(x) <= Place(e), Comes(stack', x)
            PROVE  Comes(stack', e)
        <5>1. 2..Place(x) \subseteq 2..Place(e)
          BY <4>2, StepsInOrder
        <5> QED BY <4>2, <5>1 DEF Comes
      <4> QED BY <4>1, <4>2, StepsInOrder
    <3>3. Stale("xAxis") => Comes(stack', e)
      BY <2>1, <3>1, <3>2
    <3>4. Stale("yAxis") /\ Place(e) >= Place("yAxis") => Comes(stack', e)
      BY <2>1, <3>1, <3>2
    <3> QED BY <1>3, <2>1, <3>1, <3>3, <3>4, NewlyStale
  <2> QED BY <2>2, <2>3
<1> QED BY <1>2, <1>3 DEF StaleIsDue, Due

\* A step that neither begins nor steps an update, nor stores anything.
LEMMA QuietStep ==
    ASSUME ElementsInv, ~AtTest, UNCHANGED <<buffer, value, told, unapplied, build>>,
           stack' \in Seq(Frames),
           build = "packets" => \A k \in 1..Len(stack') : stack'[k].stage = "update",
           \A e \in Elements \cup {"dpad"} : Comes(stack, e) => Comes(stack', e),
           NoUpdates(stack) => NoUpdates(stack'),
           ~listed' \/ ~handleSet' => ~listed \/ ~handleSet,
           ~initialized' => ~listed'
    PROVE  ElementsInv'
<1>1. ValuesOK' /\ FramesOK'
  BY DEF ElementsInv, ValuesOK, FramesOK
<1>2. PassedOn'
  BY DEF ElementsInv, PassedOn, NoUpdateYet
<1>3. ASSUME ~unapplied PROVE StaleIsDue'
  <2>1. \A e \in Elements \cup {"dpad"} : Stale(e) => Comes(stack', e)
    BY <1>3 DEF ElementsInv, StaleIsDue, Due
  <2>2. \A e : Stale(e)' <=> Stale(e)
    BY DEF Stale
  <2> QED BY <2>1, <2>2 DEF StaleIsDue, Due
<1> QED BY <1>1, <1>2, <1>3 DEF ElementsInv

\* The rest of Event: a code of a button is stored and passed on.
LEMMA HandleKeyKeeps ==
    ASSUME ElementsInv, build # "packets", ~AtTest,
           NEW below \in Seq(Frames), \A e : Comes(stack, e) => Comes(below, e),
           NoUpdates(stack) => NoUpdates(below),
           NEW b, NEW up, NEW handle, HandleKey(below, b, up, handle),
           UNCHANGED <<value, told, build, listed, initialized>>,
           handle <=> handleSet', handleSet => handleSet'
    PROVE  ElementsInv'
<1> DEFINE quiet == b \in {NoButton, "START"}
<1>1. /\ buffer' = Stored(b, up) /\ buffer' \in Buffers /\ (quiet => buffer' = buffer)
      /\ buffer \in Buffers
  BY StoredFloats DEF HandleKey, ElementsInv, ValuesOK
<1>2. unapplied' = IF quiet THEN unapplied ELSE ~(listed /\ handle)
  BY DEF HandleKey
<1>3. /\ Append(below, UpdateFrame) = below \o <<UpdateFrame>>
      /\ Append(below, CallingFrame("pause")) = below \o <<CallingFrame("pause")>>
      /\ below = below \o <<>>
  OBVIOUS
<1>4. CallingFrame("pause") \in Frames /\ CallingFrame("pause").stage # "update"
  BY DEF CallingFrame, Frames
<1>5. ~initialized' => ~listed'
  BY DEF ElementsInv, PassedOn
<1>6. CASE quiet
  <2>1. stack' = below \/ stack' = Append(below, CallingFrame("pause"))
    BY <1>3, <1>6 DEF HandleKey, NoButton
  <2>2. /\ stack' \in Seq(Frames) /\ \A e : Comes(stack, e) => Comes(stack', e)
        /\ NoUpdates(stack) => NoUpdates(stack')
    <3>1. CASE stack' = below
      BY <3>1
    <3>2. CASE stack' = Append(below, CallingFrame("pause"))
      BY <1>4, <3>2, Pushed, ComesPushed
    <3> QED BY <2>1, <3>1, <3>2
  <2> QED BY <1>1, <1>2, <1>5, <1>6, <2>2, QuietStep
<1>7. CASE ~quiet /\ listed /\ handle
  <2>1. stack' = Append(below, UpdateFrame)
    BY <1>3, <1>7 DEF HandleKey
  <2>2. unapplied => NoUpdateYet
    BY DEF ElementsInv, PassedOn
  <2>3. StaleIsDue' /\ stack' \in Seq(Frames)
    BY <1>1, <2>1, <2>2, PassedOnIsDue
  <2>4. PassedOn'
    BY <1>2, <1>5, <1>7 DEF PassedOn
  <2>5. ValuesOK' /\ FramesOK'
    BY <1>1, <2>3 DEF ElementsInv, ValuesOK, FramesOK
  <2> QED BY <2>3, <2>4, <2>5 DEF ElementsInv
<1>8. CASE ~quiet /\ ~(listed /\ handle)
  <2>1. stack' = below
    BY <1>3, <1>8 DEF HandleKey
  <2>2. NoUpdateYet /\ unapplied'
    BY <1>2, <1>8 DEF ElementsInv, PassedOn
  <2>3. PassedOn'
    BY <1>5, <2>1, <2>2 DEF PassedOn, NoUpdateYet
  <2>4. ValuesOK' /\ FramesOK'
    BY <1>1, <2>1 DEF ElementsInv, ValuesOK, FramesOK
  <2> QED BY <2>2, <2>3, <2>4 DEF ElementsInv
<1> QED BY <1>6, <1>7, <1>8

-----------------------------------------------------------------------------
(* The other steps. *)

\* A packet begins an update that everything it makes stale waits for.
LEMMA ReceiveKeeps ==
    ASSUME ElementsInv, NEW state \in Buffers, ReceivePacket(state)
    PROVE  ElementsInv'
<1>1. /\ build = "packets" /\ stack = <<>> /\ buffer' = state
      /\ stack' = Append(<<>>, UpdateFrame) /\ UNCHANGED <<value, told, build, unapplied>>
      /\ UNCHANGED <<initialized, listed>>
  BY DEF ReceivePacket, Push, keyboardVars
<1>2. <<>> \in Seq(Frames) /\ (\A e : Comes(stack, e) => Comes(<<>>, e)) /\ ~AtTest
  BY <1>1 DEF AtTest
<1>3. ~unapplied /\ PassedOn'
  BY <1>1 DEF ElementsInv, PassedOn
<1>4. buffer' \in Buffers
  BY <1>1
<1>5. StaleIsDue' /\ stack' \in Seq(Frames)
  BY <1>1, <1>2, <1>3, <1>4, PassedOnIsDue
<1>6. ValuesOK'
  BY <1>1, <1>4 DEF ElementsInv, ValuesOK
<1>7. Len(stack') = 1 /\ stack'[1].stage = "update"
  BY <1>1 DEF UpdateFrame
<1> QED BY <1>3, <1>5, <1>6, <1>7 DEF ElementsInv, FramesOK

\* A key event changes no element and no float yet.
LEMMA KeyKeeps ==
    ASSUME ElementsInv, NEW b \in Keys \cup {NoButton}, Key(b)
    PROVE  ElementsInv'
<1>1. PICK f : f = [stage |-> "hook", calls |-> 0, time |-> FreshTimeStamp,
                    button |-> b, up |-> b \in held, calling |-> FALSE]
  OBVIOUS
<1>2. /\ build = "icade" /\ AppRuns /\ stack' = Append(stack, f)
      /\ UNCHANGED <<buffer, value, told, unapplied, build>>
      /\ UNCHANGED <<listed, handleSet, initialized>>
  BY <1>1 DEF Key, Push
<1>3. FreshTimeStamp \in Int
  <2>1. FreshTimeStamp \in 1..(MaxNesting + 2) /\ MaxNesting \in Nat
    BY FreshTimeStampIsFresh DEF Key, ElementsInv
  <2> QED BY <2>1
<1>4. f \in Frames /\ f.stage # "update"
  <2>1. (b \in held) \in BOOLEAN
    OBVIOUS
  <2>2. f \in [stage : {"hook"}, calls : 0..2, time : Int, button : Keys \cup {NoButton},
               up : BOOLEAN, calling : {FALSE}]
    BY <1>1, <1>3, <2>1
  <2> QED BY <1>1, <2>2 DEF Frames
<1>5. ~AtTest /\ stack \in Seq(Frames) /\ (~initialized' => ~listed')
  BY <1>2, AppAfterTest DEF ElementsInv, FramesOK, PassedOn
<1> QED BY <1>2, <1>4, <1>5, Pushed, ComesPushed, QuietStep

\* A call of the hook connects the keyboard, or stores a code and passes it on.
LEMMA HookCallKeeps == ASSUME ElementsInv, HookCall PROVE ElementsInv'
<1>1. /\ stack # <<>> /\ Top.stage = "hook" /\ Top.calls < 2
      /\ UNCHANGED <<value, told, build, handleSet>>
  BY DEF HookCall
<1>2. build # "packets" /\ ~AtTest /\ stack \in Seq(Frames) /\ Top \in Frames
  BY <1>1, NotAnUpdate
<1>3. PICK g : g = [Top EXCEPT !.calls = Top.calls + 1]
  OBVIOUS
<1>4. PICK counted : counted = Append(Front(stack), g)
  OBVIOUS
<1>5. g \in Frames /\ g.stage = "hook"
  BY <1>1, <1>2, <1>3, HookGoesOn
<1>6. /\ counted \in Seq(Frames) /\ \A e : Comes(stack, e) => Comes(counted, e)
      /\ NoUpdates(stack) => NoUpdates(counted)
  BY <1>1, <1>2, <1>4, <1>5, ComesNext DEF Top
<1>7. \/ /\ ~initialized /\ initialized' = TRUE
         /\ stack' = Append(counted, CallingFrame("connect"))
         /\ UNCHANGED <<buffer, unapplied>>
      \/ /\ UNCHANGED <<initialized, listed>>
         /\ HandleKey(counted, Top.button, Top.up, handleSet)
      \/ /\ UNCHANGED <<initialized, listed, buffer, unapplied>>
         /\ stack' = counted
  BY <1>3, <1>4 DEF HookCall
<1>8. ~initialized => ~listed
  BY DEF ElementsInv, PassedOn
<1>9. CASE /\ ~initialized /\ initialized' = TRUE
           /\ stack' = Append(counted, CallingFrame("connect"))
           /\ UNCHANGED <<buffer, unapplied>>
  <2>1. CallingFrame("connect") \in Frames /\ CallingFrame("connect").stage # "update"
    BY DEF CallingFrame, Frames
  <2> QED BY <1>1, <1>2, <1>6, <1>8, <1>9, <2>1, Pushed, ComesPushed, QuietStep
<1>10. CASE /\ UNCHANGED <<initialized, listed>>
            /\ HandleKey(counted, Top.button, Top.up, handleSet)
  BY <1>1, <1>2, <1>6, <1>10, HandleKeyKeeps
<1>11. CASE UNCHANGED <<initialized, listed, buffer, unapplied>> /\ stack' = counted
  BY <1>1, <1>2, <1>6, <1>8, <1>11, QuietStep
<1> QED BY <1>7, <1>9, <1>10, <1>11

\* The code that connected the keyboard is stored and passed on.
LEMMA FinishConnectKeeps == ASSUME ElementsInv, FinishConnect PROVE ElementsInv'
<1>1. PICK hook : hook = Last(Front(stack))
  OBVIOUS
<1>2. /\ stack # <<>> /\ Top.stage = "connect" /\ handleSet' = TRUE
      /\ HandleKey(Front(stack), hook.button, hook.up, TRUE)
      /\ UNCHANGED <<value, told, build, listed, initialized>>
  BY <1>1 DEF FinishConnect
<1>3. build # "packets" /\ ~AtTest /\ stack \in Seq(Frames)
  BY <1>2, NotAnUpdate
<1>4. /\ Front(stack) \in Seq(Frames) /\ \A e : Comes(stack, e) => Comes(Front(stack), e)
      /\ NoUpdates(stack) => NoUpdates(Front(stack))
  BY <1>2, <1>3, Popped, ComesPopped DEF Top
<1> QED BY <1>2, <1>3, <1>4, HandleKeyKeeps

\* A frame that returns is not one that something stale waits for.
LEMMA ReturnKeeps == ASSUME ElementsInv, Return PROVE ElementsInv'
<1>1. /\ stack # <<>> /\ stack' = Front(stack)
      /\ UNCHANGED <<buffer, value, told, unapplied, build>>
      /\ UNCHANGED <<listed, handleSet, initialized>>
  BY DEF Return, UpdateDone, keyboardVars
<1>2. stack \in Seq(Frames) /\ Top \in Frames
  BY <1>1, Popped DEF ElementsInv, FramesOK, Top
<1>3. Top.stage # "update" \/ Top.step > 9
  BY StepsInOrder DEF Return, UpdateDone
<1>4. \A e \in Elements \cup {"dpad"} :
         Top.stage # "update" \/ Top.step \notin 2..Place(e)
  <2>1. Top.stage = "update" => Top.step \in 1..10
    BY <1>2, UpdateFrames
  <2> QED BY <1>3, <2>1, StepsInOrder
<1>5. ~AtTest
  <2>1. Top.stage = "update" => Top.step \in 1..10
    BY <1>2, UpdateFrames
  <2> QED BY <1>3, <2>1 DEF AtTest
<1>6. /\ stack' \in Seq(Frames)
      /\ \A e \in Elements \cup {"dpad"} : Comes(stack, e) => Comes(stack', e)
      /\ NoUpdates(stack) => NoUpdates(stack')
  BY <1>1, <1>2, <1>4, Popped, ComesPopped DEF Top
<1>7. build = "packets" => \A k \in 1..Len(stack') : stack'[k].stage = "update"
  <2>1. /\ Len(stack') = Len(stack) - 1 /\ Len(stack) \in Nat
        /\ \A k \in 1..Len(stack') : stack'[k] = stack[k]
    BY <1>1, <1>2, Popped
  <2> QED BY <2>1 DEF ElementsInv, FramesOK
<1>8. ~initialized => ~listed
  BY DEF ElementsInv, PassedOn
<1> QED BY <1>1, <1>5, <1>6, <1>7, <1>8, QuietStep

\* Every step keeps the invariant of the elements.
LEMMA NextElementsInv == ElementsInv /\ [Next]_vars => ElementsInv'
<1> SUFFICES ASSUME ElementsInv, [Next]_vars PROVE ElementsInv'
  OBVIOUS
<1>1. ASSUME NEW state \in Buffers, ReceivePacket(state) PROVE ElementsInv'
  BY <1>1, ReceiveKeeps
<1>2. CASE Startup
  <2>1. AppRuns /\ UNCHANGED elementVars /\ UNCHANGED <<unapplied, build>>
        /\ UNCHANGED <<listed, handleSet, initialized>>
    BY <1>2 DEF Startup
  <2>2. ~AtTest
    BY <2>1, AppAfterTest
  <2> QED BY <2>1, <2>2, QuietStep DEF elementVars, ElementsInv, FramesOK, PassedOn
<1>3. ASSUME NEW b \in Keys \cup {NoButton}, Key(b) PROVE ElementsInv'
  BY <1>3, KeyKeeps
<1>4. CASE HookCall
  BY <1>4, HookCallKeeps
<1>5. CASE FinishConnect
  BY <1>5, FinishConnectKeeps
<1>6. CASE Return
  BY <1>6, ReturnKeeps
<1>7. CASE ElementsNext /\ UNCHANGED <<build, keyboardVars>>
  BY <1>7, UpdateKeeps
<1>8. CASE UNCHANGED vars
  BY <1>8 DEF vars, elementVars, keyboardVars, ElementsInv, FramesOK, ValuesOK, PassedOn,
              NoUpdateYet, StaleIsDue, Stale, Due, AtTest, Top
<1> QED BY <1>1, <1>2, <1>3, <1>4, <1>5, <1>6, <1>7, <1>8 DEF Next

\* With no call under way nothing is due, so nothing is stale.
LEMMA ElementsInvGivesCurrent == ElementsInv => ElementsAreCurrent
<1> SUFFICES ASSUME ElementsInv PROVE ElementsAreCurrent
  OBVIOUS
<1>1. ElementsOK
  BY DEF ElementsInv, ValuesOK, ElementsOK, Level
<1>2. ASSUME stack = <<>>, ~unapplied PROVE ElementsShowBuffer
  <2>1. \A e \in Elements \cup {"dpad"} : ~Stale(e)
    BY <1>2 DEF ElementsInv, StaleIsDue, Due, Comes, AtTest
  <2>2. "dpad" \notin Elements
    BY DEF Elements, Buttons
  <2> QED BY <2>1, <2>2 DEF Stale, ElementsInv, ValuesOK, ElementsShowBuffer
<1> QED BY <1>1, <1>2 DEF ElementsAreCurrent

\* Between two updates the elements, and what their handlers were last told,
\* are those of the last state passed on: tweakUpdateButtons, begun any number
\* of times inside the handlers it calls, misses no change for good.
THEOREM ElementsAreRight == Spec => []ElementsAreCurrent
BY InitElementsInv, NextElementsInv, ElementsInvGivesCurrent, PTL DEF Spec

-----------------------------------------------------------------------------
(* The floats are those of the keys held. *)

\* Storing the code of b says nothing about the floats that StateIsHeld is about.
Apart(b) == InputOf(b) \in disturbed \cup {NoButton}

\* The code of b, of its release if up, is that of the keys held now.
OfHeld(b, up) == IF up THEN held \cap {b, Opposite(b)} = {} ELSE b \in held

\* The key events under way in a stack.  Only the topmost frame can be of one
\* that has still to make its first call, which will not be passed over.  One
\* in its first call has either met no other yet, so that its second call will be
\* passed over, or its input is among the disturbed.
HooksOK(st) ==
    \A k \in 1..Len(st) :
        /\ st[k].stage = "connect" =>
              k > 1 /\ st[k - 1].stage = "hook" /\ st[k - 1].calls = 1
        /\ st[k].stage = "hook" =>
              /\ st[k].calls = 0 => k = Len(st) /\ st[k].time # last_time_stamp
              /\ st[k].calls # 0 => initialized
              /\ st[k].calls = 1 =>
                    \/ Apart(st[k].button)
                    \/ /\ last_time_stamp = st[k].time
                       /\ \A j \in (k + 1)..Len(st) : st[j].stage # "hook"
              /\ st[k].calls # 2 =>
                    Apart(st[k].button) \/ OfHeld(st[k].button, st[k].up)

\* The code that will change the input i is still to be stored.
Pending(i) ==
    /\ stack # <<>>
    /\ \/ Top.stage = "hook" /\ Top.calls = 0 /\ i = InputOf(Top.button)
       \/ Top.stage = "connect" /\ i = InputOf(stack[Len(stack) - 1].button)

Inputs == {"DPadX", "DPadY", "A"}

FloatsOK ==
    build = "icade" =>
        \A i \in Inputs \ disturbed : buffer[i] = FloatsOf(held)[i] \/ Pending(i)

\* No direction pad is pushed two ways.
HeldOK == \A b \in held : Opposite(b) # b => Opposite(b) \notin held

StateInv == HooksOK(stack) /\ FloatsOK /\ HeldOK

\* The stored float is that of the keys held, and the others are left alone.
LEMMA StoredIsHeld ==
    ASSUME buffer \in Buffers, NEW b, NEW up \in BOOLEAN, NEW i \in Inputs
    PROVE  /\ HeldOK /\ OfHeld(b, up) /\ i = InputOf(b)
              => Stored(b, up)[i] = FloatsOf(held)[i]
           /\ i # InputOf(b) => Stored(b, up)[i] = buffer[i]
<1>1. ASSUME i # InputOf(b) PROVE Stored(b, up)[i] = buffer[i]
  BY <1>1 DEF Stored, InputOf, Buffers, Inputs
<1>2. ASSUME HeldOK, OfHeld(b, up), i = InputOf(b)
      PROVE  Stored(b, up)[i] = FloatsOf(held)[i]
  <2>1. \/ b = "UP" \/ b = "DOWN" \/ b = "LEFT" \/ b = "RIGHT" \/ b = "LW_LF"
    BY <1>2 DEF InputOf, Inputs, NoButton
  <2>2. up \/ Opposite(b) \notin held \/ Opposite(b) = b
    BY <1>2 DEF HeldOK, OfHeld
  <2>3. CASE b = "UP"
    BY <1>2, <2>2, <2>3 DEF Stored, FloatsOf, InputOf, Buffers, OfHeld, Opposite
  <2>4. CASE b = "DOWN"
    BY <1>2, <2>2, <2>4 DEF Stored, FloatsOf, InputOf, Buffers, OfHeld, Opposite
  <2>5. CASE b = "LEFT"
    BY <1>2, <2>2, <2>5 DEF Stored, FloatsOf, InputOf, Buffers, OfHeld, Opposite
  <2>6. CASE b = "RIGHT"
    BY <1>2, <2>2, <2>6 DEF Stored, FloatsOf, InputOf, Buffers, OfHeld, Opposite
  <2>7. CASE b = "LW_LF"
    BY <1>2, <2>7 DEF Stored, FloatsOf, InputOf, Buffers, OfHeld, Opposite
  <2> QED BY <2>1, <2>3, <2>4, <2>5, <2>6, <2>7
<1> QED BY <1>1, <1>2

\* A key changes the float of its own input only, and no direction is pushed two
\* ways.
LEMMA HeldChanges ==
    ASSUME NEW b \in Keys \cup {NoButton}, HeldOK, b \in held \/ Opposite(b) \notin held,
           held' = IF b = NoButton THEN held
                   ELSE IF b \in held THEN held \ {b} ELSE held \cup {b}
    PROVE  /\ HeldOK'
           /\ \A i \in Inputs : i # InputOf(b) => FloatsOf(held')[i] = FloatsOf(held)[i]
           /\ \A c, up : InputOf(c) \in Inputs /\ InputOf(c) # InputOf(b)
                       => (OfHeld(c, up)' <=> OfHeld(c, up))
           /\ \A up \in BOOLEAN :
                 InputOf(b) # NoButton /\ (up <=> b \in held) => OfHeld(b, up)'
<1>2. HeldOK'
  BY DEF HeldOK, Opposite, NoButton
<1>3. ASSUME NEW i \in Inputs, i # InputOf(b)
      PROVE  FloatsOf(held')[i] = FloatsOf(held)[i]
  <2>1. CASE i = "DPadX"
    <3>1. ("LEFT" \in held' <=> "LEFT" \in held) /\ ("RIGHT" \in held' <=> "RIGHT" \in held)
      BY <1>3, <2>1 DEF InputOf
    <3> QED BY <2>1, <3>1 DEF FloatsOf
  <2>2. CASE i = "DPadY"
    <3>1. ("UP" \in held' <=> "UP" \in held) /\ ("DOWN" \in held' <=> "DOWN" \in held)
      BY <1>3, <2>2 DEF InputOf
    <3> QED BY <2>2, <3>1 DEF FloatsOf
  <2>3. CASE i = "A"
    <3>1. "LW_LF" \in held' <=> "LW_LF" \in held
      BY <1>3, <2>3 DEF InputOf
    <3> QED BY <2>3, <3>1 DEF FloatsOf
  <2> QED BY <2>1, <2>2, <2>3 DEF Inputs
<1>4. ASSUME NEW c, NEW up, InputOf(c) \in Inputs, InputOf(c) # InputOf(b)
      PROVE  OfHeld(c, up)' <=> OfHeld(c, up)
  <2>1. b # c /\ b # Opposite(c)
    BY <1>4 DEF InputOf, Opposite, Inputs, NoButton
  <2> QED BY <2>1 DEF OfHeld
<1>5. ASSUME NEW up \in BOOLEAN, InputOf(b) # NoButton, up <=> b \in held
      PROVE  OfHeld(b, up)'
  BY <1>5 DEF InputOf, OfHeld, HeldOK, Opposite, NoButton
<1> QED BY <1>2, <1>3, <1>4, <1>5

\* No key event in st has still to make its first call.
NoneNew(st) == \A k \in 1..Len(st) : st[k].stage = "hook" => st[k].calls # 0

\* A call less leaves the key events below it as they were.
LEMMA HooksPopped ==
    ASSUME NEW S, NEW st \in Seq(S), st # <<>>, HooksOK(st)
    PROVE  HooksOK(Front(st)) /\ NoneNew(Front(st))
<1>1. PICK d : d = Front(st)
  OBVIOUS
<1>2. /\ Len(d) = Len(st) - 1 /\ Len(st) \in Nat \ {0}
      /\ \A k \in 1..Len(d) : d[k] = st[k]
  BY <1>1, Popped
<1>3. ASSUME NEW k \in 1..Len(d)
      PROVE  /\ k \in 1..Len(st) /\ k # Len(st) /\ d[k] = st[k]
             /\ k > 1 => d[k - 1] = st[k - 1]
             /\ \A j \in (k + 1)..Len(d) : j \in (k + 1)..Len(st) /\ d[j] = st[j]
  BY <1>2
<1>4. NoneNew(d)
  BY <1>3 DEF NoneNew, HooksOK
<1>5. HooksOK(d)
  <2>1. ASSUME NEW k \in 1..Len(d), d[k].stage = "connect"
        PROVE  k > 1 /\ d[k - 1].stage = "hook" /\ d[k - 1].calls = 1
    BY <1>3, <2>1 DEF HooksOK
  <2>2. ASSUME NEW k \in 1..Len(d), d[k].stage = "hook"
        PROVE  /\ d[k].calls # 0 /\ initialized
               /\ d[k].calls # 2 => Apart(d[k].button) \/ OfHeld(d[k].button, d[k].up)
    BY <1>3, <2>2 DEF HooksOK
  <2>3. ASSUME NEW k \in 1..Len(d), d[k].stage = "hook", d[k].calls = 1,
               ~Apart(d[k].button)
        PROVE  /\ last_time_stamp = d[k].time
               /\ \A j \in (k + 1)..Len(d) : d[j].stage # "hook"
    BY <1>3, <2>3 DEF HooksOK
  <2> QED BY <2>1, <2>2, <2>3 DEF HooksOK
<1> QED BY <1>1, <1>4, <1>5

\* Neither does a call more, if it is no key event.  It is said of the two
\* states of a step.
LEMMA HooksPushed ==
    ASSUME NEW S, NEW st \in Seq(S), NEW f \in S, NoneNew(st), f.stage # "hook",
           f.stage = "connect" =>
              st # <<>> /\ Last(st).stage = "hook" /\ Last(st).calls = 1
    PROVE  /\ HooksOK(st) => HooksOK(Append(st, f))
           /\ HooksOK(st)' => HooksOK(Append(st, f))'
<1>1. PICK d : d = Append(st, f)
  OBVIOUS
<1>2. /\ Len(d) = Len(st) + 1 /\ Len(st) \in Nat /\ d[Len(st) + 1] = f
      /\ \A k \in 1..Len(st) : d[k] = st[k]
      /\ st # <<>> => Len(st) \in Nat \ {0} /\ Last(st) = st[Len(st)]
  <2>1. st # <<>> => Len(st) \in Nat \ {0} /\ Last(st) = st[Len(st)]
    BY Popped
  <2> QED BY <1>1, <2>1, Pushed
<1>3. ASSUME NEW k \in 1..Len(d), k # Len(d)
      PROVE  /\ k \in 1..Len(st) /\ d[k] = st[k]
             /\ k > 1 => d[k - 1] = st[k - 1]
             /\ \A j \in (k + 1)..Len(d) :
                   (j \in (k + 1)..Len(st) /\ d[j] = st[j]) \/ d[j] = f
  BY <1>2, <1>3
<1>4. f.stage = "connect" =>
         Len(d) > 1 /\ d[Len(d) - 1].stage = "hook" /\ d[Len(d) - 1].calls = 1
  BY <1>2
<1>5. d[Len(d)] = f
  BY <1>2
<1>6. HooksOK(st) => HooksOK(d)
  BY <1>3, <1>4, <1>5 DEF HooksOK, NoneNew
<1>7. HooksOK(st)' => HooksOK(d)'
  BY <1>3, <1>4, <1>5, SMTT(30) DEF HooksOK, NoneNew, Apart, OfHeld
<1> QED BY <1>1, <1>6, <1>7

\* A step that leaves the keys and the floats alone, with none to be stored.
LEMMA FloatsStay ==
    ASSUME StateInv, UNCHANGED <<build, buffer, held, disturbed>>, \A i : ~Pending(i)
    PROVE  FloatsOK' /\ HeldOK'
BY DEF StateInv, FloatsOK, HeldOK

\* A step that leaves the key events alone, of a call of something else.
LEMMA OtherCallKeeps ==
    ASSUME StateInv, ElementsInv,
           UNCHANGED <<build, buffer, held, disturbed, last_time_stamp, initialized>>,
           stack # <<>>, Top.stage # "connect", Top.stage = "hook" => Top.calls # 0,
           NEW f \in Frames, f.stage \notin {"hook", "connect"},
           stack' \in {Front(stack), Append(Front(stack), f)}
    PROVE  StateInv'
<1>1. PICK d, e : d = Front(stack) /\ e = stack'
  OBVIOUS
<1>2. stack \in Seq(Frames) /\ HooksOK(stack)
  BY DEF ElementsInv, FramesOK, StateInv
<1>3. d \in Seq(Frames) /\ HooksOK(d) /\ NoneNew(d)
  BY <1>1, <1>2, Popped, HooksPopped
<1>4. e = d \/ e = Append(d, f)
  BY <1>1
<1>5. HooksOK(e)
  BY <1>3, <1>4, HooksPushed
<1>6. HooksOK(stack)'
  BY <1>1, <1>5 DEF HooksOK, Apart, OfHeld
<1>7. \A i : ~Pending(i)
  BY DEF Pending
<1> QED BY <1>6, <1>7, FloatsStay DEF StateInv

\* The rest of Event stores the code of a key held, or one of no account.
LEMMA HandleKeyFloats ==
    ASSUME StateInv, ElementsInv, NEW below, NEW b, NEW up \in BOOLEAN, NEW handle,
           HandleKey(below, b, up, handle), UNCHANGED <<build, held, disturbed>>,
           Apart(b) \/ OfHeld(b, up), \A i : Pending(i) => i = InputOf(b)
    PROVE  FloatsOK' /\ HeldOK'
<1>1. buffer \in Buffers /\ buffer' = Stored(b, up)
  BY DEF ElementsInv, ValuesOK, HandleKey
<1>2. ASSUME build = "icade", NEW i \in Inputs \ disturbed
      PROVE  buffer'[i] = FloatsOf(held)[i]
  <2>1. CASE i = InputOf(b)
    <3>1. OfHeld(b, up)
      BY <1>2, <2>1 DEF Apart, NoButton, Inputs
    <3> QED BY <1>1, <2>1, <3>1, StoredIsHeld DEF StateInv
  <2>2. CASE i # InputOf(b)
    <3>1. buffer[i] = FloatsOf(held)[i]
      BY <1>2, <2>2 DEF StateInv, FloatsOK
    <3> QED BY <1>1, <2>2, <3>1, StoredIsHeld
  <2> QED BY <2>1, <2>2
<1>3. UNCHANGED FloatsOf(held)
  BY DEF FloatsOf
<1> QED BY <1>2, <1>3 DEF FloatsOK, StateInv, HeldOK

\* It leaves a stack of key events as they were.
LEMMA HandleKeyHooks ==
    ASSUME NEW below \in Seq(Frames), HooksOK(below)', NoneNew(below),
           NEW b, NEW up, NEW handle, HandleKey(below, b, up, handle)
    PROVE  HooksOK(stack)'
<1>1. PICK e : e = stack'
  OBVIOUS
<1>2. /\ Append(below, UpdateFrame) = below \o <<UpdateFrame>>
      /\ Append(below, CallingFrame("pause")) = below \o <<CallingFrame("pause")>>
      /\ below = below \o <<>>
  OBVIOUS
<1>3. e \in {below, Append(below, UpdateFrame), Append(below, CallingFrame("pause"))}
  BY <1>1, <1>2 DEF HandleKey
<1>4. /\ UpdateFrame \in Frames /\ UpdateFrame.stage \notin {"hook", "connect"}
      /\ CallingFrame("pause") \in Frames
      /\ CallingFrame("pause").stage \notin {"hook", "connect"}
  BY DEF UpdateFrame, CallingFrame, Frames
<1>5. HooksOK(e)'
  <2>1. CASE e = below
    BY <2>1 DEF HooksOK, Apart, OfHeld
  <2>2. CASE e = Append(below, UpdateFrame)
    <3>1. HooksOK(Append(below, UpdateFrame))'
      BY <1>4, HooksPushed
    <3> QED BY <2>2, <3>1 DEF HooksOK, Apart, OfHeld
  <2>3. CASE e = Append(below, CallingFrame("pause"))
    <3>1. HooksOK(Append(below, CallingFrame("pause")))'
      BY <1>4, HooksPushed
    <3> QED BY <2>3, <3>1 DEF HooksOK, Apart, OfHeld
  <2> QED BY <1>3, <2>1, <2>2, <2>3
<1> QED BY <1>1, <1>5 DEF HooksOK, Apart, OfHeld

\* A key event begins.  Those in their first call are interrupted by it.
LEMMA KeyKeepsState ==
    ASSUME StateInv, ElementsInv, NEW b \in Keys \cup {NoButton}, Key(b)
    PROVE  StateInv'
<1>1. PICK f : f = [stage |-> "hook", calls |-> 0, time |-> FreshTimeStamp,
                    button |-> b, up |-> b \in held, calling |-> FALSE]
  OBVIOUS
<1>2. PICK e : e = stack'
  OBVIOUS
<1>3. /\ build = "icade" /\ AppRuns /\ e = Append(stack, f)
      /\ UNCHANGED <<build, buffer, last_time_stamp, initialized>>
      /\ disturbed' = (disturbed \ {InputOf(b)}) \cup Interrupted
  BY <1>1, <1>2 DEF Key, Push
<1>4. stack \in Seq(Frames) /\ Len(stack) \in Nat
  BY DEF ElementsInv, FramesOK
<1>5. f.stage = "hook" /\ f.calls = 0 /\ f.time # last_time_stamp
      /\ f.button = b /\ f.up \in BOOLEAN /\ (f.up <=> b \in held)
  <2>1. FreshTimeStamp # last_time_stamp
    BY FreshTimeStampIsFresh DEF Key, ElementsInv
  <2>2. f.up = (b \in held)
    BY <1>1, Zenon
  <2>3. f.up \in BOOLEAN /\ (f.up <=> b \in held)
    <3>1. (b \in held) \in BOOLEAN
      OBVIOUS
    <3>2. f.up \in BOOLEAN
      BY <2>2, <3>1, Zenon
    <3> QED BY <2>2, <3>2
  <2>4. f.stage = "hook" /\ f.calls = 0 /\ f.time = FreshTimeStamp /\ f.button = b
    BY <1>1, Zenon
  <2> QED BY <2>1, <2>3, <2>4
<1>6. /\ Len(e) = Len(stack) + 1 /\ e[Len(e)] = f
      /\ \A k \in 1..Len(stack) : e[k] = stack[k]
  <2>1. PICK n : n = Len(stack)
    OBVIOUS
  <2>2. Len(e) = n + 1 /\ e[n + 1] = f /\ \A k \in 1..n : e[k] = stack[k]
    BY <1>3, <1>4, <2>1
  <2> QED BY <2>1, <2>2
<1>7. stack # <<>> => Top.stage # "hook" /\ Top = stack[Len(stack)] /\ Len(stack) # 0
  <2>1. stack # <<>> =>
           Top \in Frames /\ Top.calling /\ Top = stack[Len(stack)] /\ Len(stack) # 0
    BY <1>3, <1>4, Popped DEF AppRuns, Top
  <2>2. \A g \in Frames : g.calling => g.stage # "hook"
    BY DEF Frames
  <2> QED BY <2>1, <2>2
<1>8. /\ HeldOK'
      /\ \A i \in Inputs : i # InputOf(b) => FloatsOf(held')[i] = FloatsOf(held)[i]
      /\ InputOf(b) # NoButton => OfHeld(b, f.up)'
  <2>1. HeldOK /\ (b \in held \/ Opposite(b) \notin held)
        /\ held' = IF b = NoButton THEN held
                   ELSE IF b \in held THEN held \ {b} ELSE held \cup {b}
    BY DEF StateInv, Key
  <2>2. PICK up : up = f.up
    OBVIOUS
  <2>3. up \in BOOLEAN /\ (up <=> b \in held)
    BY <1>5, <2>2
  <2>4. /\ HeldOK'
        /\ \A i \in Inputs : i # InputOf(b) => FloatsOf(held')[i] = FloatsOf(held)[i]
        /\ InputOf(b) # NoButton => OfHeld(b, up)'
    BY <2>1, <2>3, HeldChanges
  <2> QED BY <2>2, <2>4
<1>9. ASSUME NEW k \in 1..Len(stack), stack[k].stage = "hook"
      PROVE  /\ stack[k].calls # 0
             /\ stack[k].calls = 1 =>
                   InputOf(stack[k].button) \in Interrupted \cup {NoButton}
  <2>1. stack[k].calls # 0
    BY <1>4, <1>7, <1>9 DEF StateInv, HooksOK
  <2>2. ASSUME stack[k].calls = 1
        PROVE  InputOf(stack[k].button) \in Interrupted \cup {NoButton}
    BY <1>9, <2>2 DEF Interrupted, HookFrames
  <2> QED BY <2>1, <2>2
<1>10. HooksOK(e)'
  <2>1. ASSUME NEW k \in 1..Len(stack), stack[k].stage = "hook", stack[k].calls # 2
        PROVE  InputOf(stack[k].button) \in disturbed' \cup {NoButton}
    <3>1. stack[k] \in Frames
      BY <1>4
    <3>2. \A g \in Frames : g.stage = "hook" => g.calls \in 0..2
      BY DEF Frames
    <3>3. stack[k].calls = 1
      BY <1>9, <2>1, <3>1, <3>2
    <3>4. InputOf(stack[k].button) \in Interrupted \cup {NoButton}
      BY <1>9, <2>1, <3>3
    <3> QED BY <1>3, <3>4
  <2>2. ASSUME NEW k \in 1..Len(stack)
        PROVE  /\ e[k].stage = "connect" =>
                    k > 1 /\ e[k - 1].stage = "hook" /\ e[k - 1].calls = 1
               /\ e[k].stage = "hook" => e[k].calls # 0 /\ initialized'
    <3>1. e[k] = stack[k] /\ (k > 1 => e[k - 1] = stack[k - 1])
      BY <1>4, <1>6
    <3> QED BY <1>3, <1>9, <3>1 DEF StateInv, HooksOK
  <2>3. Apart(b)' \/ OfHeld(b, f.up)'
    BY <1>8 DEF Apart
  <2>4. ASSUME NEW k \in 1..Len(e), k # Len(e)
        PROVE  k \in 1..Len(stack) /\ e[k] = stack[k]
    BY <1>4, <1>6, <2>4
  <2>5. f.stage = "hook" /\ f.calls = 0 /\ f.time # last_time_stamp' /\ f.button = b
    BY <1>3, <1>5
  <2>6. ASSUME NEW k \in 1..Len(e), k # Len(e)
        PROVE  /\ e[k].stage = "connect" =>
                    k > 1 /\ e[k - 1].stage = "hook" /\ e[k - 1].calls = 1
               /\ e[k].stage = "hook" =>
                    /\ e[k].calls # 0 /\ initialized'
                    /\ e[k].calls # 2 => InputOf(e[k].button) \in disturbed' \cup {NoButton}
    BY <2>1, <2>2, <2>4, <2>6
  <2> QED BY <1>6, <2>3, <2>5, <2>6 DEF HooksOK, Apart, OfHeld
<1>11. FloatsOK'
  <2>1. ASSUME NEW i \in Inputs \ disturbed', i # InputOf(b)
        PROVE  buffer[i] = FloatsOf(held)[i]
    <3>1. i \notin disturbed /\ i \notin Interrupted /\ i # NoButton
      BY <1>3, <2>1 DEF Inputs, NoButton
    <3>2. ~Pending(i)
      <4>1. SUFFICES ASSUME Pending(i) PROVE FALSE
        OBVIOUS
      <4>2. /\ stack # <<>> /\ Top.stage = "connect"
            /\ i = InputOf(stack[Len(stack) - 1].button)
        BY <1>7, <4>1 DEF Pending
      <4>3. /\ Len(stack) - 1 \in 1..Len(stack) /\ stack[Len(stack) - 1].stage = "hook"
            /\ stack[Len(stack) - 1].calls = 1
        BY <1>4, <1>7, <4>2 DEF StateInv, HooksOK
      <4> QED BY <1>9, <3>1, <4>2, <4>3
    <3> QED BY <1>3, <2>1, <3>1, <3>2 DEF StateInv, FloatsOK
  <2>2. Pending(InputOf(b))'
    <3>1. e # <<>> /\ Last(e) = f
      BY <1>3, <1>4, <1>6 DEF Last
    <3> QED BY <1>2, <1>5, <3>1 DEF Pending, Top
  <2> QED BY <1>3, <1>8, <2>1, <2>2 DEF FloatsOK
<1>12. HooksOK(stack)'
  BY <1>2, <1>10 DEF HooksOK, Apart, OfHeld
<1> QED BY <1>8, <1>11, <1>12 DEF StateInv

\* A call of the hook.  The first is never passed over, and the second only if
\* no other key event came in between.
LEMMA HookCallKeepsState ==
    ASSUME StateInv, ElementsInv, HookCall
    PROVE  StateInv'
<1>1. PICK top : top = Top
  OBVIOUS
<1>2. PICK g : g = [top EXCEPT !.calls = top.calls + 1]
  OBVIOUS
<1>3. PICK d : d = Append(Front(stack), g)
  OBVIOUS
<1>4. /\ stack # <<>> /\ top.stage = "hook" /\ top.calls < 2
      /\ UNCHANGED <<build, held, disturbed>> /\ last_time_stamp' = top.time
  BY <1>1 DEF HookCall
<1>5. stack \in Seq(Frames) /\ top \in Frames
  BY <1>1, <1>4, NotAnUpdate
<1>6. /\ top.calls \in 0..2 /\ top.up \in BOOLEAN
      /\ g \in Frames /\ g.stage = "hook" /\ g.calls = top.calls + 1 /\ g.time = top.time
      /\ g.button = top.button /\ g.up = top.up
  <2>1. top \in [stage : {"hook"}, calls : 0..2, time : Int,
                 button : Keys \cup {NoButton}, up : BOOLEAN, calling : {FALSE}]
    BY <1>4, <1>5, HookFrame
  <2>2. g \in Frames /\ g.stage = "hook"
    BY <1>2, <1>4, <1>5, HookGoesOn
  <2>3. /\ g.calls = top.calls + 1 /\ g.time = top.time
        /\ g.button = top.button /\ g.up = top.up
    BY <1>2, <2>1
  <2> QED BY <2>1, <2>2, <2>3
<1>7. /\ Len(stack) \in Nat \ {0} /\ top = stack[Len(stack)] /\ Len(d) = Len(stack)
      /\ d[Len(d)] = g /\ d \in Seq(Frames)
      /\ \A k \in 1..Len(d) : k # Len(d) => d[k] = stack[k]
  <2>1. PICK c : c = Front(stack)
    OBVIOUS
  <2>2. /\ Len(stack) \in Nat \ {0} /\ top = stack[Len(stack)] /\ c \in Seq(Frames)
        /\ Len(c) = Len(stack) - 1 /\ \A k \in 1..Len(c) : c[k] = stack[k]
    BY <1>1, <1>4, <1>5, <2>1, Popped DEF Top
  <2>3. /\ Len(d) = Len(c) + 1 /\ d[Len(c) + 1] = g /\ d \in Seq(Frames)
        /\ \A k \in 1..Len(c) : d[k] = c[k]
    BY <1>3, <1>6, <2>1, <2>2, Pushed
  <2> QED BY <2>2, <2>3
<1>8. /\ top.calls = 0 => top.time # last_time_stamp
      /\ top.calls # 0 => initialized
      /\ top.calls = 1 => Apart(top.button) \/ last_time_stamp = top.time
      /\ Apart(top.button) \/ OfHeld(top.button, top.up)
  BY <1>4, <1>7 DEF StateInv, HooksOK
<1>9. \/ /\ last_time_stamp # top.time /\ ~initialized /\ initialized' = TRUE
         /\ stack' = Append(d, CallingFrame("connect")) /\ UNCHANGED buffer
      \/ /\ last_time_stamp # top.time /\ UNCHANGED initialized /\ initialized
         /\ HandleKey(d, top.button, top.up, handleSet)
      \/ /\ last_time_stamp = top.time /\ UNCHANGED <<initialized, buffer>> /\ stack' = d
  BY <1>1, <1>2, <1>3 DEF HookCall
<1>10. initialized'
  BY <1>6, <1>8, <1>9
<1>11. HooksOK(d)' /\ NoneNew(d)
  <2>1. ASSUME NEW k \in 1..Len(d), k # Len(d)
        PROVE  /\ d[k] = stack[k] /\ k \in 1..Len(stack) /\ k # Len(stack)
               /\ k > 1 => d[k - 1] = stack[k - 1]
               /\ d[k].stage = "hook" =>
                    /\ d[k].calls # 0
                    /\ d[k].calls # 2 => InputOf(d[k].button) \in disturbed \cup {NoButton}
    <3>1. /\ d[k] = stack[k] /\ k \in 1..Len(stack) /\ k # Len(stack)
          /\ k > 1 => d[k - 1] = stack[k - 1]
          /\ Len(stack) \in (k + 1)..Len(stack) /\ stack[Len(stack)].stage = "hook"
      BY <1>4, <1>7, <2>1
    <3>2. ASSUME d[k].stage = "hook"
          PROVE  /\ d[k].calls # 0
                 /\ d[k].calls # 2 => Apart(d[k].button)
      <4>1. d[k] \in Frames /\ d[k].calls \in 0..2
        <5>1. \A x \in Frames : x.stage = "hook" => x.calls \in 0..2
          BY DEF Frames
        <5> QED BY <1>7, <3>2, <5>1
      <4>2. d[k].calls # 0 /\ (d[k].calls = 1 => Apart(d[k].button))
        BY <3>1, <3>2 DEF StateInv, HooksOK
      <4> QED BY <4>1, <4>2
    <3> QED BY <3>1, <3>2 DEF Apart
  <2>2. NoneNew(d)
    BY <1>6, <1>7, <2>1 DEF NoneNew
  <2>3. ASSUME NEW k \in 1..Len(d), k # Len(d)
        PROVE  d[k].stage = "connect" =>
                    k > 1 /\ d[k - 1].stage = "hook" /\ d[k - 1].calls = 1
    BY <2>1, <2>3 DEF StateInv, HooksOK
  <2>4. g.calls # 2 => Apart(g.button)' \/ OfHeld(g.button, g.up)'
    BY <1>4, <1>6, <1>8 DEF Apart, OfHeld
  <2>5. HooksOK(d)'
    <3>1. /\ g.stage = "hook" /\ g.calls # 0 /\ last_time_stamp' = g.time
          /\ \A j \in (Len(d) + 1)..Len(d) : FALSE
      BY <1>4, <1>6, <1>7
    <3>2. UNCHANGED disturbed
      BY <1>4
    <3> QED BY <1>7, <1>10, <2>1, <2>3, <2>4, <3>1, <3>2 DEF HooksOK, Apart, OfHeld
  <2> QED BY <2>2, <2>5
<1>12. \A i : Pending(i) => i = InputOf(top.button) /\ top.calls = 0
  BY <1>1, <1>4 DEF Pending
<1>13. CASE /\ last_time_stamp # top.time /\ ~initialized /\ initialized' = TRUE
            /\ stack' = Append(d, CallingFrame("connect")) /\ UNCHANGED buffer
  <2>1. PICK e : e = stack'
    OBVIOUS
  <2>2. /\ CallingFrame("connect") \in Frames
        /\ CallingFrame("connect").stage = "connect"
    BY DEF CallingFrame, Frames
  <2>3. d # <<>> /\ Last(d) = g /\ g.calls = 1
    BY <1>6, <1>7, <1>8, <1>13 DEF Last
  <2>4. HooksOK(Append(d, CallingFrame("connect")))'
    BY <1>6, <1>7, <1>11, <2>2, <2>3, HooksPushed
  <2>5. HooksOK(stack)'
    BY <1>13, <2>4 DEF HooksOK, Apart, OfHeld
  <2>6. /\ e # <<>> /\ Last(e) = CallingFrame("connect") /\ Len(e) - 1 = Len(d)
        /\ e[Len(e) - 1] = g
    BY <1>7, <1>13, <2>1, <2>2, Pushed
  <2>7. Pending(InputOf(top.button))'
    <3>1. stack'[Len(stack') - 1].button = top.button
      BY <1>6, <2>1, <2>6
    <3>2. stack' # <<>> /\ Last(stack').stage = "connect"
      BY <2>1, <2>2, <2>6
    <3>3. PICK i : i = InputOf(top.button)
      OBVIOUS
    <3>4. i = InputOf(stack'[Len(stack') - 1].button)
      BY <3>1, <3>3
    <3> QED BY <3>2, <3>3, <3>4 DEF Pending, Top
  <2>8. FloatsOK'
    BY <1>4, <1>12, <1>13, <2>7 DEF StateInv, FloatsOK
  <2> QED BY <1>4, <2>5, <2>8 DEF StateInv, HeldOK
<1>14. CASE /\ last_time_stamp # top.time /\ UNCHANGED initialized /\ initialized
            /\ HandleKey(d, top.button, top.up, handleSet)
  <2>1. FloatsOK' /\ HeldOK'
    BY <1>4, <1>6, <1>8, <1>12, <1>14, HandleKeyFloats
  <2>2. HooksOK(stack)'
    BY <1>7, <1>11, <1>14, HandleKeyHooks
  <2> QED BY <2>1, <2>2 DEF StateInv
<1>15. CASE /\ last_time_stamp = top.time /\ UNCHANGED <<initialized, buffer>>
            /\ stack' = d
  <2>1. \A i : ~Pending(i)
    BY <1>8, <1>12, <1>15
  <2>2. FloatsOK' /\ HeldOK'
    BY <1>4, <1>15, <2>1, FloatsStay
  <2>3. HooksOK(stack)'
    BY <1>11, <1>15 DEF HooksOK, Apart, OfHeld
  <2> QED BY <2>2, <2>3 DEF StateInv
<1> QED BY <1>9, <1>13, <1>14, <1>15

\* The keyboard is connected, and the code that connected it is stored.
LEMMA FinishConnectKeepsState ==
    ASSUME StateInv, ElementsInv, FinishConnect
    PROVE  StateInv'
<1>1. PICK d, hook : d = Front(stack) /\ hook = Last(d)
  OBVIOUS
<1>2. /\ stack # <<>> /\ Top.stage = "connect"
      /\ HandleKey(d, hook.button, hook.up, TRUE)
      /\ UNCHANGED <<build, held, disturbed, last_time_stamp, initialized>>
  BY <1>1 DEF FinishConnect
<1>3. stack \in Seq(Frames) /\ HooksOK(stack)
  BY DEF ElementsInv, FramesOK, StateInv
<1>4. /\ d \in Seq(Frames) /\ HooksOK(d) /\ NoneNew(d) /\ Len(d) = Len(stack) - 1
      /\ Len(stack) \in Nat \ {0} /\ Top = stack[Len(stack)]
      /\ \A k \in 1..Len(d) : d[k] = stack[k]
  BY <1>1, <1>2, <1>3, Popped, HooksPopped DEF Top
<1>5. /\ hook = stack[Len(stack) - 1] /\ hook \in Frames /\ hook.stage = "hook"
      /\ hook.calls = 1 /\ Len(stack) - 1 \in 1..Len(stack)
  <2>1. /\ Len(stack) > 1 /\ stack[Len(stack) - 1].stage = "hook"
        /\ stack[Len(stack) - 1].calls = 1
    BY <1>2, <1>3, <1>4 DEF HooksOK
  <2>2. hook = d[Len(d)] /\ d[Len(d)] = stack[Len(stack) - 1] /\ d[Len(d)] \in Frames
    BY <1>1, <1>4, <2>1 DEF Last
  <2> QED BY <1>4, <2>1, <2>2
<1>6. Apart(hook.button) \/ OfHeld(hook.button, hook.up)
  BY <1>3, <1>5 DEF HooksOK
<1>7. hook.up \in BOOLEAN
  BY <1>5, HookFrame
<1>8. \A i : Pending(i) => i = InputOf(hook.button)
  BY <1>2, <1>5 DEF Pending
<1>9. FloatsOK' /\ HeldOK'
  BY <1>2, <1>6, <1>7, <1>8, HandleKeyFloats
<1>10. HooksOK(d)'
  BY <1>2, <1>4 DEF HooksOK, Apart, OfHeld
<1>11. HooksOK(stack)'
  BY <1>2, <1>4, <1>10, HandleKeyHooks
<1> QED BY <1>9, <1>11 DEF StateInv

\* At first no key is held.
LEMMA InitStateInv == Init => StateInv
<1> SUFFICES ASSUME Init PROVE StateInv
  OBVIOUS
<1>1. /\ stack = <<>> /\ held = {} /\ buffer = Rest
  BY DEF Init, ElementsInit
<1>2. \A i \in Inputs : buffer[i] = FloatsOf(held)[i]
  BY <1>1 DEF Rest, FloatsOf, Inputs
<1> QED BY <1>1, <1>2 DEF StateInv, HooksOK, FloatsOK, HeldOK

\* Every step keeps the invariant of the floats.
LEMMA NextStateInv == StateInv /\ ElementsInv /\ [Next]_vars => StateInv'
<1> SUFFICES ASSUME StateInv, ElementsInv, [Next]_vars PROVE StateInv'
  OBVIOUS
<1>1. ASSUME NEW state \in Buffers, ReceivePacket(state) PROVE StateInv'
  <2>1. /\ build = "packets" /\ build' = build /\ stack = <<>>
        /\ stack' = Append(<<>>, UpdateFrame)
        /\ UNCHANGED <<held, disturbed, last_time_stamp, initialized>>
    BY <1>1 DEF ReceivePacket, Push, keyboardVars
  <2>2. Len(stack') = 1 /\ stack'[1].stage = "update"
    BY <2>1 DEF UpdateFrame
  <2>3. HooksOK(stack)'
    BY <2>2 DEF HooksOK
  <2> QED BY <2>1, <2>3 DEF StateInv, FloatsOK, HeldOK
<1>2. CASE Startup
  BY <1>2 DEF Startup, elementVars, StateInv, HooksOK, Apart, OfHeld, FloatsOK, Pending, Top,
              HeldOK
<1>3. ASSUME NEW b \in Keys \cup {NoButton}, Key(b) PROVE StateInv'
  BY <1>3, KeyKeepsState
<1>4. CASE HookCall
  BY <1>4, HookCallKeepsState
<1>5. CASE FinishConnect
  BY <1>5, FinishConnectKeepsState
<1>6. CASE Return
  <2>1. /\ stack # <<>> /\ stack' = Front(stack)
        /\ Top.stage # "connect" /\ (Top.stage = "hook" => Top.calls # 0)
        /\ UNCHANGED <<build, buffer, held, disturbed, last_time_stamp, initialized>>
    BY <1>6 DEF Return, UpdateDone, keyboardVars
  <2>2. UpdateFrame \in Frames /\ UpdateFrame.stage \notin {"hook", "connect"}
    BY DEF UpdateFrame, Frames
  <2> QED BY <2>1, <2>2, OtherCallKeeps
<1>7. CASE ElementsNext /\ UNCHANGED <<build, keyboardVars>>
  <2>1. /\ stack # <<>> /\ Top.stage = "update" /\ Top.step \in 1..9
        /\ UNCHANGED <<build, buffer, held, disturbed, last_time_stamp, initialized>>
    <3>1. stack # <<>> /\ Top.stage = "update" /\ Top.step <= 9 /\ buffer' = buffer
      BY <1>7, StepsInOrder DEF ElementsNext, TestUnchanged, SetValue, TellDpad, InUpdate
    <3> QED BY <1>7, <3>1, UpdateIsPassedOn DEF keyboardVars
  <2>2. PICK n \in 2..10, c \in {FALSE, TRUE} :
            stack' = Append(Front(stack), [Top EXCEPT !.step = n, !.calling = c])
    <3>1. Top.step + 1 \in 2..10 /\ Len(Steps) \in 2..10
      BY <2>1, StepsInOrder
    <3>2. CASE TestUnchanged
      BY <3>1, <3>2 DEF TestUnchanged, Continue, SetTop
    <3>3. ASSUME NEW e \in Elements, SetValue(e)
          PROVE  \E c \in {FALSE, TRUE} : stack' = Append(Front(stack),
                     [Top EXCEPT !.step = Top.step + 1, !.calling = c])
      BY <3>3 DEF SetValue, Continue, SetTop
    <3>4. CASE TellDpad
      BY <3>1, <3>4 DEF TellDpad, Continue, SetTop
    <3> QED BY <1>7, <3>1, <3>2, <3>3, <3>4 DEF ElementsNext
  <2>3. Top \in Frames
    BY <2>1, UpdateIsPassedOn
  <2>4. PICK g : g = [Top EXCEPT !.step = n, !.calling = c]
    OBVIOUS
  <2>5. g \in Frames /\ g.stage = "update"
    <3>1. n \in 2..10 /\ c \in {FALSE, TRUE} /\ Top.stage = "update"
      BY <2>1, <2>2
    <3>2. [Top EXCEPT !.step = n, !.calling = c] \in Frames
      BY <2>3, <3>1, UpdateGoesOn, Zenon
    <3>3. [Top EXCEPT !.step = n, !.calling = c].stage = "update"
      <4>1. Top \in [stage : {"update"}, step : 1..10, calling : BOOLEAN]
        BY <2>3, <3>1, UpdateFrames
      <4> QED BY <3>1, <4>1
    <3> QED BY <2>4, <3>2, <3>3, Zenon
  <2>6. stack' \in {Front(stack), Append(Front(stack), g)}
    BY <2>2, <2>4
  <2> QED BY <2>1, <2>5, <2>6, OtherCallKeeps
<1>8. CASE UNCHANGED vars
  BY <1>8 DEF vars, elementVars, keyboardVars, StateInv, HooksOK, Apart, OfHeld, FloatsOK,
              Pending, Top, HeldOK
<1> QED BY <1>1, <1>2, <1>3, <1>4, <1>5, <1>6, <1>7, <1>8 DEF Next

\* With no call under way nothing is left to be stored.
LEMMA StateInvGivesHeld == StateInv /\ ElementsInv => StateIsHeld
<1> SUFFICES ASSUME StateInv, ElementsInv, build = "icade", stack = <<>>,
                    NEW i \in DOMAIN buffer \ disturbed
             PROVE  buffer[i] = FloatsOf(held)[i]
  BY DEF StateIsHeld
<1>1. i \in Inputs
  BY DEF ElementsInv, ValuesOK, Buffers, Inputs
<1> QED BY <1>1 DEF StateInv, FloatsOK, Pending

\* The comment on dataPacket, for the inputs whose last key event no other
\* interrupted: with no call under way the floats are those of the keys held,
\* although the hook is called twice for every event and tells the two
\* apart only by the time stamp of the last.
THEOREM FloatsAreThoseHeld == Spec => []StateIsHeld
BY InitElementsInv, NextElementsInv, InitStateInv, NextStateInv, StateInvGivesHeld,
   PTL DEF Spec
================================================================================
