--------------------------- MODULE DiscoveryProofs ---------------------------
(***************************************************************************)
(* Three properties of Discovery, for every number of calls of Start, when *)
(* the application's dealloc methods leave discovery alone.  The run       *)
(* discovery_dealloc shows that the second needs that assumption.          *)
(***************************************************************************)
EXTENDS Discovery, FiniteSetTheorems, SequenceTheorems, TLAPS

\* Only the topmost call can be one that runs no code of the application: the
\* calls below it are blocks that Stop called.
StackInv ==
    /\ stack \in Seq(Frames)
    /\ \A k \in 1..Len(stack) : stack[k].app <=> stack[k].op = "call"
    /\ \A k \in 1..(Len(stack) - 1) : stack[k].op = "call"

TypesInv ==
    /\ discoveryCompletionHandler \in Blocks \cup {nil}
    /\ starts \in 0..MaxStarts
    /\ called \in [Blocks -> Nat]
    /\ given \subseteq 1..starts /\ replaced \subseteq 1..starts

\* A block nobody was told about yet.
Fresh(b) == called[b] = 0 /\ b \notin replaced

\* The block that Stop would call, and the one that Start is about to copy,
\* are fresh; while Start copies, the variable names a replaced block.
FreshInv ==
    /\ ~Dangling => \/ discoveryCompletionHandler = nil
                    \/ /\ discoveryCompletionHandler \in 1..starts
                       /\ Fresh(discoveryCompletionHandler)
    /\ Dangling =>
          /\ \/ Top.block = nil
             \/ Top.block = starts /\ starts \in 1..MaxStarts /\ Fresh(starts)
          /\ discoveryCompletionHandler \in replaced \cup {nil}
    /\ \A b \in Blocks : b > starts => Fresh(b)

AnsweredInv ==
    /\ \A b \in Blocks : called[b] <= 1
    /\ \A b \in given :
          \/ Dangling /\ Top.block = b
          \/ discoveryCompletionHandler = b \/ b \in replaced \/ called[b] = 1

Inv == StackInv /\ TypesInv /\ FreshInv /\ AnsweredInv

-----------------------------------------------------------------------------
(* The stack. *)

\* What is left when the topmost frame is taken away.
LEMMA FrontOfStack ==
    ASSUME stack \in Seq(Frames), Len(stack) \in Nat \ {0}
    PROVE  /\ Front(stack) \in Seq(Frames)
           /\ Len(Front(stack)) = Len(stack) - 1
           /\ \A k \in 1..(Len(stack) - 1) : Front(stack)[k] = stack[k]
<1> DEFINE n == Len(stack) - 1
           front == Front(stack)
<1>1. n \in Nat /\ \A i \in 1..n : stack[i] \in Frames
  OBVIOUS
<1>2. front = SubSeq(stack, 1, n)
  BY DEF Front
<1> HIDE DEF n, front
<1>3. /\ front \in Seq(Frames)
      /\ Len(front) = IF 1 <= n THEN n - 1 + 1 ELSE 0
      /\ \A k \in 1..(n - 1 + 1) : front[k] = stack[1 + k - 1]
  BY <1>1, <1>2, SubSeqProperties
<1>4. Len(front) = n
  BY <1>1, <1>3
<1>5. ASSUME NEW k \in 1..n PROVE front[k] = stack[k]
  <2>1. k \in 1..(n - 1 + 1) /\ 1 + k - 1 = k
    BY <1>1
  <2> QED BY <1>3, <2>1
<1> QED BY <1>3, <1>4, <1>5 DEF n, front

\* A call made by code of the application keeps StackInv.
LEMMA PushKeepsStack ==
    ASSUME StackInv, AppRuns, NEW frame \in Frames,
           frame.app <=> frame.op = "call", Push(frame)
    PROVE  /\ StackInv' /\ stack' # <<>> /\ Top' = frame
           /\ \A op, b : FramesOf(op, b)' = FramesOf(op, b) \cup
                 IF frame.op = op /\ frame.block = b THEN {Len(stack) + 1} ELSE {}
<1>1. /\ Len(stack') = Len(stack) + 1 /\ stack' \in Seq(Frames)
      /\ \A k \in 1..Len(stack) : stack'[k] = stack[k]
      /\ stack'[Len(stack) + 1] = frame
  BY DEF Push, StackInv
<1>2. \A k \in 1..Len(stack) : stack[k].op = "call"
  <2>1. stack # <<>> => stack[Len(stack)].app
    BY DEF AppRuns, Top, Last
  <2> QED BY <2>1 DEF StackInv
<1>3. StackInv'
  BY <1>1, <1>2 DEF StackInv
<1>4. Len(stack) \in Nat
  BY DEF StackInv
<1>5. ASSUME NEW op, NEW b
      PROVE  FramesOf(op, b)' = FramesOf(op, b) \cup
                 IF frame.op = op /\ frame.block = b THEN {Len(stack) + 1} ELSE {}
  BY <1>1, <1>4 DEF FramesOf
<1> QED BY <1>1, <1>3, <1>4, <1>5 DEF Top, Last

\* A return to the caller keeps StackInv and leaves no call of Start.
LEMMA PopKeepsStack ==
    ASSUME StackInv, stack # <<>>, Pop
    PROVE  /\ StackInv' /\ ~Dangling'
           /\ \A b : Top.op # "call" => FramesOf("call", b)' = FramesOf("call", b)
<1>1. Len(stack) \in Nat \ {0}
  BY DEF StackInv
<1>2. /\ Len(stack') = Len(stack) - 1 /\ stack' \in Seq(Frames)
      /\ \A k \in 1..(Len(stack) - 1) : stack'[k] = stack[k]
  BY <1>1, FrontOfStack DEF Pop, StackInv
<1>3. StackInv'
  BY <1>1, <1>2 DEF StackInv
<1>4. stack' # <<>> => stack'[Len(stack')].op = "call"
  BY <1>1, <1>2 DEF StackInv
<1>5. ASSUME NEW b, Top.op # "call"
      PROVE  FramesOf("call", b)' = FramesOf("call", b)
  BY <1>1, <1>2, <1>5 DEF FramesOf, Top, Last
<1> QED BY <1>3, <1>4, <1>5 DEF Dangling, Top, Last

\* Code of the application runs only when Start is not at work.
LEMMA AppRunsOutsideStart ==
    ASSUME StackInv, AppRuns PROVE ~Dangling
BY DEF StackInv, AppRuns, Dangling, Top, Last

-----------------------------------------------------------------------------
(* The invariant. *)

\* Before the first call nothing runs and every block is fresh.
LEMMA InitInv == Init => Inv
<1> SUFFICES ASSUME Init PROVE Inv
  OBVIOUS
<1>1. StackInv /\ ~Dangling
  BY DEF Init, StackInv, Dangling
<1>2. TypesInv
  BY DiscoveryAssumption DEF Init, TypesInv
<1> QED BY <1>1, <1>2 DEF Init, Inv, FreshInv, AnsweredInv, Fresh, Blocks

\* Start puts a fresh block on the stack and gives up the one it replaces.
LEMMA StartKeepsInv ==
    ASSUME Inv, Start, ~DeallocCallsBack PROVE Inv'
<1>1. PICK block \in {nil, starts + 1} :
        /\ given' = given \cup ({block} \ {nil})
        /\ Push(Frame("start", block, Deallocates(discoveryCompletionHandler)))
  BY DEF Start
<1> DEFINE frame == Frame("start", block, FALSE)
<1>2. starts \in Nat /\ starts + 1 <= MaxStarts /\ MaxStarts \in Nat
  BY DiscoveryAssumption DEF Start, Inv, TypesInv
<1>3. Push(frame)
  BY <1>1 DEF Deallocates
<1>4. /\ frame \in Frames /\ (frame.app <=> frame.op = "call")
      /\ frame.op = "start" /\ frame.block = block
  BY <1>2 DEF Frame, Frames, Blocks, nil
<1>5. StackInv' /\ stack' # <<>> /\ Top' = frame
  <2> HIDE DEF frame
  <2> QED BY <1>3, <1>4, PushKeepsStack DEF Inv, Start
<1>6. Dangling' /\ Top'.block = block
  BY <1>4, <1>5 DEF Dangling
<1>7. ~Dangling
  BY AppRunsOutsideStart DEF Inv, Start
<1>8. /\ starts' = starts + 1 /\ called' = called
      /\ discoveryCompletionHandler' = discoveryCompletionHandler
      /\ replaced' = replaced \cup ({discoveryCompletionHandler} \ {nil})
  BY DEF Start
<1>9. discoveryCompletionHandler = nil \/ discoveryCompletionHandler \in 1..starts
  BY <1>7 DEF Inv, FreshInv
<1>10. TypesInv'
  <2>1. given' \subseteq 1..starts'
    BY <1>1, <1>2, <1>8 DEF Inv, TypesInv, nil
  <2>2. replaced' \subseteq 1..starts'
    <3> SUFFICES ASSUME NEW b \in replaced' PROVE b \in 1..(starts + 1)
      BY <1>8
    <3>1. b \in replaced \/ (b = discoveryCompletionHandler /\ b # nil)
      BY <1>8
    <3>2. b \in 1..starts
      BY <1>9, <3>1 DEF Inv, TypesInv
    <3> QED BY <1>2, <3>2
  <2>3. starts' \in 0..MaxStarts
    BY <1>2, <1>8
  <2> QED BY <1>8, <2>1, <2>2, <2>3 DEF Inv, TypesInv
<1>11. \A b \in Blocks : b > starts => called'[b] = 0 /\ b \notin replaced'
  BY <1>2, <1>8, <1>9 DEF Inv, FreshInv, Fresh, Blocks, nil
<1>12. starts + 1 \in Blocks /\ starts + 1 > starts
  BY <1>2 DEF Blocks
<1>13. FreshInv'
  <2>1. \/ Top'.block = nil
        \/ Top'.block = starts' /\ starts' \in 1..MaxStarts /\ Fresh(starts)'
    BY <1>1, <1>2, <1>6, <1>8, <1>11, <1>12 DEF Fresh
  <2>2. discoveryCompletionHandler' \in replaced' \cup {nil}
    BY <1>8
  <2>3. (\A b \in Blocks : b > starts => Fresh(b))'
    BY <1>2, <1>8, <1>11 DEF Fresh, Blocks
  <2> QED BY <1>6, <2>1, <2>2, <2>3 DEF FreshInv
<1>14. AnsweredInv'
  BY <1>1, <1>6, <1>7, <1>8 DEF Inv, AnsweredInv, TypesInv, nil
<1> QED BY <1>5, <1>10, <1>13, <1>14 DEF Inv

\* The new block takes the place of the replaced one.
LEMMA FinishStartKeepsInv ==
    ASSUME Inv, FinishStart PROVE Inv'
<1>1. StackInv' /\ ~Dangling'
  BY PopKeepsStack DEF Inv, FinishStart
<1>2. Dangling
  BY DEF FinishStart, Dangling
<1>3. /\ discoveryCompletionHandler' = Top.block
      /\ UNCHANGED <<starts, given, replaced, called>>
  BY DEF FinishStart, Copied
<1>4. \/ Top.block = nil
      \/ Top.block = starts /\ starts \in 1..MaxStarts /\ Fresh(starts)
  BY <1>2 DEF Inv, FreshInv
<1>5. TypesInv'
  BY <1>3, <1>4 DEF Inv, TypesInv, Blocks
<1>6. FreshInv'
  BY <1>1, <1>3, <1>4 DEF Inv, FreshInv, Fresh, TypesInv
<1>7. AnsweredInv'
  BY <1>2, <1>3 DEF Inv, AnsweredInv, FreshInv, TypesInv, nil
<1> QED BY <1>1, <1>5, <1>6, <1>7 DEF Inv

\* Stop consumes the block before it calls it.
LEMMA StopKeepsInv ==
    ASSUME Inv, Stop PROVE Inv'
<1> DEFINE b == discoveryCompletionHandler
           frame == Frame("call", b, TRUE)
<1>1. ~Dangling
  BY AppRunsOutsideStart DEF Inv, Stop
<1>2. b \in Blocks /\ b \in 1..starts /\ Fresh(b) /\ b # nil
  BY <1>1 DEF Inv, FreshInv, TypesInv, Stop
<1>3. /\ frame \in Frames /\ (frame.app <=> frame.op = "call")
      /\ frame.op # "start"
  BY <1>2 DEF Frame, Frames
<1>4. StackInv' /\ stack' # <<>> /\ Top' = frame
  <2> HIDE DEF frame
  <2>1. Push(frame)
    BY DEF Stop, frame
  <2> QED BY <1>3, <2>1, PushKeepsStack DEF Inv, Stop
<1>5. ~Dangling'
  BY <1>3, <1>4 DEF Dangling
<1>6. /\ discoveryCompletionHandler' = nil
      /\ called' = [called EXCEPT ![b] = @ + 1]
      /\ UNCHANGED <<starts, given, replaced>>
  BY DEF Stop, HandlerInCall
<1>7. called'[b] = 1 /\ \A c \in Blocks \ {b} : called'[c] = called[c]
  BY <1>2, <1>6 DEF Inv, TypesInv, Fresh
<1>8. TypesInv'
  BY <1>2, <1>6 DEF Inv, TypesInv
<1>9. FreshInv'
  BY <1>2, <1>5, <1>6, <1>7, <1>8 DEF Inv, FreshInv, Fresh, TypesInv, Blocks
<1>10. given \subseteq Blocks
  BY DiscoveryAssumption DEF Inv, TypesInv, Blocks
<1>11. AnsweredInv'
  BY <1>1, <1>2, <1>6, <1>7, <1>10 DEF Inv, AnsweredInv
<1> QED BY <1>4, <1>8, <1>9, <1>11 DEF Inv

\* The frame of a call becomes one of a release.
LEMMA ReturnKeepsStack ==
    ASSUME StackInv, Return, ~DeallocCallsBack
    PROVE  /\ StackInv' /\ ~Dangling'
           /\ \A b : FramesOf("call", b)' = FramesOf("call", b) \ {Len(stack)}
<1> DEFINE frame == Frame("release", Top.block, FALSE)
<1>1. Len(stack) \in Nat \ {0} /\ Top \in Frames
  BY DEF StackInv, Return, Top, Last
<1>2. /\ frame \in Frames /\ (frame.app <=> frame.op = "call")
      /\ frame.op # "start" /\ frame.op # "call"
  BY <1>1 DEF Frame, Frames
<1>3. stack' = Append(Front(stack), frame)
  BY DEF Return, Deallocates
<1> HIDE DEF frame
<1>4. /\ Len(stack') = Len(stack) /\ stack' \in Seq(Frames)
      /\ \A k \in 1..(Len(stack) - 1) : stack'[k] = stack[k]
      /\ stack'[Len(stack)] = frame
  <2> DEFINE front == Front(stack)
  <2>1. /\ front \in Seq(Frames) /\ Len(front) = Len(stack) - 1
        /\ \A k \in 1..(Len(stack) - 1) : front[k] = stack[k]
    BY <1>1, FrontOfStack DEF StackInv
  <2>2. stack' = Append(front, frame)
    BY <1>3
  <2> HIDE DEF front
  <2> QED BY <1>1, <1>2, <2>1, <2>2
<1>5. StackInv' /\ ~Dangling'
  BY <1>1, <1>2, <1>4 DEF StackInv, Dangling, Top, Last
<1>6. ASSUME NEW b
      PROVE  FramesOf("call", b)' = FramesOf("call", b) \ {Len(stack)}
  BY <1>1, <1>2, <1>4 DEF FramesOf
<1> QED BY <1>5, <1>6

\* The return of a block changes nothing but the stack.
LEMMA ReturnKeepsInv ==
    ASSUME Inv, Return, ~DeallocCallsBack PROVE Inv'
<1>1. StackInv' /\ ~Dangling'
  BY ReturnKeepsStack DEF Inv
<1>2. ~Dangling
  BY DEF Return, Dangling
<1>3. UNCHANGED <<discoveryCompletionHandler, starts, given, replaced, called>>
  BY DEF Return, HandlerAfterCall
<1> QED BY <1>1, <1>2, <1>3
        DEF Inv, TypesInv, FreshInv, AnsweredInv, Fresh

\* Nor does the end of a release.
LEMMA FinishStopKeepsInv ==
    ASSUME Inv, FinishStop PROVE Inv'
<1>1. StackInv' /\ ~Dangling'
  BY PopKeepsStack DEF Inv, FinishStop
<1>2. ~Dangling
  BY DEF FinishStop, Dangling
<1> QED BY <1>1, <1>2
        DEF FinishStop, Inv, TypesInv, FreshInv, AnsweredInv, Fresh

\* The invariant holds of every behaviour in which dealloc methods do not call
\* back.
LEMMA Invariance ==
    ASSUME ~DeallocCallsBack PROVE Spec => []Inv
<1>1. Inv /\ [Next]_vars => Inv'
  <2> SUFFICES ASSUME Inv, [Next]_vars PROVE Inv'
    OBVIOUS
  <2>1. CASE Start       BY <2>1, StartKeepsInv
  <2>2. CASE FinishStart BY <2>2, FinishStartKeepsInv
  <2>3. CASE Stop        BY <2>3, StopKeepsInv
  <2>4. CASE Return      BY <2>4, ReturnKeepsInv
  <2>5. CASE FinishStop  BY <2>5, FinishStopKeepsInv
  <2>6. CASE UNCHANGED vars
    BY <2>6 DEF vars, Inv, StackInv, TypesInv, FreshInv, AnsweredInv, Fresh,
                Dangling, Top
  <2> QED BY <2>1, <2>2, <2>3, <2>4, <2>5, <2>6 DEF Next
<1> QED BY <1>1, InitInv, PTL DEF Spec

-----------------------------------------------------------------------------
\* No completion is dropped or called twice, for any number of discoveries
\* started inside one another.
THEOREM BlocksAreAnswered ==
    ASSUME ~DeallocCallsBack PROVE Spec => []EveryBlockIsAnswered
<1>1. Inv => EveryBlockIsAnswered
  <2> SUFFICES ASSUME Inv, NEW b \in given, Dangling, Top.block = b
               PROVE  FramesOf("start", b) # {}
    BY DEF Inv, AnsweredInv, EveryBlockIsAnswered
  <2>1. Len(stack) \in 1..Len(stack)
    BY DEF Inv, StackInv, Dangling
  <2> QED BY <2>1 DEF FramesOf, Dangling, Top, Last
<1> QED BY <1>1, Invariance, PTL

\* The replaced handler will never be called, as the comment in
\* StartWirelessControllerDiscovery has it.
THEOREM ReplacedStaysSilent ==
    ASSUME ~DeallocCallsBack PROVE Spec => ReplacedIsNeverCalled
<1>1. Inv /\ [Next]_vars => [\A b \in replaced : called'[b] = called[b]]_vars
  <2> SUFFICES ASSUME Inv, Next, NEW b \in replaced
               PROVE  called'[b] = called[b]
    OBVIOUS
  <2>1. CASE Stop
    <3>1. discoveryCompletionHandler # b
      BY <2>1, AppRunsOutsideStart DEF Inv, FreshInv, Fresh, Stop
    <3>2. called' = [called EXCEPT ![discoveryCompletionHandler] = @ + 1]
      BY <2>1 DEF Stop
    <3>3. b \in Blocks
      BY DiscoveryAssumption DEF Inv, TypesInv, Blocks
    <3> QED BY <3>1, <3>2, <3>3 DEF Inv, TypesInv
  <2>2. CASE ~Stop
    BY <2>2 DEF Next, Start, FinishStart, Return, FinishStop
  <2> QED BY <2>1, <2>2
<1> QED BY <1>1, Invariance, PTL DEF Spec, ReplacedIsNeverCalled

-----------------------------------------------------------------------------
(* The references. *)

\* One reference for the variable, unless Start has just released it.
Held(b) == IF b = discoveryCompletionHandler /\ ~Dangling THEN 1 ELSE 0

Calls(b) == FramesOf("call", b)

\* The references are those OwnedOnce counts; a block that was never called
\* has no call under way.
RefsInv ==
    /\ refs \in [Blocks -> Nat]
    /\ \A b \in Blocks : refs[b] = Held(b) + Cardinality(Calls(b))
    /\ \A b \in Blocks : called[b] = 0 => Calls(b) = {}
    /\ discoveryCompletionHandler \in given \cup {nil}
    /\ Dangling => Top.block \in given \cup {nil}
    /\ replaced \subseteq given

\* The calls of a block can be counted.
LEMMA CallsAreFinite ==
    ASSUME StackInv, NEW b
    PROVE  IsFiniteSet(Calls(b)) /\ Cardinality(Calls(b)) \in Nat
<1>1. IsFiniteSet(1..Len(stack))
  BY FS_Interval DEF StackInv
<1>2. Calls(b) \in SUBSET (1..Len(stack))
  BY DEF Calls, FramesOf
<1> QED BY <1>1, <1>2, FS_Subset, FS_CardinalityType

\* The handler of a running discovery and a block about to be copied have no
\* calls under way.
LEMMA NoCallsOfFresh ==
    ASSUME Inv, RefsInv, NEW b \in Blocks, Fresh(b)
    PROVE  Calls(b) = {} /\ Cardinality(Calls(b)) = 0
BY FS_EmptySet DEF RefsInv, Fresh

\* Start releases the one reference of the block it replaces.
LEMMA StartKeepsRefs ==
    ASSUME Inv, RefsInv, Start, ~DeallocCallsBack PROVE RefsInv'
<1>1. PICK block \in {nil, starts + 1} :
        /\ given' = given \cup ({block} \ {nil})
        /\ Push(Frame("start", block, Deallocates(discoveryCompletionHandler)))
  BY DEF Start
<1> DEFINE frame == Frame("start", block, FALSE)
           h == discoveryCompletionHandler
<1>2. starts \in Nat /\ starts + 1 <= MaxStarts /\ MaxStarts \in Nat
  BY DiscoveryAssumption DEF Start, Inv, TypesInv
<1>3. Push(frame)
  BY <1>1 DEF Deallocates
<1>4. /\ frame \in Frames /\ (frame.app <=> frame.op = "call")
      /\ frame.op = "start" /\ frame.block = block
  BY <1>2 DEF Frame, Frames, Blocks, nil
<1>5. /\ stack' # <<>> /\ Top' = frame /\ AppRuns
      /\ \A b : Calls(b)' = Calls(b)
  <2> HIDE DEF frame
  <2>1. AppRuns
    BY DEF Start
  <2>2. /\ stack' # <<>> /\ Top' = frame
        /\ \A b : FramesOf("call", b)' = FramesOf("call", b) \cup
                      IF frame.op = "call" /\ frame.block = b
                      THEN {Len(stack) + 1} ELSE {}
    BY <1>3, <1>4, <2>1, PushKeepsStack DEF Inv
  <2>3. \A b : FramesOf("call", b)' = FramesOf("call", b)
    BY <1>4, <2>2
  <2> QED BY <2>1, <2>2, <2>3 DEF Calls
<1>6. Dangling' /\ Top'.block = block
  BY <1>4, <1>5 DEF Dangling
<1>7. ~Dangling
  BY <1>5, AppRunsOutsideStart DEF Inv
<1>8. /\ called' = called /\ h' = h
      /\ replaced' = replaced \cup ({h} \ {nil})
      /\ refs' = IF h # nil /\ refs[h] > 0 THEN [refs EXCEPT ![h] = @ - 1]
                 ELSE refs
  BY DEF Start, Release
<1>9. h \in Blocks => refs[h] > 0
  BY <1>7, CallsAreFinite DEF Inv, RefsInv, Held
<1>10. h \in Blocks \cup {nil} /\ nil \notin Blocks
  BY DEF Inv, TypesInv, Blocks, nil
<1>11. refs' \in [Blocks -> Nat]
  BY <1>8, <1>10 DEF RefsInv
<1>12. ASSUME NEW b \in Blocks
       PROVE  refs'[b] = Held(b)' + Cardinality(Calls(b)')
  <2>1. Calls(b)' = Calls(b) /\ Held(b)' = 0 /\ Cardinality(Calls(b)) \in Nat
    BY <1>5, <1>6, CallsAreFinite DEF Held, Inv
  <2>2. refs[b] = Held(b) + Cardinality(Calls(b))
    BY DEF RefsInv
  <2>3. CASE b = h
    <3>1. refs'[b] = refs[b] - 1 /\ Held(b) = 1
      BY <1>7, <1>8, <1>9, <1>10, <2>3 DEF RefsInv, Held
    <3> QED BY <2>1, <2>2, <3>1
  <2>4. CASE b # h
    <3>1. refs'[b] = refs[b] /\ Held(b) = 0
      BY <1>8, <2>4 DEF RefsInv, Held
    <3> QED BY <2>1, <2>2, <3>1
  <2> QED BY <2>3, <2>4
<1>13. \A b \in Blocks : called'[b] = 0 => Calls(b)' = {}
  BY <1>5, <1>8 DEF RefsInv
<1> QED BY <1>1, <1>6, <1>8, <1>11, <1>12, <1>13 DEF RefsInv

\* The copy is the one reference of the new block.
LEMMA FinishStartKeepsRefs ==
    ASSUME Inv, RefsInv, FinishStart PROVE RefsInv'
<1> DEFINE block == Top.block
<1>1. ~Dangling' /\ \A b : Calls(b)' = Calls(b)
  BY PopKeepsStack DEF Inv, FinishStart, Calls
<1>2. Dangling
  BY DEF FinishStart, Dangling
<1>3. /\ discoveryCompletionHandler' = block
      /\ refs' = IF block # nil THEN [refs EXCEPT ![block] = 1] ELSE refs
      /\ UNCHANGED <<starts, given, replaced, called>>
  BY DEF FinishStart, Copied
<1>4. block = nil \/ (block \in Blocks /\ Fresh(block) /\ block # nil)
  BY <1>2 DEF Inv, FreshInv, Blocks, nil
<1>5. nil \notin Blocks
  BY DEF Blocks, nil
<1> HIDE DEF block
<1>6. refs' \in [Blocks -> Nat]
  BY <1>3, <1>4 DEF RefsInv
<1>7. ASSUME NEW b \in Blocks
      PROVE  refs'[b] = Held(b)' + Cardinality(Calls(b)')
  <2>1. refs[b] = Cardinality(Calls(b)) /\ Calls(b)' = Calls(b)
    <3>1. refs[b] = 0 + Cardinality(Calls(b))
      BY <1>2 DEF RefsInv, Held
    <3> QED BY <1>1, <3>1, CallsAreFinite DEF Inv
  <2>2. CASE b = block
    <3>1. Cardinality(Calls(b)) = 0 /\ refs'[b] = 1 /\ Held(b)' = 1
      BY <1>1, <1>3, <1>4, <1>5, <2>2, NoCallsOfFresh DEF RefsInv, Held
    <3> QED BY <2>1, <3>1
  <2>3. CASE b # block
    <3>1. refs'[b] = refs[b] /\ Held(b)' = 0
      BY <1>3, <1>4, <2>3 DEF RefsInv, Held
    <3> QED BY <2>1, <3>1, CallsAreFinite DEF Inv
  <2> QED BY <2>2, <2>3
<1> QED BY <1>1, <1>2, <1>3, <1>6, <1>7 DEF RefsInv, block

\* Stop hands its reference over to the call.
LEMMA StopKeepsRefs ==
    ASSUME Inv, RefsInv, Stop PROVE RefsInv'
<1> DEFINE h == discoveryCompletionHandler
           frame == Frame("call", h, TRUE)
<1>1. ~Dangling
  BY AppRunsOutsideStart DEF Inv, Stop
<1>2. h \in Blocks /\ Fresh(h) /\ h # nil
  BY <1>1 DEF Inv, FreshInv, TypesInv, Stop
<1>3. /\ frame \in Frames /\ (frame.app <=> frame.op = "call")
      /\ frame.op = "call" /\ frame.block = h
  BY <1>2 DEF Frame, Frames
<1>4. /\ stack' # <<>> /\ Top' = frame
      /\ \A b : Calls(b)' = Calls(b) \cup
                     IF b = h THEN {Len(stack) + 1} ELSE {}
  <2> HIDE DEF frame
  <2>1. Push(frame) /\ AppRuns
    BY DEF Stop, frame
  <2> QED BY <1>3, <2>1, PushKeepsStack DEF Inv, Calls
<1>5. ~Dangling'
  BY <1>3, <1>4 DEF Dangling
<1>6. /\ h' = nil /\ called' = [called EXCEPT ![h] = @ + 1]
      /\ UNCHANGED <<refs, starts, given, replaced>>
  BY DEF Stop, HandlerInCall
<1>7. nil \notin Blocks /\ called \in [Blocks -> Nat]
  BY DEF Inv, TypesInv, Blocks, nil
<1>8. ASSUME NEW b \in Blocks
      PROVE  refs'[b] = Held(b)' + Cardinality(Calls(b)')
  <2>1. Held(b)' = 0
    BY <1>6, <1>7 DEF Held
  <2>2. refs[b] = Held(b) + Cardinality(Calls(b))
    BY DEF RefsInv
  <2>3. CASE b = h
    <3>1. Calls(b) = {} /\ Cardinality(Calls(b)) = 0 /\ Held(b) = 1
      BY <1>1, <1>2, <2>3, NoCallsOfFresh DEF Held
    <3>2. Calls(b)' = {Len(stack) + 1}
      BY <1>4, <2>3, <3>1
    <3>3. Cardinality(Calls(b)') = 1
      BY <3>2, FS_Singleton
    <3> QED BY <1>6, <2>1, <2>2, <3>1, <3>3
  <2>4. CASE b # h
    <3>1. Calls(b)' = Calls(b) /\ Held(b) = 0
      BY <1>4, <2>4 DEF Held
    <3> QED BY <1>6, <2>1, <2>2, <3>1
  <2> QED BY <2>3, <2>4
<1>9. ASSUME NEW b \in Blocks, called'[b] = 0 PROVE Calls(b)' = {}
  <2>1. b # h /\ called[b] = 0
    BY <1>2, <1>6, <1>7, <1>9
  <2> QED BY <1>4, <2>1 DEF RefsInv
<1> QED BY <1>5, <1>6, <1>8, <1>9 DEF RefsInv

\* The release after a call gives up the reference of that call.
LEMMA ReturnKeepsRefs ==
    ASSUME Inv, RefsInv, Return, ~DeallocCallsBack PROVE RefsInv'
<1> DEFINE block == Top.block
<1>1. /\ ~Dangling' /\ \A b : Calls(b)' = Calls(b) \ {Len(stack)}
  BY ReturnKeepsStack DEF Inv, Calls
<1>2. ~Dangling
  BY DEF Return, Dangling
<1>3. /\ refs' = IF block # nil /\ refs[block] > 0
                 THEN [refs EXCEPT ![block] = @ - 1] ELSE refs
      /\ UNCHANGED <<discoveryCompletionHandler, starts, given, replaced, called>>
  BY DEF Return, HandlerAfterCall, Release
<1>4. /\ Len(stack) \in 1..Len(stack) /\ block \in Blocks \cup {nil}
      /\ \A b : Len(stack) \in Calls(b) <=> b = block
  <2>1. Len(stack) \in 1..Len(stack) /\ stack \in Seq(Frames)
    BY DEF Inv, StackInv, Return
  <2>2. Top = stack[Len(stack)] /\ Top \in Frames
    BY <2>1 DEF Top, Last
  <2>3. \A b : Len(stack) \in Calls(b) <=> b = block
    BY <2>1, <2>2 DEF Return, Calls, FramesOf
  <2> QED BY <2>1, <2>2, <2>3 DEF Frames
<1>5. nil \notin Blocks
  BY DEF Blocks, nil
<1> HIDE DEF block
<1>6. ASSUME NEW b \in Blocks
      PROVE  /\ refs'[b] = Held(b)' + Cardinality(Calls(b)')
             /\ refs'[b] \in Nat
  <2>1. /\ refs[b] = Held(b) + Cardinality(Calls(b)) /\ Held(b)' = Held(b)
        /\ Held(b) \in {0, 1} /\ refs[b] \in Nat
    BY <1>1, <1>2, <1>3 DEF RefsInv, Held
  <2>2. /\ IsFiniteSet(Calls(b)) /\ Cardinality(Calls(b)) \in Nat
    BY CallsAreFinite DEF Inv
  <2>3. CASE b = block
    <3>1. Len(stack) \in Calls(b)
      BY <1>4, <2>3
    <3>2. Cardinality(Calls(b)') = Cardinality(Calls(b)) - 1
      BY <1>1, <2>2, <3>1, FS_RemoveElement
    <3>3. Cardinality(Calls(b)) # 0
      BY <2>2, <3>1, FS_EmptySet
    <3>4. refs'[b] = refs[b] - 1 /\ refs[b] > 0
      <4>1. refs[b] > 0
        BY <2>1, <2>2, <3>3
      <4> QED BY <1>3, <1>5, <2>3, <4>1 DEF RefsInv
    <3> QED BY <2>1, <2>2, <3>2, <3>3, <3>4
  <2>4. CASE b # block
    <3>1. Calls(b)' = Calls(b)
      BY <1>1, <1>4, <2>4
    <3>2. refs'[b] = refs[b]
      BY <1>3, <2>4 DEF RefsInv
    <3> QED BY <2>1, <3>1, <3>2
  <2> QED BY <2>3, <2>4
<1>7. refs' \in [Blocks -> Nat]
  <2>1. refs' = [b \in Blocks |-> refs'[b]]
    BY <1>3 DEF RefsInv
  <2> QED BY <1>6, <2>1
<1>8. \A b \in Blocks : called'[b] = 0 => Calls(b)' = {}
  BY <1>1, <1>3 DEF RefsInv
<1> QED BY <1>1, <1>3, <1>6, <1>7, <1>8 DEF RefsInv

\* The end of a release owns nothing.
LEMMA FinishStopKeepsRefs ==
    ASSUME Inv, RefsInv, FinishStop PROVE RefsInv'
<1>1. ~Dangling' /\ \A b : Calls(b)' = Calls(b)
  BY PopKeepsStack DEF Inv, FinishStop, Calls
<1>2. ~Dangling
  BY DEF FinishStop, Dangling
<1>3. UNCHANGED <<discoveryCompletionHandler, refs, starts, given, replaced, called>>
  BY DEF FinishStop
<1>4. \A b \in Blocks : Held(b)' = Held(b)
  BY <1>1, <1>2, <1>3 DEF Held
<1> QED BY <1>1, <1>3, <1>4 DEF RefsInv

\* The program holds one reference to a block as long as it will still call or
\* is calling it and none afterwards, for any number of discoveries started
\* inside one another.
THEOREM BlocksAreOwned ==
    ASSUME ~DeallocCallsBack PROVE Spec => []OwnedOnce
<1>1. Init => RefsInv
  <2> SUFFICES ASSUME Init PROVE RefsInv
    OBVIOUS
  <2>1. ~Dangling /\ \A b : Calls(b) = {} /\ Cardinality(Calls(b)) = 0
    BY FS_EmptySet DEF Init, Dangling, Calls, FramesOf
  <2>2. nil \notin Blocks
    BY DEF Blocks, nil
  <2> QED BY <2>1, <2>2 DEF Init, RefsInv, Held
<1>2. Inv /\ RefsInv /\ [Next]_vars => RefsInv'
  <2> SUFFICES ASSUME Inv, RefsInv, [Next]_vars PROVE RefsInv'
    OBVIOUS
  <2>1. CASE Start       BY <2>1, StartKeepsRefs
  <2>2. CASE FinishStart BY <2>2, FinishStartKeepsRefs
  <2>3. CASE Stop        BY <2>3, StopKeepsRefs
  <2>4. CASE Return      BY <2>4, ReturnKeepsRefs
  <2>5. CASE FinishStop  BY <2>5, FinishStopKeepsRefs
  <2>6. CASE UNCHANGED vars
    BY <2>6 DEF vars, RefsInv, Held, Calls, FramesOf, Dangling, Top
  <2> QED BY <2>1, <2>2, <2>3, <2>4, <2>5, <2>6 DEF Next
<1>3. Inv /\ RefsInv => OwnedOnce
  <2> SUFFICES ASSUME Inv, RefsInv PROVE OwnedOnce
    OBVIOUS
  <2>1. given \subseteq Blocks
    BY DiscoveryAssumption DEF Inv, TypesInv, Blocks
  <2>2. TypeOK
    BY <2>1 DEF Inv, StackInv, TypesInv, RefsInv, TypeOK
  <2> QED BY <2>2 DEF RefsInv, Held, Calls, OwnedOnce
<1> QED BY <1>1, <1>2, <1>3, Invariance, PTL DEF Spec
=============================================================================
