------------------------------ MODULE Discovery ------------------------------
(***************************************************************************)
(* Wireless discovery, frontend.mm: the one completion block that          *)
(* StartWirelessControllerDiscovery copies and StopWirelessController-     *)
(* Discovery calls.  Both are calls of the application on its main thread. *)
(* The application also makes them from inside the block that Stop calls,  *)
(* and may make them from inside the release of a block: the last release  *)
(* runs the dealloc methods of whatever the block captured.                *)
(*                                                                         *)
(* A block is known by the number of the Start call that copied it.  A     *)
(* block that is released when it has no references left is left alone, as *)
(* the Blocks runtime does.                                                *)
(***************************************************************************)
EXTENDS Integers, Sequences, SequencesExt, FiniteSetsExt

CONSTANTS
    MaxStarts,        \* bound: calls of Start
    DeallocCallsBack  \* dealloc methods of the application call Start or Stop

ASSUME DiscoveryAssumption ==
    MaxStarts \in Nat /\ DeallocCallsBack \in BOOLEAN

VARIABLES
    discoveryCompletionHandler,  \* the block Stop will call, or nil
    stack,       \* the calls of Start and Stop that have not returned
    refs,        \* the references the program holds to each block
    starts,      \* number of Start calls
    given,       \* history: the blocks Start was given
    replaced,    \* history: the blocks for which Start found a successor
    called       \* history: how often each block was called

vars == <<discoveryCompletionHandler, stack, refs, starts, given, replaced, called>>

Blocks == 1..MaxStarts
nil == 0

\* "app" tells whether code of the application runs in that frame.
Frame(op, block, app) == [op |-> op, block |-> block, app |-> app]

Top == Last(stack)
Push(frame) == stack' = Append(stack, frame)
Pop == stack' = Front(stack)
AppRuns == stack # <<>> => Top.app

Init ==
    /\ discoveryCompletionHandler = nil
    /\ stack = <<>>
    /\ refs = [b \in Blocks |-> 0]
    /\ starts = 0
    /\ given = {}
    /\ replaced = {}
    /\ called = [b \in Blocks |-> 0]

-----------------------------------------------------------------------------
\* [block release], which does nothing to nil.
Release(b) ==
    refs' = IF b # nil /\ refs[b] > 0 THEN [refs EXCEPT ![b] = @ - 1] ELSE refs

\* The release of b runs dealloc methods of the application.
Deallocates(b) == DeallocCallsBack /\ b # nil /\ refs[b] = 1

\* StartWirelessControllerDiscovery, up to the release of the old block.  The
\* application may give no block at all.
Start ==
    /\ AppRuns /\ starts < MaxStarts
    /\ starts' = starts + 1
    /\ replaced' = replaced \cup ({discoveryCompletionHandler} \ {nil})
    /\ Release(discoveryCompletionHandler)
    /\ \E block \in {nil, starts + 1} :
          /\ given' = given \cup ({block} \ {nil})
          /\ Push(Frame("start", block, Deallocates(discoveryCompletionHandler)))
    /\ UNCHANGED <<discoveryCompletionHandler, called>>

\* Seeded fault: a running discovery keeps its block.
Copied_IfIdle(block) ==
    IF discoveryCompletionHandler = nil THEN block
    ELSE discoveryCompletionHandler

\* The block that Start leaves behind.
Copied(block) == block

\* The rest of Start: the new block is copied.
FinishStart ==
    /\ stack # <<>> /\ Top.op = "start"
    /\ discoveryCompletionHandler' = Copied(Top.block)
    /\ refs' = IF Top.block # nil THEN [refs EXCEPT ![Top.block] = 1] ELSE refs
    /\ Pop
    /\ UNCHANGED <<starts, given, replaced, called>>

\* Seeded fault: the block is not consumed.
HandlerInCall_Kept == discoveryCompletionHandler

\* Stop clears the variable before it calls the block.
HandlerInCall == nil

\* StopWirelessControllerDiscovery, up to the call of the block.
Stop ==
    /\ AppRuns
    /\ discoveryCompletionHandler # nil
    /\ called' = [called EXCEPT ![discoveryCompletionHandler] = @ + 1]
    /\ Push(Frame("call", discoveryCompletionHandler, TRUE))
    /\ discoveryCompletionHandler' = HandlerInCall
    /\ UNCHANGED <<refs, starts, given, replaced>>

\* Seeded fault: the variable is cleared when the block has returned.
HandlerAfterCall_Cleared == nil

\* Whatever the block started stays.
HandlerAfterCall == discoveryCompletionHandler

\* The block returns and is released.
Return ==
    /\ stack # <<>> /\ Top.op = "call"
    /\ Release(Top.block)
    /\ discoveryCompletionHandler' = HandlerAfterCall
    /\ stack' = Append(Front(stack),
                       Frame("release", Top.block, Deallocates(Top.block)))
    /\ UNCHANGED <<starts, given, replaced, called>>

FinishStop ==
    /\ stack # <<>> /\ Top.op = "release"
    /\ Pop
    /\ UNCHANGED <<discoveryCompletionHandler, refs, starts, given, replaced, called>>

Next == Start \/ FinishStart \/ Stop \/ Return \/ FinishStop

Spec == Init /\ [][Next]_vars

-----------------------------------------------------------------------------
Frames == [op : {"start", "call", "release"}, block : Blocks \cup {nil},
           app : BOOLEAN]

\* Frames of one kind for a block.
FramesOf(op, b) == {k \in 1..Len(stack) : stack[k].op = op /\ stack[k].block = b}

TypeOK ==
    /\ discoveryCompletionHandler \in Blocks \cup {nil}
    /\ stack \in Seq(Frames)
    /\ refs \in [Blocks -> Nat] /\ called \in [Blocks -> Nat]
    /\ starts \in 0..MaxStarts
    /\ given \subseteq Blocks /\ replaced \subseteq given

\* The variable still names the block that Start has just released.
Dangling == stack # <<>> /\ Top.op = "start"

\* The program holds one reference to a block as long as it will still call
\* or is calling it and none afterwards: a block is not leaked, not released
\* twice and not run without a reference, whatever blocks do while they run.
OwnedOnce ==
    /\ TypeOK
    /\ \A b \in Blocks :
          refs[b] = (IF b = discoveryCompletionHandler /\ ~Dangling THEN 1 ELSE 0)
                    + Cardinality(FramesOf("call", b))

\* No completion is dropped or called twice: a block that Start was given is
\* about to be copied, waits for Stop, was replaced, or was called, once.
EveryBlockIsAnswered ==
    /\ \A b \in Blocks : called[b] <= 1
    /\ \A b \in given :
          \/ FramesOf("start", b) # {} \/ discoveryCompletionHandler = b
          \/ b \in replaced \/ called[b] = 1

\* What the comment in StartWirelessControllerDiscovery says: the replaced
\* handler will never be called.
ReplacedIsNeverCalled ==
    [][\A b \in replaced : called'[b] = called[b]]_vars
=============================================================================
