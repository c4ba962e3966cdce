------------------------- MODULE LogikRuntimeProofs -------------------------
(***************************************************************************)
(* Machine-checked proofs about LogikRuntime, for any number of blocks,    *)
(* timers, signals, revisions and any limits.                              *)
(*                                                                         *)
(* A rolled back event puts the checkpoint back, so every invariant is     *)
(* proved of two snapshots at once: the live one and, while a cascade      *)
(* runs, the checkpoint.  The end of the module is about cascades: they    *)
(* reach every consumer, and stay within the limit of executions.          *)
(***************************************************************************)
EXTENDS LogikRuntime, TLAPS, SequenceTheorems, FiniteSetTheorems, WellFoundedInduction

LEMMA ConstantTypes ==
    /\ Blocks \subseteq Nat /\ Signals \subseteq Nat /\ TimerNames \subseteq Nat
    /\ NoSignal \notin Signals
    /\ Time \subseteq Nat
    /\ "Active" \in Health /\ "Disabled" \in Health
    /\ "SuspendedEventRate" \in Health /\ "SuspendedScriptFailures" \in Health
BY SizesAssumption DEF Blocks, Signals, TimerNames, NoSignal, Time, Health, Suspended

\* The admission window a handler is admitted with is a suffix of the stored one.
LEMMA PrunedWindow ==
    ASSUME NEW w \in Seq(Nat), NEW now \in Nat, NEW live \in PruneLiveExecutionWindow(w, now)
    PROVE  /\ live \in Seq(Nat)
           /\ \E k \in 0..Len(w) : /\ Len(live) = Len(w) - k
                                   /\ \A i \in 1..Len(live) : live[i] = w[k + i]
<1>1. PICK k \in 0..Len(w) : live = SubSeq(w, k + 1, Len(w))
  BY DEF PruneLiveExecutionWindow
<1>2. Len(w) \in Nat /\ k \in Nat
  BY LenProperties
<1>3. live = [i \in 1..(Len(w) - k) |-> w[k + i]]
  BY <1>1, <1>2
<1>4. live \in Seq(Nat)
  BY <1>1, <1>2, SubSeqProperties
<1>5. Len(live) = Len(w) - k
  BY <1>1, <1>2
<1> QED
  BY <1>3, <1>4, <1>5

LEMMA NewFrameType ==
    ASSUME NEW o \in [Signals -> Values \cup {NoValue}]
    PROVE  NewFrame(o) \in Frame
BY ConstantTypes DEF NewFrame, Frame

LEMMA PushFrame ==
    ASSUME NEW f \in Frame, NEW below \in Seq(Frame)
    PROVE  <<f>> \o below \in Seq(Frame)
BY ConcatProperties

LEMMA ApplyTimerEffectsType ==
    ASSUME NEW set \in SUBSET PendingTimer, NEW b \in Blocks, NEW effects \in TimerEffects,
           NEW now \in Nat, revision \in [Blocks -> Revisions]
    PROVE  ApplyTimerEffects(set, b, effects, now) \in SUBSET PendingTimer
<1>1. PICK names \in SUBSET TimerNames : effects \in [names -> {Cancel} \cup 1..MaxAfter]
  BY DEF TimerEffects
<1>2. \A n \in DOMAIN effects : n \in TimerNames /\ effects[n] \in Nat
  BY <1>1, SizesAssumption DEF Cancel
<1> QED
  BY <1>2 DEF ApplyTimerEffects, PendingTimer

-----------------------------------------------------------------------------
\* Type correctness

\* The parts of the block state that an admission or an execution changes.
BlockTypeOK ==
    /\ health \in [Blocks -> Health]
    /\ failures \in [Blocks -> Nat]
    /\ window \in [Blocks -> Seq(Nat)]
    /\ admitted \in [Blocks -> Seq(Nat)]
    /\ pending \in SUBSET PendingTimer
    /\ stateBytes \in [Blocks -> Nat]

LEMMA TypeOKParts ==
    TypeOK <=> /\ enabled \in [Blocks -> BOOLEAN]
               /\ revision \in [Blocks -> Revisions]
               /\ BlockTypeOK
               /\ signals \in [Signals -> Values \cup {NoValue}]
               /\ inputs \in [Signals -> Seq(Values \cup {NoValue})]
               /\ lastAcceptedAt \in Nat
               /\ phase \in {"idle", "cascade"}
               /\ phase = "cascade" => checkpoint \in SnapshotType
               /\ work \in Seq(Frame)
               /\ executions \in Nat
BY DEF TypeOK, BlockTypeOK, Snapshot, SnapshotType

\* The same in the next state.
LEMMA TypeOKPartsNext ==
    TypeOK' <=> /\ enabled' \in [Blocks -> BOOLEAN]
                /\ revision' \in [Blocks -> Revisions]
                /\ BlockTypeOK'
                /\ signals' \in [Signals -> Values \cup {NoValue}]
                /\ inputs' \in [Signals -> Seq(Values \cup {NoValue})]
                /\ lastAcceptedAt' \in Nat
                /\ phase' \in {"idle", "cascade"}
                /\ phase' = "cascade" => checkpoint' \in SnapshotType
                /\ work' \in Seq(Frame)
                /\ executions' \in Nat
BY DEF TypeOK, BlockTypeOK, Snapshot, SnapshotType

LEMMA RejectAdmissionType ==
    ASSUME BlockTypeOK, NEW b \in Blocks, NEW live \in Seq(Nat), RejectAdmission(b, live)
    PROVE  BlockTypeOK'
BY ConstantTypes DEF BlockTypeOK, RejectAdmission, TimersOf

\* A history that is cut keeps all of its entries, or loses the oldest one.
LEMMA RememberType ==
    ASSUME NEW times \in Seq(Nat)
    PROVE  /\ Remember(times) = times \/ (times # <<>> /\ Remember(times) = Tail(times))
           /\ Remember(times) \in Seq(Nat)
<1>1. CASE Len(times) > Remembered
  <2>1. times # <<>>
    BY <1>1, SizesAssumption, EmptySeq
  <2>2. Remember(times) = Tail(times)
    BY <1>1 DEF Remember
  <2> QED
    BY <2>1, <2>2, HeadTailProperties
<1>2. CASE ~(Len(times) > Remembered)
  BY <1>2 DEF Remember
<1> QED
  BY <1>1, <1>2

LEMMA ExecuteType ==
    ASSUME BlockTypeOK, revision \in [Blocks -> Revisions],
           NEW b \in Blocks, NEW now \in Nat, NEW live \in Seq(Nat),
           NEW timersBefore \in SUBSET PendingTimer, NEW below \in Seq(Frame),
           Execute(b, now, live, timersBefore, below)
    PROVE  BlockTypeOK' /\ work' \in Seq(Frame)
<1>1. Append(live, now) \in Seq(Nat) /\ <<>> \in Seq(Nat)
  BY AppendProperties
<1>0. admitted' \in [Blocks -> Seq(Nat)]
  <2>1. Remember(Append(admitted[b], now)) \in Seq(Nat)
    BY RememberType, AppendProperties DEF BlockTypeOK
  <2> QED
    BY <2>1 DEF Execute, BlockTypeOK
<1>2. CASE HandlerSucceeds(b, now, live, timersBefore, below)
  <2>1. PICK effects \in TimerEffects, bytes \in 0..MaxBlockState, outputs \in Outputs(b) :
            /\ pending' = ApplyTimerEffects(timersBefore, b, effects, now)
            /\ stateBytes' = [stateBytes EXCEPT ![b] = bytes]
            /\ failures' = [failures EXCEPT ![b] = 0]
            /\ window' = [window EXCEPT ![b] = Append(live, now)]
            /\ UNCHANGED health
            /\ work' = <<NewFrame(outputs)>> \o below
    BY <1>2 DEF HandlerSucceeds
  <2>2. pending' \in SUBSET PendingTimer
    BY <2>1, ApplyTimerEffectsType
  <2>3. bytes \in Nat
    BY LimitsAssumption
  <2>4. work' \in Seq(Frame)
    BY <2>1, NewFrameType, PushFrame DEF Outputs
  <2> QED
    BY <1>0, <1>1, <2>1, <2>2, <2>3, <2>4 DEF BlockTypeOK
<1>3. CASE HandlerFails(b, now, live, timersBefore, below)
  <2>1. NoOutputs \in [Signals -> Values \cup {NoValue}]
    BY DEF NoOutputs
  <2>2. work' \in Seq(Frame)
    BY <1>3, <2>1, NewFrameType, PushFrame DEF HandlerFails
  <2>3. failures' \in [Blocks -> Nat] /\ stateBytes' \in [Blocks -> Nat]
    BY <1>3 DEF HandlerFails, BlockTypeOK
  <2>4. health' \in [Blocks -> Health]
    BY <1>3, ConstantTypes DEF HandlerFails, BlockTypeOK
  <2>5. window' \in [Blocks -> Seq(Nat)]
    BY <1>1, <1>3 DEF HandlerFails, BlockTypeOK
  <2>6. pending' \in SUBSET PendingTimer
    BY <1>3 DEF HandlerFails
  <2> QED
    BY <1>0, <2>2, <2>3, <2>4, <2>5, <2>6 DEF BlockTypeOK
<1> QED
  BY <1>2, <1>3 DEF Execute

\* One input event, timer or schedule, up to the start of its cascade.
LEMMA RootEventType ==
    ASSUME TypeOK, NEW b \in Blocks, NEW now \in Time,
           NEW timersBefore \in SUBSET PendingTimer,
           RootEvent(b, now, timersBefore),
           lastAcceptedAt' = now, UNCHANGED <<signals, inputs, blockVars>>
    PROVE  TypeOK'
<1>1. now \in Nat
  BY ConstantTypes
<1>2. PICK live \in PruneLiveExecutionWindow(window[b], now) :
          \/ RejectAdmission(b, live) /\ UNCHANGED callVars
          \/ Execute(b, now, live, timersBefore, <<>>) /\ BeginCascade
  BY DEF RootEvent
<1>3. live \in Seq(Nat)
  BY <1>1, PrunedWindow, TypeOKParts DEF BlockTypeOK
<1>4. CASE RejectAdmission(b, live) /\ UNCHANGED callVars
  <2>1. BlockTypeOK'
    BY <1>3, <1>4, RejectAdmissionType, TypeOKParts
  <2> QED
    BY <1>1, <1>4, <2>1, TypeOKParts, TypeOKPartsNext DEF blockVars, callVars
<1>5. CASE Execute(b, now, live, timersBefore, <<>>) /\ BeginCascade
  <2>0. <<>> \in Seq(Frame)
    BY EmptySeq
  <2>1. BlockTypeOK' /\ work' \in Seq(Frame)
    BY <1>1, <1>3, <1>5, <2>0, ExecuteType, TypeOKParts
  <2>2. checkpoint' \in SnapshotType /\ phase' = "cascade" /\ executions' = 1
    BY <1>5 DEF BeginCascade, TypeOK
  <2> QED
    BY <1>1, <2>1, <2>2, TypeOKParts, TypeOKPartsNext DEF blockVars
<1> QED
  BY <1>2, <1>4, <1>5

\* The frame under a consumer visit or a publication keeps its type.
LEMMA FrameType ==
    ASSUME NEW f \in Frame
    PROVE  /\ f.outputs \in [Signals -> Values \cup {NoValue}]
           /\ f.signal \in Signals \cup {NoSignal}
           /\ f.value \in Values \cup {NoValue}
           /\ f.next \in Nat \ {0}
           /\ [f EXCEPT !.next = @ + 1] \in Frame
BY DEF Frame

LEMMA TopFrame ==
    ASSUME TypeOK, Running
    PROVE  Head(work) \in Frame /\ Tail(work) \in Seq(Frame)
BY HeadTailProperties, TypeOKParts DEF Running

LEMMA PublishOutputType ==
    ASSUME TypeOK, PublishOutput
    PROVE  TypeOK'
<1> DEFINE top == Head(work)
<1>0. top \in Frame /\ Tail(work) \in Seq(Frame) /\ top.outputs \in [Signals -> Values \cup {NoValue}]
  BY TopFrame, FrameType DEF PublishOutput
<1>1. PICK s \in Signals :
         /\ signals' = [signals EXCEPT ![s] = top.outputs[s]]
         /\ \/ /\ work' = <<[outputs |-> [top.outputs EXCEPT ![s] = NoValue], signal |-> s,
                             value |-> top.outputs[s], next |-> 1]>> \o Tail(work)
               /\ UNCHANGED inputs
            \/ /\ work' = <<[outputs |-> [top.outputs EXCEPT ![s] = NoValue], signal |-> s,
                             value |-> top.outputs[s], next |-> Len(Consumers[s]) + 1]>> \o Tail(work)
               /\ inputs' = [inputs EXCEPT ![s] = [i \in DOMAIN Consumers[s] |-> top.outputs[s]]]
  BY DEF PublishOutput
<1>2. Len(Consumers[s]) \in Nat /\ DOMAIN Consumers[s] = 1..Len(Consumers[s])
  BY SignalsAssumption, LenProperties
<1>3. ASSUME NEW n \in Nat \ {0}
      PROVE  [outputs |-> [top.outputs EXCEPT ![s] = NoValue], signal |-> s,
              value |-> top.outputs[s], next |-> n] \in Frame
  BY <1>0, <1>3 DEF Frame
<1>4. work' \in Seq(Frame)
  <2>1. 1 \in Nat \ {0} /\ Len(Consumers[s]) + 1 \in Nat \ {0}
    BY <1>2
  <2> QED
    BY <1>0, <1>1, <1>3, <2>1, PushFrame
<1>5. [i \in DOMAIN Consumers[s] |-> top.outputs[s]] \in Seq(Values \cup {NoValue})
  <2>1. [i \in 1..Len(Consumers[s]) |-> top.outputs[s]] \in Seq(Values \cup {NoValue})
    BY <1>0, <1>2, IsASeq
  <2> QED
    BY <1>2, <2>1
<1>6. inputs' \in [Signals -> Seq(Values \cup {NoValue})]
  BY <1>1, <1>5, TypeOKParts
<1>7. signals' \in [Signals -> Values \cup {NoValue}]
  BY <1>0, <1>1, TypeOKParts
<1>8. BlockTypeOK'
  BY TypeOKParts DEF PublishOutput, BlockTypeOK
<1> QED
  BY <1>4, <1>6, <1>7, <1>8, TypeOKParts, TypeOKPartsNext DEF PublishOutput, blockVars

LEMMA VisitConsumerType ==
    ASSUME TypeOK, VisitConsumer
    PROVE  TypeOK'
<1> DEFINE top   == Head(work)
           s     == top.signal
           b     == Consumers[s][top.next]
           below == <<[top EXCEPT !.next = @ + 1]>> \o Tail(work)
<1>1. top \in Frame /\ Tail(work) \in Seq(Frame)
  BY TopFrame DEF VisitConsumer
<1>2. s \in Signals /\ top.next \in 1..Len(Consumers[s]) /\ top.value \in Values \cup {NoValue}
  <2>1. Delivering(top)
    BY DEF VisitConsumer
  <2>2. s \in Signals /\ Len(Consumers[s]) \in Nat
    BY <1>1, <2>1, FrameType, SignalsAssumption, LenProperties DEF Delivering
  <2>3. top.next \in Nat \ {0} /\ top.value \in Values \cup {NoValue}
    BY <1>1, FrameType
  <2>4. top.next <= Len(Consumers[s])
    BY <2>1 DEF Delivering
  <2> QED
    BY <2>2, <2>3, <2>4
<1>3. b \in Blocks
  BY <1>2, SignalsAssumption, ElementOfSeq
<1>4. below \in Seq(Frame)
  BY <1>1, FrameType, PushFrame
<1>5. inputs' = [inputs EXCEPT ![s][top.next] = top.value]
  BY DEF VisitConsumer
<1>6. inputs' \in [Signals -> Seq(Values \cup {NoValue})]
  <2>1. inputs[s] \in Seq(Values \cup {NoValue})
    BY <1>2, TypeOKParts
  <2>2. [inputs[s] EXCEPT ![top.next] = top.value] \in Seq(Values \cup {NoValue})
    <3>1. CASE top.next \in 1..Len(inputs[s])
      BY <1>2, <2>1, <3>1, ExceptSeq
    <3>2. CASE top.next \notin 1..Len(inputs[s])
      <4>1. DOMAIN inputs[s] = 1..Len(inputs[s])
        BY <2>1, LenProperties
      <4>2. [inputs[s] EXCEPT ![top.next] = top.value] = inputs[s]
        BY <2>1, <3>2, <4>1
      <4> QED
        BY <2>1, <4>2
    <3> QED
      BY <3>1, <3>2
  <2> QED
    BY <1>2, <1>5, <2>2, TypeOKParts
<1>7. BlockTypeOK' /\ work' \in Seq(Frame) /\ executions' \in Nat
  <2>1. CASE ~Runnable(b) /\ work' = below
             /\ UNCHANGED <<health, failures, window, admitted, pending, stateBytes, executions>>
    BY <1>4, <2>1, TypeOKParts DEF BlockTypeOK
  <2>2. ASSUME NEW live \in PruneLiveExecutionWindow(window[b], lastAcceptedAt),
               RejectAdmission(b, live), work' = below, UNCHANGED executions
        PROVE  BlockTypeOK' /\ work' \in Seq(Frame) /\ executions' \in Nat
    <3>1. live \in Seq(Nat)
      BY <1>3, <2>2, PrunedWindow, TypeOKParts DEF BlockTypeOK
    <3> QED
      BY <1>3, <1>4, <2>2, <3>1, RejectAdmissionType, TypeOKParts
  <2>3. ASSUME NEW live \in PruneLiveExecutionWindow(window[b], lastAcceptedAt),
               Execute(b, lastAcceptedAt, live, pending, below), executions' = executions + 1
        PROVE  BlockTypeOK' /\ work' \in Seq(Frame) /\ executions' \in Nat
    <3>1. live \in Seq(Nat)
      BY <1>3, <2>3, PrunedWindow, TypeOKParts DEF BlockTypeOK
    <3>2. lastAcceptedAt \in Nat /\ pending \in SUBSET PendingTimer /\ BlockTypeOK
          /\ revision \in [Blocks -> Revisions] /\ executions \in Nat
      BY TypeOKParts DEF BlockTypeOK
    <3>3. BlockTypeOK' /\ work' \in Seq(Frame)
      BY <1>3, <1>4, <2>3, <3>1, <3>2, ExecuteType
    <3> QED
      BY <2>3, <3>2, <3>3
  <2> QED
    BY <2>1, <2>2, <2>3 DEF VisitConsumer
<1> QED
  BY <1>6, <1>7, TypeOKParts, TypeOKPartsNext DEF VisitConsumer, blockVars

LEMMA CascadeStepType ==
    ASSUME TypeOK, CascadeStep
    PROVE  TypeOK'
<1>0. <<>> \in Seq(Frame)
  BY EmptySeq
<1>1. CASE CascadeTimeLimit
  BY <1>0, <1>1, TypeOKParts, TypeOKPartsNext
     DEF CascadeTimeLimit, blockVars, liveVars, BlockTypeOK
<1>2. CASE PublishOutput
  BY <1>2, PublishOutputType
<1>3. CASE VisitConsumer
  BY <1>3, VisitConsumerType
<1>4. CASE PropagationReturns
  <2>1. Tail(work) \in Seq(Frame)
    BY <1>4, TopFrame DEF PropagationReturns
  <2> QED
    BY <1>4, <2>1, TypeOKParts, TypeOKPartsNext
       DEF PropagationReturns, blockVars, liveVars, BlockTypeOK
<1>5. CASE CommitCascade
  BY <1>5, TypeOKParts, TypeOKPartsNext
     DEF CommitCascade, blockVars, liveVars, BlockTypeOK
<1>6. CASE RollBackCascade
  <2>1. checkpoint \in SnapshotType
    BY <1>6, TypeOKParts DEF RollBackCascade
  <2>2. BlockTypeOK' /\ signals' \in [Signals -> Values \cup {NoValue}]
        /\ inputs' \in [Signals -> Seq(Values \cup {NoValue})] /\ lastAcceptedAt' \in Nat
    BY <1>6, <2>1 DEF RollBackCascade, SnapshotType, BlockTypeOK
  <2> QED
    BY <1>6, <2>2, TypeOKParts, TypeOKPartsNext DEF RollBackCascade, blockVars
<1> QED
  BY <1>1, <1>2, <1>3, <1>4, <1>5, <1>6 DEF CascadeStep

\* TypeOK holds for every instance of the constants: no event, activation,
\* cascade step or rollback puts a value of the wrong kind in the runtime.
THEOREM TypeCorrect == Spec => []TypeOK
<1>1. Init => TypeOK
  <2> SUFFICES ASSUME Init PROVE TypeOK
    OBVIOUS
  <2>1. \A b \in Blocks : HealthFor(enabled[b]) \in Health
    BY ConstantTypes DEF HealthFor
  <2>2. \A s \in Signals : [i \in DOMAIN Consumers[s] |-> NoValue] \in Seq(Values \cup {NoValue})
    <3>1. SUFFICES ASSUME NEW s \in Signals
                   PROVE  [i \in DOMAIN Consumers[s] |-> NoValue] \in Seq(Values \cup {NoValue})
      OBVIOUS
    <3>2. Len(Consumers[s]) \in Nat /\ DOMAIN Consumers[s] = 1..Len(Consumers[s])
      BY SignalsAssumption, LenProperties
    <3>3. [i \in 1..Len(Consumers[s]) |-> NoValue] \in Seq(Values \cup {NoValue})
      BY <3>2, IsASeq
    <3> QED
      BY <3>2, <3>3
  <2>3. inputs \in [Signals -> Seq(Values \cup {NoValue})]
    BY <2>2 DEF Init
  <2>4. <<>> \in Seq(Nat) /\ <<>> \in Seq(Frame)
    BY EmptySeq
  <2>5. BlockTypeOK
    BY <2>1, <2>4 DEF Init, BlockTypeOK
  <2> QED
    BY <2>3, <2>4, <2>5, TypeOKParts DEF Init
<1>2. TypeOK /\ [Next]_vars => TypeOK'
  <2> SUFFICES ASSUME TypeOK, [Next]_vars PROVE TypeOK'
    OBVIOUS
  <2>1. ASSUME NEW now \in Time, ObserveOnly(now)
        PROVE  TypeOK'
    BY <2>1, ConstantTypes, TypeOKParts, TypeOKPartsNext
       DEF ObserveOnly, blockVars, callVars, BlockTypeOK
  <2>2. pending \in SUBSET PendingTimer
    BY TypeOKParts DEF BlockTypeOK
  <2>3. CASE \E now \in Time : ObserveInput(now)
    BY <2>1, <2>3 DEF ObserveInput
  <2>4. CASE \E now \in Time, b \in Blocks : ProcessInput(b, now)
    BY <2>1, <2>2, <2>4, RootEventType DEF ProcessInput
  <2>5. CASE \E now \in Time, b \in Blocks, current \in BOOLEAN : ProcessSchedule(b, now, current)
    BY <2>1, <2>2, <2>5, RootEventType DEF ProcessSchedule
  <2>6. CASE \E now \in Time : ProcessNextDueTimer(now)
    <3>1. PICK now \in Time : ProcessNextDueTimer(now)
      BY <2>6
    <3>2. CASE ObserveOnly(now)
      BY <2>1, <3>2
    <3>3. CASE \E p \in DueTimers(now) :
                  /\ RootEvent(p.block, now, pending \ {p})
                  /\ lastAcceptedAt' = now
                  /\ UNCHANGED <<signals, inputs, blockVars>>
      <4>1. PICK p \in DueTimers(now) :
                  /\ RootEvent(p.block, now, pending \ {p})
                  /\ lastAcceptedAt' = now
                  /\ UNCHANGED <<signals, inputs, blockVars>>
        BY <3>3
      <4>2. p.block \in Blocks /\ pending \ {p} \in SUBSET PendingTimer
        BY <2>2 DEF DueTimers, PendingTimer
      <4> QED
        BY <4>1, <4>2, RootEventType
    <3> QED
      BY <3>1, <3>2, <3>3 DEF ProcessNextDueTimer
  <2>7. CASE CascadeStep
    BY <2>7, CascadeStepType
  <2>8. ASSUME NEW source \in [Blocks -> Revisions], NEW on \in [Blocks -> BOOLEAN],
               Activate(source, on)
        PROVE  TypeOK'
    <3>1. enabled' \in [Blocks -> BOOLEAN] /\ revision' \in [Blocks -> Revisions]
      BY <2>8 DEF Activate
    <3>2. health' \in [Blocks -> Health]
      BY <2>8, ConstantTypes, TypeOKParts DEF Activate, HealthFor, BlockTypeOK
    <3>3. /\ failures' \in [Blocks -> Nat]
          /\ window' \in [Blocks -> Seq(Nat)]
          /\ admitted' \in [Blocks -> Seq(Nat)]
      BY <2>8, EmptySeq, TypeOKParts DEF Activate, BlockTypeOK
    <3>4. pending' \in SUBSET PendingTimer /\ stateBytes' \in [Blocks -> Nat]
      BY <2>8, TypeOKParts DEF Activate, BlockTypeOK
    <3> QED
      BY <2>8, <3>1, <3>2, <3>3, <3>4, TypeOKParts, TypeOKPartsNext
         DEF Activate, callVars, BlockTypeOK
  <2>9. ASSUME NEW b \in Blocks, ResumeBlock(b)
        PROVE  TypeOK'
    <3>1. health' \in [Blocks -> Health]
      BY <2>9, ConstantTypes, TypeOKParts DEF ResumeBlock, HealthFor, BlockTypeOK
    <3>2. BlockTypeOK'
      BY <2>9, <3>1, EmptySeq, TypeOKParts DEF ResumeBlock, BlockTypeOK
    <3> QED
      BY <2>9, <3>2, TypeOKParts, TypeOKPartsNext DEF ResumeBlock, blockVars, callVars
  <2>10. CASE UNCHANGED vars
    BY <2>10, TypeOKParts, TypeOKPartsNext DEF vars, blockVars, liveVars, callVars, BlockTypeOK
  <2> QED
    BY <2>3, <2>4, <2>5, <2>6, <2>7, <2>8, <2>9, <2>10 DEF Next
<1> QED
  BY <1>1, <1>2, PTL DEF Spec

-----------------------------------------------------------------------------
\* Timers, suspension and admission

TimersInv(h, p) ==
    \A t \in p : t.revision = revision[t.block] /\ enabled[t.block] /\ h[t.block] = "Active"
KeyedInv(p) ==
    \A t, u \in p : t.block = u.block /\ t.name = u.name => t = u
SuspensionInv(h, f) ==
    \A b \in Blocks : /\ h[b] = "Disabled" <=> ~enabled[b]
                      /\ h[b] = "SuspendedScriptFailures" <=> f[b] >= FailureThreshold
                      /\ h[b] = "SuspendedEventRate" => f[b] = 0

\* The window ends like the history, and what the history has before the window is old
\* enough not to count any more.
Aligned(w, a, last) ==
    \A i \in DOMAIN a :
        /\ i - Len(a) + Len(w) >= 1 => a[i] = w[i - Len(a) + Len(w)]
        /\ i - Len(a) + Len(w) < 1 => last - a[i] >= Window
Spaced(a) == \A i, j \in DOMAIN a : j - i >= MaxRate => a[j] - a[i] >= Window
AdmissionInv(h, w, a, last) ==
    \A b \in Blocks : /\ Spaced(a[b])
                      /\ h[b] = "Active" => Aligned(w[b], a[b], last)

\* The inductive invariant of one snapshot.  TimersInv needs SuspensionInv (a
\* block that is not Active has no timers, so enabling it brings none back), and the
\* spacing of the admissions needs that the pruned window has all that still count.
LiveInv(h, f, w, a, p, last) ==
    TimersInv(h, p) /\ KeyedInv(p) /\ SuspensionInv(h, f) /\ AdmissionInv(h, w, a, last)

RuntimeInv ==
    /\ LiveInv(health, failures, window, admitted, pending, lastAcceptedAt)
    /\ phase = "cascade" =>
          LiveInv(checkpoint.health, checkpoint.failures, checkpoint.window,
                  checkpoint.admitted, checkpoint.pending, checkpoint.lastAcceptedAt)

\* Pruning forgets only what is old enough.
LEMMA AlignedPruned ==
    ASSUME NEW w \in Seq(Nat), NEW a \in Seq(Nat), NEW last \in Nat, NEW now \in Nat, last <= now,
           Aligned(w, a, last), NEW live \in PruneLiveExecutionWindow(w, now)
    PROVE  Aligned(live, a, now)
<1>1. Len(w) \in Nat /\ Len(a) \in Nat /\ DOMAIN a = 1..Len(a) /\ DOMAIN w = 1..Len(w)
  BY LenProperties
<1>2. PICK k \in 0..Len(w) : /\ live = SubSeq(w, k + 1, Len(w))
                             /\ \A i \in 1..k : now - w[i] >= Window
  BY DEF PruneLiveExecutionWindow
<1>3. /\ Len(live) = Len(w) - k
      /\ \A i \in 1..(Len(w) - k) : live[i] = w[k + i]
  <2>1. live = SubSeq(w, k + 1, Len(w)) /\ k \in Nat /\ Len(w) \in Nat
    BY <1>1, <1>2
  <2>2. live = [i \in 1..(Len(w) - k) |-> w[k + i]]
    BY <2>1
  <2>3. Len(live) = Len(w) - k
    BY <1>2, <2>1
  <2> QED
    BY <2>2, <2>3
<1>4. SUFFICES ASSUME NEW i \in 1..Len(a)
               PROVE  /\ i - Len(a) + Len(live) >= 1 => a[i] = live[i - Len(a) + Len(live)]
                      /\ i - Len(a) + Len(live) < 1 => now - a[i] >= Window
  BY <1>1 DEF Aligned
<1>5. a[i] \in Nat
  BY ElementOfSeq
<1>6. PICK m \in Int : m = i - Len(a) + Len(w)
  <2>1. i - Len(a) + Len(w) \in Int
    BY <1>1
  <2> QED
    BY <2>1
<1>7. i - Len(a) + Len(live) = m - k
  BY <1>1, <1>3, <1>6
<1>8. /\ m >= 1 => a[i] = w[m]
      /\ m < 1 => last - a[i] >= Window
  BY <1>1, <1>6 DEF Aligned
<1>9. m <= Len(w)
  BY <1>1, <1>6
<1>10. CASE m - k >= 1
  <2>1. m - k \in 1..(Len(w) - k) /\ m >= 1 /\ k + (m - k) = m
    BY <1>1, <1>9, <1>10
  <2>2. live[m - k] = w[m]
    BY <1>3, <2>1
  <2>3. a[i] = live[m - k]
    BY <1>8, <2>1, <2>2
  <2>4. ~(m - k < 1)
    BY <1>1, <1>10
  <2>5. a[i] = live[i - Len(a) + Len(live)]
    BY <1>7, <2>3
  <2>6. ~(i - Len(a) + Len(live) < 1)
    BY <1>7, <2>4
  <2> QED
    BY <2>5, <2>6
<1>11. CASE m - k < 1 /\ m >= 1
  <2>1. m \in 1..k
    BY <1>1, <1>11
  <2>2. a[i] = w[m] /\ now - w[m] >= Window
    BY <1>2, <1>8, <1>11, <2>1
  <2>3. ~(m - k >= 1)
    BY <1>1, <1>11
  <2>4. now - a[i] >= Window
    BY <2>2
  <2> QED
    BY <1>7, <2>3, <2>4
<1>12. CASE m < 1
  <2>1. now - a[i] >= Window
    BY <1>5, <1>8, <1>12, LimitsAssumption
  <2>2. m - k < 1
    BY <1>12
  <2> QED
    BY <1>7, <2>1, <2>2
<1> QED
  BY <1>10, <1>11, <1>12

\* An admission into a window that is not full is far enough from the one MaxRate before.
LEMMA AlignedAppended ==
    ASSUME NEW w \in Seq(Nat), NEW a \in Seq(Nat), NEW now \in Nat,
           Aligned(w, a, now), Spaced(a), Len(w) < MaxRate
    PROVE  Aligned(Append(w, now), Append(a, now), now) /\ Spaced(Append(a, now))
<1> DEFINE v == Append(w, now)
           c == Append(a, now)
<1>1. Len(w) \in Nat /\ Len(a) \in Nat /\ DOMAIN a = 1..Len(a)
  BY LenProperties
<1>2. /\ Len(v) = Len(w) + 1
      /\ \A i \in 1..Len(w) : v[i] = w[i]
      /\ v[Len(w) + 1] = now
  BY AppendProperties
<1>3. /\ Len(c) = Len(a) + 1
      /\ \A i \in 1..Len(a) : c[i] = a[i]
      /\ c[Len(a) + 1] = now
      /\ DOMAIN c = 1..(Len(a) + 1)
  <2>1. c \in Seq(Nat) /\ Len(c) = Len(a) + 1
    BY AppendProperties
  <2> QED
    BY <2>1, AppendProperties, LenProperties
<1>4. \A i \in 1..Len(a) : a[i] \in Nat
  BY ElementOfSeq
<1> HIDE DEF v, c
<1>5. \A i \in 1..(Len(a) + 1) : i - Len(c) + Len(v) = i - Len(a) + Len(w)
  BY <1>1, <1>2, <1>3
<1>6. ASSUME NEW i \in 1..(Len(a) + 1)
      PROVE  /\ i - Len(a) + Len(w) >= 1 => c[i] = v[i - Len(a) + Len(w)]
             /\ i - Len(a) + Len(w) < 1 => now - c[i] >= Window
  <2>1. PICK m \in Int : m = i - Len(a) + Len(w)
    <3>1. i - Len(a) + Len(w) \in Int
      BY <1>1, <1>6
    <3> QED
      BY <3>1
  <2>2. CASE i = Len(a) + 1
    <3>1. m = Len(w) + 1
      BY <1>1, <2>1, <2>2
    <3>2. m >= 1
      BY <1>1, <3>1
    <3> QED
      BY <1>2, <1>3, <2>1, <2>2, <3>1, <3>2
  <2>3. CASE i # Len(a) + 1
    <3>1. i \in 1..Len(a) /\ m <= Len(w)
      BY <1>1, <1>6, <2>1, <2>3
    <3>2. c[i] = a[i]
      BY <1>3, <3>1
    <3>3. /\ m >= 1 => a[i] = w[m]
          /\ m < 1 => now - a[i] >= Window
      BY <1>1, <2>1, <3>1 DEF Aligned
    <3>4. m >= 1 => v[m] = w[m]
      BY <1>1, <1>2, <3>1
    <3> QED
      BY <2>1, <3>2, <3>3, <3>4
  <2> QED
    BY <2>2, <2>3
<1>7. Aligned(v, c, now)
  BY <1>3, <1>5, <1>6 DEF Aligned
<1>8. ASSUME NEW i \in 1..(Len(a) + 1), NEW j \in 1..(Len(a) + 1), j - i >= MaxRate
      PROVE  c[j] - c[i] >= Window
  <2>1. i \in 1..Len(a) /\ c[i] = a[i]
    BY <1>1, <1>3, <1>8, LimitsAssumption
  <2>2. CASE j = Len(a) + 1
    <3>1. i - Len(a) + Len(w) < 1
      BY <1>1, <1>8, <2>1, <2>2, LimitsAssumption
    <3>2. now - a[i] >= Window
      BY <1>1, <2>1, <3>1 DEF Aligned
    <3> QED
      BY <1>3, <2>1, <2>2, <3>2
  <2>3. CASE j # Len(a) + 1
    <3>1. j \in 1..Len(a) /\ c[j] = a[j]
      BY <1>1, <1>3, <1>8, <2>3
    <3> QED
      BY <1>1, <1>8, <2>1, <3>1 DEF Spaced
  <2> QED
    BY <2>2, <2>3
<1>9. Spaced(c)
  BY <1>3, <1>8 DEF Spaced
<1> QED
  BY <1>7, <1>9 DEF v, c

\* The oldest admission may be dropped from the history.
LEMMA AlignedForgotten ==
    ASSUME NEW w \in Seq(Nat), NEW a \in Seq(Nat), NEW last \in Nat, a # <<>>,
           Aligned(w, a, last), Spaced(a)
    PROVE  Aligned(w, Tail(a), last) /\ Spaced(Tail(a))
<1> DEFINE c == Tail(a)
<1>1. Len(w) \in Nat /\ Len(a) \in Nat /\ DOMAIN a = 1..Len(a)
  BY LenProperties
<1>2. /\ c \in Seq(Nat) /\ Len(c) = Len(a) - 1
      /\ \A i \in 1..Len(c) : c[i] = a[i + 1]
  BY HeadTailProperties
<1>3. DOMAIN c = 1..Len(c) /\ Len(c) \in Nat
  BY <1>2, LenProperties
<1> HIDE DEF c
<1>4. ASSUME NEW i \in 1..Len(c)
      PROVE  /\ i + 1 \in 1..Len(a) /\ c[i] = a[i + 1]
             /\ i - Len(c) + Len(w) = (i + 1) - Len(a) + Len(w)
  BY <1>1, <1>2, <1>3
<1>5. Aligned(w, c, last)
  BY <1>1, <1>3, <1>4 DEF Aligned
<1>6. ASSUME NEW i \in 1..Len(c), NEW j \in 1..Len(c), j - i >= MaxRate
      PROVE  c[j] - c[i] >= Window
  <2>1. (j + 1) - (i + 1) >= MaxRate
    BY <1>3, <1>6, LimitsAssumption
  <2> QED
    BY <1>1, <1>4, <2>1 DEF Spaced
<1>7. Spaced(c)
  BY <1>3, <1>6 DEF Spaced
<1> QED
  BY <1>5, <1>7 DEF c

\* A window stays aligned when time passes.
LEMMA AlignedLater ==
    ASSUME NEW w \in Seq(Nat), NEW a \in Seq(Nat), NEW last \in Nat, NEW now \in Nat, last <= now,
           Aligned(w, a, last)
    PROVE  Aligned(w, a, now)
<1>1. DOMAIN a = 1..Len(a)
  BY LenProperties
<1>2. \A i \in 1..Len(a) : a[i] \in Nat
  BY ElementOfSeq
<1>3. \A i \in 1..Len(a) : last - a[i] >= Window => now - a[i] >= Window
  BY <1>2, LimitsAssumption
<1> QED
  BY <1>1, <1>3 DEF Aligned

\* One admission of block b: the others' windows only grow older.
LEMMA AdmissionUpdated ==
    ASSUME BlockTypeOK, NEW b \in Blocks, NEW last \in Nat, NEW now \in Nat, last <= now,
           AdmissionInv(health, window, admitted, last),
           \A c \in Blocks \ {b} : /\ health'[c] = health[c] /\ window'[c] = window[c]
                                  /\ admitted'[c] = admitted[c],
           Spaced(admitted'[b]),
           health'[b] = "Active" => Aligned(window'[b], admitted'[b], now)
    PROVE  AdmissionInv(health', window', admitted', now)
<1>1. SUFFICES ASSUME NEW c \in Blocks \ {b}, health[c] = "Active"
               PROVE  Aligned(window[c], admitted[c], now)
  BY DEF AdmissionInv
<1>2. window[c] \in Seq(Nat) /\ admitted[c] \in Seq(Nat)
  BY DEF BlockTypeOK
<1>3. Aligned(window[c], admitted[c], last)
  BY <1>1 DEF AdmissionInv
<1> QED
  BY <1>2, <1>3, AlignedLater

\* Time may pass without an execution.
LEMMA AdmissionLater ==
    ASSUME BlockTypeOK, NEW last \in Nat, AdmissionInv(health, window, admitted, last),
           NEW now \in Nat, last <= now
    PROVE  AdmissionInv(health, window, admitted, now)
<1>1. SUFFICES ASSUME NEW c \in Blocks, health[c] = "Active"
               PROVE  Aligned(window[c], admitted[c], now)
  BY DEF AdmissionInv
<1>2. window[c] \in Seq(Nat) /\ admitted[c] \in Seq(Nat)
  BY DEF BlockTypeOK
<1>3. Aligned(window[c], admitted[c], last)
  BY <1>1 DEF AdmissionInv
<1> QED
  BY <1>2, <1>3, AlignedLater

LEMMA RejectAdmissionInv ==
    ASSUME BlockTypeOK, NEW b \in Blocks, NEW last \in Nat, NEW now \in Nat, last <= now,
           LiveInv(health, failures, window, admitted, pending, last), Runnable(b),
           NEW live \in PruneLiveExecutionWindow(window[b], now),
           RejectAdmission(b, live), UNCHANGED blockVars
    PROVE  LiveInv(health, failures, window, admitted, pending, now)'
<1>1. AdmissionInv(health', window', admitted', now)
  <2>1. /\ health' = [health EXCEPT ![b] = "SuspendedEventRate"]
        /\ window' = [window EXCEPT ![b] = live] /\ admitted' = admitted
    BY DEF RejectAdmission
  <2>2. health'[b] # "Active" /\ Spaced(admitted'[b])
    BY <2>1 DEF LiveInv, AdmissionInv, BlockTypeOK
  <2>3. \A c \in Blocks \ {b} : /\ health'[c] = health[c] /\ window'[c] = window[c]
                               /\ admitted'[c] = admitted[c]
    BY <2>1 DEF BlockTypeOK
  <2> QED
    BY <2>2, <2>3, AdmissionUpdated DEF LiveInv
<1>2. TimersInv(health, pending)'
  BY DEF LiveInv, TimersInv, RejectAdmission, TimersOf, BlockTypeOK, PendingTimer, blockVars
<1>3. KeyedInv(pending)'
  BY DEF LiveInv, KeyedInv, RejectAdmission, TimersOf
<1>4. SuspensionInv(health, failures)'
  <2>1. enabled[b]
    BY DEF Runnable
  <2> QED
    BY <2>1, LimitsAssumption DEF LiveInv, SuspensionInv, RejectAdmission, BlockTypeOK, blockVars
<1> QED
  BY <1>1, <1>2, <1>3, <1>4 DEF LiveInv, AdmissionInv

\* A handler's timer effects keep the timers keyed by name and of this logic.
LEMMA ApplyTimerEffectsInv ==
    ASSUME NEW set \in SUBSET PendingTimer, NEW b \in Blocks, NEW effects \in TimerEffects,
           NEW now \in Nat, TimersInv(health, set), KeyedInv(set), Runnable(b)
    PROVE  /\ TimersInv(health, ApplyTimerEffects(set, b, effects, now))
           /\ KeyedInv(ApplyTimerEffects(set, b, effects, now))
<1> DEFINE kept  == {p \in set : ~(p.block = b /\ p.name \in DOMAIN effects)}
           new(n) == [block |-> b, name |-> n, scheduledAt |-> now, due |-> now + effects[n],
                      revision |-> revision[b]]
           added == {new(n) : n \in {n \in DOMAIN effects : effects[n] # Cancel}}
<1>1. ApplyTimerEffects(set, b, effects, now) = kept \cup added
  BY DEF ApplyTimerEffects
<1>2. \A t \in added : \E n \in DOMAIN effects : t = new(n)
  OBVIOUS
<1>3. \A t \in added : /\ t.block = b /\ t.name \in DOMAIN effects
                       /\ t.revision = revision[b] /\ t = new(t.name)
  BY <1>2
<1>4. TimersInv(health, kept \cup added)
  BY <1>3 DEF TimersInv, Runnable
<1>5. KeyedInv(kept \cup added)
  <2>1. SUFFICES ASSUME NEW t \in kept \cup added, NEW u \in kept \cup added,
                        t.block = u.block, t.name = u.name
                 PROVE  t = u
    BY DEF KeyedInv
  <2>2. CASE t \in added /\ u \in added
    BY <1>3, <2>1, <2>2
  <2>3. CASE t \in kept /\ u \in kept
    BY <2>1, <2>3 DEF KeyedInv
  <2>4. CASE t \in kept /\ u \in added
    BY <1>3, <2>1, <2>4
  <2>5. CASE t \in added /\ u \in kept
    BY <1>3, <2>1, <2>5
  <2> QED
    BY <2>2, <2>3, <2>4, <2>5
<1> QED
  BY <1>1, <1>4, <1>5

LEMMA ExecuteInv ==
    ASSUME BlockTypeOK, NEW b \in Blocks, NEW last \in Nat, NEW now \in Nat, last <= now,
           LiveInv(health, failures, window, admitted, pending, last), Runnable(b),
           NEW live \in PruneLiveExecutionWindow(window[b], now),
           NEW timersBefore \in SUBSET pending, NEW below,
           Execute(b, now, live, timersBefore, below), UNCHANGED blockVars
    PROVE  LiveInv(health, failures, window, admitted, pending, now)'
<1>0. /\ window[b] \in Seq(Nat) /\ admitted[b] \in Seq(Nat) /\ live \in Seq(Nat)
      /\ Len(live) < MaxRate
      /\ Aligned(live, admitted[b], now) /\ Spaced(admitted[b])
  <2>1. window[b] \in Seq(Nat) /\ admitted[b] \in Seq(Nat)
    BY DEF BlockTypeOK
  <2>2. Aligned(window[b], admitted[b], last) /\ Spaced(admitted[b])
    BY DEF LiveInv, AdmissionInv, Runnable
  <2>3. live \in Seq(Nat) /\ Aligned(live, admitted[b], now)
    BY <2>1, <2>2, PrunedWindow, AlignedPruned
  <2> QED
    BY <2>1, <2>2, <2>3 DEF Execute
<1>1. timersBefore \in SUBSET PendingTimer /\ TimersInv(health, timersBefore) /\ KeyedInv(timersBefore)
  BY DEF LiveInv, TimersInv, KeyedInv, BlockTypeOK
<1>2. SuspensionInv(health, failures) /\ enabled[b] /\ health[b] = "Active"
  BY DEF LiveInv, Runnable
<1>3. /\ Aligned(Append(live, now), admitted'[b], now) /\ Spaced(admitted'[b])
      /\ \A c \in Blocks \ {b} : admitted'[c] = admitted[c]
  <2> DEFINE all == Append(admitted[b], now)
  <2>1. admitted' = [admitted EXCEPT ![b] = Remember(all)]
    BY DEF Execute
  <2>2. all \in Seq(Nat) /\ Append(live, now) \in Seq(Nat)
    BY <1>0, AppendProperties
  <2>3. Aligned(Append(live, now), all, now) /\ Spaced(all)
    BY <1>0, AlignedAppended
  <2>4. admitted'[b] = Remember(all) /\ \A c \in Blocks \ {b} : admitted'[c] = admitted[c]
    BY <2>1 DEF BlockTypeOK
  <2> HIDE DEF all
  <2>5. CASE Remember(all) = all
    BY <2>3, <2>4, <2>5
  <2>6. CASE all # <<>> /\ Remember(all) = Tail(all)
    BY <2>2, <2>3, <2>4, <2>6, AlignedForgotten
  <2> QED
    BY <2>2, <2>5, <2>6, RememberType
<1>4. CASE HandlerSucceeds(b, now, live, timersBefore, below)
  <2>1. PICK effects \in TimerEffects : pending' = ApplyTimerEffects(timersBefore, b, effects, now)
    BY <1>4 DEF HandlerSucceeds
  <2>2. TimersInv(health, pending') /\ KeyedInv(pending')
    BY <1>1, <2>1, ApplyTimerEffectsInv
  <2>3. health' = health /\ failures' = [failures EXCEPT ![b] = 0]
        /\ window' = [window EXCEPT ![b] = Append(live, now)]
    BY <1>4 DEF HandlerSucceeds
  <2>4. TimersInv(health, pending)' /\ KeyedInv(pending)'
    BY <2>2, <2>3 DEF TimersInv, KeyedInv, blockVars
  <2>5. SuspensionInv(health, failures)'
    BY <1>2, <2>3, LimitsAssumption DEF SuspensionInv, BlockTypeOK, blockVars
  <2>6. AdmissionInv(health', window', admitted', now)
    <3>1. window'[b] = Append(live, now) /\ \A c \in Blocks \ {b} : window'[c] = window[c]
      BY <2>3 DEF BlockTypeOK
    <3> QED
      BY <1>3, <2>3, <3>1, AdmissionUpdated DEF LiveInv
  <2> QED
    BY <2>4, <2>5, <2>6 DEF LiveInv, AdmissionInv
<1>5. CASE HandlerFails(b, now, live, timersBefore, below)
  <2>1. failures' = [failures EXCEPT ![b] = @ + 1]
    BY <1>5 DEF HandlerFails
  <2>2. CASE /\ failures[b] + 1 < FailureThreshold
             /\ window' = [window EXCEPT ![b] = Append(live, now)]
             /\ pending' = timersBefore
             /\ UNCHANGED health
    <3>1. TimersInv(health, pending)' /\ KeyedInv(pending)'
      BY <1>1, <2>2 DEF TimersInv, KeyedInv, blockVars
    <3>2. SuspensionInv(health, failures)'
      BY <1>2, <2>1, <2>2, LimitsAssumption DEF SuspensionInv, BlockTypeOK, blockVars
    <3>3. AdmissionInv(health', window', admitted', now)
      <4>1. window'[b] = Append(live, now) /\ \A c \in Blocks \ {b} : window'[c] = window[c]
        BY <2>2 DEF BlockTypeOK
      <4> QED
        BY <1>3, <2>2, <4>1, AdmissionUpdated DEF LiveInv
    <3> QED
      BY <3>1, <3>2, <3>3 DEF LiveInv, AdmissionInv
  <2>3. CASE /\ failures[b] + 1 >= FailureThreshold
             /\ health' = [health EXCEPT ![b] = "SuspendedScriptFailures"]
             /\ window' = [window EXCEPT ![b] = <<>>]
             /\ pending' = timersBefore \ TimersOf(timersBefore, b)
    <3>1. TimersInv(health, pending)'
      BY <1>1, <2>3 DEF TimersInv, TimersOf, BlockTypeOK, PendingTimer, blockVars
    <3>2. KeyedInv(pending)'
      BY <1>1, <2>3 DEF KeyedInv
    <3>3. SuspensionInv(health, failures)'
      BY <1>2, <2>1, <2>3, LimitsAssumption DEF SuspensionInv, BlockTypeOK, blockVars
    <3>4. AdmissionInv(health', window', admitted', now)
      <4>1. /\ health'[b] # "Active"
            /\ \A c \in Blocks \ {b} : health'[c] = health[c] /\ window'[c] = window[c]
        BY <2>3 DEF BlockTypeOK
      <4> QED
        BY <1>3, <4>1, AdmissionUpdated DEF LiveInv
    <3> QED
      BY <3>1, <3>2, <3>3, <3>4 DEF LiveInv, AdmissionInv
  <2> QED
    BY <1>5, <2>2, <2>3 DEF HandlerFails
<1> QED
  BY <1>4, <1>5 DEF Execute

LEMMA RootEventInv ==
    ASSUME TypeOK, RuntimeInv, Idle, NEW b \in Blocks, NEW now \in Time, now >= lastAcceptedAt,
           Runnable(b), NEW timersBefore \in SUBSET pending,
           RootEvent(b, now, timersBefore),
           lastAcceptedAt' = now, UNCHANGED blockVars
    PROVE  RuntimeInv'
<1>1. now \in Nat /\ lastAcceptedAt \in Nat /\ lastAcceptedAt <= now /\ BlockTypeOK
  BY ConstantTypes, TypeOKParts
<1>2. LiveInv(health, failures, window, admitted, pending, lastAcceptedAt)
  BY DEF RuntimeInv
<1>3. PICK live \in PruneLiveExecutionWindow(window[b], now) :
          \/ RejectAdmission(b, live) /\ UNCHANGED callVars
          \/ Execute(b, now, live, timersBefore, <<>>) /\ BeginCascade
  BY DEF RootEvent
<1>4. LiveInv(health, failures, window, admitted, pending, now)'
  BY <1>1, <1>2, <1>3, RejectAdmissionInv, ExecuteInv
<1>5. LiveInv(health, failures, window, admitted, pending, lastAcceptedAt)'
  BY <1>4 DEF LiveInv, TimersInv, KeyedInv, SuspensionInv, AdmissionInv
<1>6. CASE RejectAdmission(b, live) /\ UNCHANGED callVars
  BY <1>5, <1>6 DEF RuntimeInv, callVars, Idle
<1>7. CASE Execute(b, now, live, timersBefore, <<>>) /\ BeginCascade
  <2>1. /\ checkpoint'.health = health /\ checkpoint'.failures = failures
        /\ checkpoint'.window = window /\ checkpoint'.admitted = admitted
        /\ checkpoint'.pending = pending
        /\ checkpoint'.lastAcceptedAt = lastAcceptedAt
    BY <1>7 DEF BeginCascade, Snapshot
  <2>2. LiveInv(checkpoint.health, checkpoint.failures, checkpoint.window,
                checkpoint.admitted, checkpoint.pending, checkpoint.lastAcceptedAt)'
    BY <1>2, <2>1 DEF LiveInv, TimersInv, KeyedInv, SuspensionInv, AdmissionInv, blockVars
  <2> QED
    BY <1>5, <2>2 DEF RuntimeInv
<1> QED
  BY <1>3, <1>6, <1>7

\* A step that leaves the block state, the flags and the checkpoint alone.
LEMMA QuietInv ==
    ASSUME RuntimeInv,
           UNCHANGED <<health, failures, window, admitted, pending, lastAcceptedAt, blockVars>>,
           phase' = "cascade" => phase = "cascade" /\ checkpoint' = checkpoint
    PROVE  RuntimeInv'
<1>1. LiveInv(health, failures, window, admitted, pending, lastAcceptedAt)'
  BY DEF RuntimeInv, LiveInv, TimersInv, KeyedInv, SuspensionInv, AdmissionInv, blockVars
<1>2. phase' = "cascade" => LiveInv(checkpoint.health, checkpoint.failures, checkpoint.window,
                                   checkpoint.admitted, checkpoint.pending, checkpoint.lastAcceptedAt)'
  BY DEF RuntimeInv, LiveInv, TimersInv, KeyedInv, SuspensionInv, AdmissionInv, blockVars
<1> QED
  BY <1>1, <1>2 DEF RuntimeInv

LEMMA CascadeStepInv ==
    ASSUME TypeOK, RuntimeInv, CascadeStep
    PROVE  RuntimeInv'
<1>1. CASE CascadeTimeLimit
  BY <1>1, QuietInv DEF CascadeTimeLimit, liveVars
<1>2. CASE PublishOutput
  BY <1>2, QuietInv DEF PublishOutput, Running
<1>3. CASE VisitConsumer
  <2> DEFINE top   == Head(work)
             s     == top.signal
             b     == Consumers[s][top.next]
             below == <<[top EXCEPT !.next = @ + 1]>> \o Tail(work)
  <2>1. UNCHANGED <<lastAcceptedAt, blockVars, phase, checkpoint>> /\ phase = "cascade"
    BY <1>3 DEF VisitConsumer, Running
  <2>2. CASE ~Runnable(b) /\ UNCHANGED <<health, failures, window, admitted, pending>>
    BY <2>1, <2>2, QuietInv
  <2>3. ASSUME NEW live \in PruneLiveExecutionWindow(window[b], lastAcceptedAt), Runnable(b),
               \/ RejectAdmission(b, live)
               \/ Execute(b, lastAcceptedAt, live, pending, below)
        PROVE  RuntimeInv'
    <3>1. b \in Blocks
      <4>1. top \in Frame /\ Delivering(top)
        BY <1>3, TopFrame DEF VisitConsumer
      <4>2. s \in Signals /\ top.next \in Nat \ {0} /\ Len(Consumers[s]) \in Nat
        BY <4>1, FrameType, SignalsAssumption, LenProperties DEF Delivering
      <4>3. top.next <= Len(Consumers[s])
        BY <4>1 DEF Delivering
      <4>4. top.next \in 1..Len(Consumers[s])
        BY <4>2, <4>3
      <4> QED
        BY <4>2, <4>4, SignalsAssumption, ElementOfSeq
    <3>2. BlockTypeOK /\ lastAcceptedAt \in Nat /\ lastAcceptedAt <= lastAcceptedAt
          /\ LiveInv(health, failures, window, admitted, pending, lastAcceptedAt)
      BY TypeOKParts DEF RuntimeInv
    <3>4. LiveInv(health, failures, window, admitted, pending, lastAcceptedAt)'
      <4> DEFINE now == lastAcceptedAt
      <4>1. pending \in SUBSET pending
        OBVIOUS
      <4>2. CASE RejectAdmission(b, live)
        <5>1. \A last \in Nat : last = lastAcceptedAt => 
                 LiveInv(health, failures, window, admitted, pending, last)'
          BY <2>1, <2>3, <3>1, <3>2, <4>2, RejectAdmissionInv
        <5> QED
          BY <2>1, <3>2, <5>1 DEF LiveInv, AdmissionInv
      <4>3. CASE Execute(b, lastAcceptedAt, live, pending, below)
        <5>1. \A last \in Nat : last = lastAcceptedAt => 
                 LiveInv(health, failures, window, admitted, pending, last)'
          BY <2>1, <2>3, <3>1, <3>2, <4>1, <4>3, ExecuteInv
        <5> QED
          BY <2>1, <3>2, <5>1 DEF LiveInv, AdmissionInv
      <4> QED
        BY <2>3, <4>2, <4>3
    <3>5. LiveInv(checkpoint.health, checkpoint.failures, checkpoint.window,
                  checkpoint.admitted, checkpoint.pending, checkpoint.lastAcceptedAt)'
      BY <2>1 DEF RuntimeInv, LiveInv, TimersInv, KeyedInv, SuspensionInv, AdmissionInv, blockVars
    <3> QED
      BY <3>4, <3>5 DEF RuntimeInv
  <2> QED
    BY <1>3, <2>2, <2>3 DEF VisitConsumer
<1>4. CASE PropagationReturns
  BY <1>4, QuietInv DEF PropagationReturns, Running, liveVars
<1>5. CASE CommitCascade
  BY <1>5, QuietInv DEF CommitCascade, liveVars
<1>6. CASE RollBackCascade
  <2>1. LiveInv(checkpoint.health, checkpoint.failures, checkpoint.window,
                checkpoint.admitted, checkpoint.pending, checkpoint.lastAcceptedAt)
    BY <1>6 DEF RollBackCascade, RuntimeInv
  <2> QED
    BY <1>6, <2>1 DEF RollBackCascade, RuntimeInv, LiveInv, TimersInv, KeyedInv, SuspensionInv,
                      AdmissionInv, blockVars
<1> QED
  BY <1>1, <1>2, <1>3, <1>4, <1>5, <1>6 DEF CascadeStep

\* Time passes in a call that runs no handler.
LEMMA ObserveOnlyInv ==
    ASSUME TypeOK, RuntimeInv, Idle, NEW now \in Time, now >= lastAcceptedAt, ObserveOnly(now)
    PROVE  RuntimeInv'
<1>1. now \in Nat /\ lastAcceptedAt \in Nat /\ lastAcceptedAt <= now /\ BlockTypeOK
  BY ConstantTypes, TypeOKParts
<1>2. AdmissionInv(health, window, admitted, now)
  BY <1>1, AdmissionLater DEF RuntimeInv, LiveInv
<1>3. AdmissionInv(health, window, admitted, lastAcceptedAt)'
  BY <1>2 DEF ObserveOnly, AdmissionInv
<1>4. (TimersInv(health, pending) /\ KeyedInv(pending) /\ SuspensionInv(health, failures))'
  BY DEF RuntimeInv, LiveInv, TimersInv, KeyedInv, SuspensionInv, ObserveOnly, blockVars
<1> QED
  BY <1>3, <1>4 DEF RuntimeInv, LiveInv, ObserveOnly, callVars, Idle

\* Restarting the count of some blocks keeps AdmissionInv.
LEMMA WindowsEmptied ==
    ASSUME NEW last \in Nat, AdmissionInv(health, window, admitted, last),
           \A b \in Blocks : \/ admitted'[b] = <<>>
                             \/ /\ health'[b] = health[b] /\ window'[b] = window[b]
                                /\ admitted'[b] = admitted[b]
    PROVE  AdmissionInv(health', window', admitted', last)
<1>1. DOMAIN <<>> = {}
  BY EmptySeq
<1>2. \A b \in Blocks : admitted'[b] = <<>> =>
         Spaced(admitted'[b]) /\ Aligned(window'[b], admitted'[b], last)
  BY <1>1 DEF Spaced, Aligned
<1> QED
  BY <1>2 DEF AdmissionInv

\* Activation resets the health of every block it touches, and drops the timers
\* of those that get new logic or are switched off.
LEMMA ActivateInv ==
    ASSUME TypeOK, RuntimeInv,
           NEW source \in [Blocks -> Revisions], NEW on \in [Blocks -> BOOLEAN],
           Activate(source, on)
    PROVE  RuntimeInv'
<1>1. BlockTypeOK /\ lastAcceptedAt \in Nat /\ enabled \in [Blocks -> BOOLEAN]
      /\ LiveInv(health, failures, window, admitted, pending, lastAcceptedAt)
  BY TypeOKParts DEF RuntimeInv
<1>2. pending' = {p \in pending : ~(\/ source[p.block] # revision[p.block]
                                    \/ on[p.block] # enabled[p.block] /\ ~on[p.block])}
  BY DEF Activate
<1>3. \A b \in Blocks :
         \/ /\ source[b] # revision[b] \/ on[b] # enabled[b]
            /\ health'[b] = HealthFor(on[b]) /\ failures'[b] = 0 /\ admitted'[b] = <<>>
         \/ /\ source[b] = revision[b] /\ on[b] = enabled[b]
            /\ health'[b] = health[b] /\ failures'[b] = failures[b]
            /\ window'[b] = window[b] /\ admitted'[b] = admitted[b]
  BY DEF Activate
<1>4. revision' = source /\ enabled' = on /\ lastAcceptedAt' = lastAcceptedAt
  BY DEF Activate
<1>5. TimersInv(health, pending)'
  <2>1. SUFFICES ASSUME NEW t \in pending'
                 PROVE  source[t.block] = t.revision /\ on[t.block] /\ health'[t.block] = "Active"
    BY <1>4 DEF TimersInv
  <2>2. t \in pending /\ t.block \in Blocks
    BY <1>1, <1>2 DEF BlockTypeOK, PendingTimer
  <2>3. /\ source[t.block] = revision[t.block]
        /\ on[t.block] = enabled[t.block] \/ on[t.block]
    BY <1>2
  <2>4. t.revision = revision[t.block] /\ enabled[t.block] /\ health[t.block] = "Active"
    BY <1>1, <2>2 DEF LiveInv, TimersInv
  <2> QED
    BY <1>3, <2>2, <2>3, <2>4 DEF HealthFor
<1>6. KeyedInv(pending)'
  BY <1>1, <1>2 DEF LiveInv, KeyedInv
<1>7. SuspensionInv(health, failures)'
  <2>1. SUFFICES ASSUME NEW b \in Blocks
                 PROVE  /\ health'[b] = "Disabled" <=> ~on[b]
                        /\ health'[b] = "SuspendedScriptFailures" <=> failures'[b] >= FailureThreshold
                        /\ health'[b] = "SuspendedEventRate" => failures'[b] = 0
    BY <1>4 DEF SuspensionInv
  <2>2. CASE health'[b] = HealthFor(on[b]) /\ failures'[b] = 0
    BY <2>2, LimitsAssumption DEF HealthFor
  <2>3. CASE on[b] = enabled[b] /\ health'[b] = health[b] /\ failures'[b] = failures[b]
    BY <1>1, <2>3 DEF LiveInv, SuspensionInv
  <2> QED
    BY <1>3, <2>2, <2>3
<1>8. AdmissionInv(health, window, admitted, lastAcceptedAt)'
  BY <1>1, <1>3, <1>4, WindowsEmptied DEF LiveInv, AdmissionInv
<1> QED
  BY <1>5, <1>6, <1>7, <1>8 DEF RuntimeInv, LiveInv, Activate, Idle, callVars

\* Resuming a block resets its counters and leaves its timers alone: a
\* suspended block has none, an active one keeps its own.
LEMMA ResumeBlockInv ==
    ASSUME TypeOK, RuntimeInv, NEW b \in Blocks, ResumeBlock(b)
    PROVE  RuntimeInv'
<1>1. BlockTypeOK /\ lastAcceptedAt \in Nat
      /\ LiveInv(health, failures, window, admitted, pending, lastAcceptedAt)
  BY TypeOKParts DEF RuntimeInv
<1>2. TimersInv(health, pending)'
  BY <1>1 DEF LiveInv, TimersInv, ResumeBlock, BlockTypeOK, PendingTimer, HealthFor, blockVars
<1>3. KeyedInv(pending)'
  BY <1>1 DEF LiveInv, KeyedInv, ResumeBlock
<1>4. SuspensionInv(health, failures)'
  BY <1>1, LimitsAssumption
     DEF LiveInv, SuspensionInv, ResumeBlock, BlockTypeOK, HealthFor, blockVars
<1>5. AdmissionInv(health, window, admitted, lastAcceptedAt)'
  <2>1. \A c \in Blocks : \/ admitted'[c] = <<>>
                         \/ /\ health'[c] = health[c] /\ window'[c] = window[c]
                            /\ admitted'[c] = admitted[c]
    BY <1>1 DEF ResumeBlock, BlockTypeOK
  <2> QED
    BY <1>1, <2>1, WindowsEmptied DEF LiveInv, AdmissionInv, ResumeBlock
<1> QED
  BY <1>2, <1>3, <1>4, <1>5 DEF RuntimeInv, LiveInv, ResumeBlock, Idle, callVars

\* The runtime, and the checkpoint a running cascade may be rolled back to,
\* satisfy the invariant in every reachable state.
THEOREM RuntimeInvariant == Spec => []RuntimeInv
<1>1. Init => RuntimeInv
  <2> SUFFICES ASSUME Init PROVE RuntimeInv
    OBVIOUS
  <2>1. DOMAIN <<>> = {}
    BY EmptySeq
  <2>2. AdmissionInv(health, window, admitted, lastAcceptedAt)
    BY <2>1 DEF Init, AdmissionInv, Spaced, Aligned
  <2>3. SuspensionInv(health, failures)
    BY LimitsAssumption DEF Init, SuspensionInv, HealthFor
  <2>4. TimersInv(health, pending) /\ KeyedInv(pending)
    BY DEF Init, TimersInv, KeyedInv
  <2> QED
    BY <2>2, <2>3, <2>4 DEF Init, RuntimeInv, LiveInv
<1>2. TypeOK /\ RuntimeInv /\ [Next]_vars => RuntimeInv'
  <2> SUFFICES ASSUME TypeOK, RuntimeInv, [Next]_vars PROVE RuntimeInv'
    OBVIOUS
  <2>1. CASE \E now \in Time : ObserveInput(now)
    BY <2>1, ObserveOnlyInv DEF ObserveInput
  <2>2. CASE \E now \in Time, b \in Blocks : ProcessInput(b, now)
    <3>1. pending \in SUBSET pending
      OBVIOUS
    <3> QED
      BY <2>2, <3>1, ObserveOnlyInv, RootEventInv DEF ProcessInput
  <2>3. CASE \E now \in Time, b \in Blocks, current \in BOOLEAN : ProcessSchedule(b, now, current)
    <3>1. pending \in SUBSET pending
      OBVIOUS
    <3> QED
      BY <2>3, <3>1, ObserveOnlyInv, RootEventInv DEF ProcessSchedule
  <2>4. CASE \E now \in Time : ProcessNextDueTimer(now)
    <3>1. PICK now \in Time : ProcessNextDueTimer(now)
      BY <2>4
    <3>2. Idle /\ now >= lastAcceptedAt
      BY <3>1 DEF ProcessNextDueTimer
    <3>3. CASE ObserveOnly(now)
      BY <3>2, <3>3, ObserveOnlyInv
    <3>4. CASE \E p \in DueTimers(now) :
                  /\ RootEvent(p.block, now, pending \ {p})
                  /\ lastAcceptedAt' = now
                  /\ UNCHANGED <<signals, inputs, blockVars>>
      <4>1. PICK p \in DueTimers(now) :
                  /\ RootEvent(p.block, now, pending \ {p})
                  /\ lastAcceptedAt' = now
                  /\ UNCHANGED <<signals, inputs, blockVars>>
        BY <3>4
      <4>2. p.block \in Blocks /\ Runnable(p.block) /\ pending \ {p} \in SUBSET pending
        BY TypeOKParts DEF DueTimers, BlockTypeOK, PendingTimer
      <4> QED
        BY <3>2, <4>1, <4>2, RootEventInv
    <3> QED
      BY <3>1, <3>3, <3>4 DEF ProcessNextDueTimer
  <2>5. CASE CascadeStep
    BY <2>5, CascadeStepInv
  <2>6. CASE \E source \in [Blocks -> Revisions], on \in [Blocks -> BOOLEAN] : Activate(source, on)
    BY <2>6, ActivateInv
  <2>7. CASE \E b \in Blocks : ResumeBlock(b)
    BY <2>7, ResumeBlockInv
  <2>8. CASE UNCHANGED vars
    BY <2>8, QuietInv DEF vars, liveVars, callVars, blockVars
  <2> QED
    BY <2>1, <2>2, <2>3, <2>4, <2>5, <2>6, <2>7, <2>8 DEF Next
<1> QED
  BY <1>1, <1>2, TypeCorrect, PTL DEF Spec

\* No timer outlives the logic revision that scheduled it or the eligibility of its
\* block, whatever is activated, rolled back, suspended or run in between: engine.rs
\* never meets StaleTimer, and every deadline that next_timer_deadline reports belongs
\* to a timer that will be fired.
THEOREM PendingTimersAreLiveHolds == Spec => []PendingTimersAreLive
<1>1. RuntimeInv => PendingTimersAreLive
  BY DEF RuntimeInv, LiveInv, TimersInv, PendingTimersAreLive, Runnable
<1> QED
  BY <1>1, RuntimeInvariant, PTL

\* apply_timer_effects and the rollbacks keep one pending timer per name.
THEOREM TimersAreKeyedByNameHolds == Spec => []TimersAreKeyedByName
<1>1. RuntimeInv => TimersAreKeyedByName
  BY DEF RuntimeInv, LiveInv, KeyedInv, TimersAreKeyedByName
<1> QED
  BY <1>1, RuntimeInvariant, PTL

\* Health, the enabled flag and the failure counter agree in every state.
THEOREM SuspensionMatchesCauseHolds == Spec => []SuspensionMatchesCause
<1>1. RuntimeInv => SuspensionMatchesCause
  BY DEF RuntimeInv, LiveInv, SuspensionInv, SuspensionMatchesCause
<1> QED
  BY <1>1, RuntimeInvariant, PTL

\* Any MaxRate + 1 admissions of a block in a row span at least Window, for every rate,
\* window and length of history: what prune_live_execution_window has dropped can no
\* longer make the next admission one too many.
THEOREM RateRespectedHolds == Spec => []RateRespected
<1>1. RuntimeInv => RateRespected
  BY DEF RuntimeInv, LiveInv, AdmissionInv, Spaced, RateRespected
<1> QED
  BY <1>1, RuntimeInvariant, PTL

-----------------------------------------------------------------------------
\* Signals and their consumers
\*
\* Between calls every consumer holds the value of its signal.  Inside a cascade it
\* does not: a frame that visits the consumers of a signal leaves the ones it has not
\* reached behind, and everything the consumers publish in their turn runs before it
\* goes on.  The invariant says who is behind and which frame owes them the value, and
\* that no frame publishes a signal that a frame below it is still delivering.  That
\* last part is where the wiring matters: detect_signal_cycle refuses a configuration
\* in which a signal reaches its own producer.

\* A numbering of the blocks that grows along every signal: there is one exactly if no
\* signal reaches its own producer.
Ranks ==
    {rank \in [Blocks -> Blocks] :
        \A s \in Signals : \A i \in DOMAIN Consumers[s] :
            rank[Producer[s]] < rank[Consumers[s][i]]}
Acyclic == Ranks # {}
Rank    == CHOOSE rank \in Ranks : TRUE

\* The signals a frame has published or will publish.
SignalsOf(f) == {s \in Signals : f.outputs[s] # NoValue \/ f.signal = s}

\* One block per frame, and every frame belongs to a block that the signal of each
\* frame below it has led to.
StackOK(w) ==
    /\ \A k \in 1..Len(w) : \A r, s \in SignalsOf(w[k]) : Producer[r] = Producer[s]
    /\ \A k \in 1..Len(w) : \A j \in 1..Len(w) : j < k =>
          /\ w[k].signal \in Signals
          /\ \A r \in SignalsOf(w[j]) : Rank[Producer[w[k].signal]] < Rank[Producer[r]]

\* A frame delivers the value its signal has.
ValuesOK(w, sig) == \A k \in 1..Len(w) : w[k].signal \in Signals => w[k].value = sig[w[k].signal]

\* Some frame will still hand the value of s to its i-th consumer.
Owed(w, s, i) == \E k \in 1..Len(w) : w[k].signal = s /\ w[k].next <= i

ConsumersOK(w, sig, inp) ==
    \A s \in Signals : /\ DOMAIN inp[s] = DOMAIN Consumers[s]
                       /\ \A i \in DOMAIN Consumers[s] : inp[s][i] = sig[s] \/ Owed(w, s, i)

CascadeInv ==
    /\ phase = "idle" => work = <<>>
    /\ StackOK(work)
    /\ ValuesOK(work, signals)
    /\ ConsumersOK(work, signals, inputs)
    /\ phase = "cascade" => ConsumersOK(<<>>, checkpoint.signals, checkpoint.inputs)

LEMMA RankGrows ==
    ASSUME Acyclic
    PROVE  /\ Rank \in [Blocks -> Blocks] /\ Rank \in [Blocks -> Nat]
           /\ \A s \in Signals : \A i \in DOMAIN Consumers[s] :
                 Rank[Producer[s]] < Rank[Consumers[s][i]]
<1>1. Rank \in Ranks
  BY DEF Acyclic, Rank
<1> QED
  BY <1>1, ConstantTypes DEF Ranks

\* What a call of propagate_from_execution, its return and a step of the frame on top
\* do to the stack.
LEMMA PushedStack ==
    ASSUME NEW f \in Frame, NEW w \in Seq(Frame)
    PROVE  /\ <<f>> \o w \in Seq(Frame)
           /\ Len(<<f>> \o w) = Len(w) + 1
           /\ (<<f>> \o w)[1] = f
           /\ \A k \in 2..(Len(w) + 1) : (<<f>> \o w)[k] = w[k - 1]
<1>1. <<f>> \in Seq(Frame) /\ Len(<<f>>) = 1 /\ <<f>>[1] = f /\ Len(w) \in Nat
  BY LenProperties
<1> QED
  BY <1>1, ConcatProperties

LEMMA PoppedStack ==
    ASSUME NEW w \in Seq(Frame), w # <<>>
    PROVE  /\ Tail(w) \in Seq(Frame)
           /\ Len(w) \in Nat \ {0}
           /\ Len(Tail(w)) = Len(w) - 1
           /\ \A k \in 1..(Len(w) - 1) : Tail(w)[k] = w[k + 1]
           /\ Head(w) = w[1] /\ w[1] \in Frame
BY HeadTailProperties, LenProperties, EmptySeq, ElementOfSeq

LEMMA SteppedStack ==
    ASSUME NEW f \in Frame, NEW w \in Seq(Frame), w # <<>>
    PROVE  /\ <<f>> \o Tail(w) \in Seq(Frame)
           /\ Len(<<f>> \o Tail(w)) = Len(w)
           /\ (<<f>> \o Tail(w))[1] = f
           /\ \A k \in 2..Len(w) : (<<f>> \o Tail(w))[k] = w[k]
<1>1. /\ Tail(w) \in Seq(Frame) /\ Len(w) \in Nat \ {0} /\ Len(Tail(w)) = Len(w) - 1
      /\ \A k \in 1..(Len(w) - 1) : Tail(w)[k] = w[k + 1]
  BY PoppedStack
<1>2. /\ <<f>> \o Tail(w) \in Seq(Frame)
      /\ Len(<<f>> \o Tail(w)) = Len(Tail(w)) + 1
      /\ (<<f>> \o Tail(w))[1] = f
      /\ \A k \in 2..(Len(Tail(w)) + 1) : (<<f>> \o Tail(w))[k] = Tail(w)[k - 1]
  BY <1>1, PushedStack
<1> QED
  BY <1>1, <1>2

\* The frame on top goes on: it publishes no signal it did not have.
LEMMA StackSteps ==
    ASSUME NEW w \in Seq(Frame), NEW v \in Seq(Frame), w # <<>>, Len(v) = Len(w),
           \A k \in 2..Len(w) : v[k] = w[k],
           SignalsOf(v[1]) \subseteq SignalsOf(w[1]), StackOK(w)
    PROVE  StackOK(v)
<1>1. Len(w) \in Nat \ {0}
  BY PoppedStack
<1>2. \A k \in 1..Len(v) : SignalsOf(v[k]) \subseteq SignalsOf(w[k])
  <2>1. \A k \in 1..Len(v) : k = 1 \/ k \in 2..Len(w)
    BY <1>1
  <2> QED
    BY <2>1
<1>3. \A k \in 1..Len(v) : \A r, s \in SignalsOf(v[k]) : Producer[r] = Producer[s]
  BY <1>2 DEF StackOK
<1>4. ASSUME NEW k \in 1..Len(v), NEW j \in 1..Len(v), j < k
      PROVE  /\ v[k].signal \in Signals
             /\ \A r \in SignalsOf(v[j]) : Rank[Producer[v[k].signal]] < Rank[Producer[r]]
  <2>1. v[k] = w[k]
    BY <1>1, <1>4
  <2>2. SignalsOf(v[j]) \subseteq SignalsOf(w[j])
    BY <1>2
  <2> QED
    BY <2>1, <2>2, <1>4 DEF StackOK
<1> QED
  BY <1>3, <1>4 DEF StackOK

\* The frame on top returns.
LEMMA StackReturns ==
    ASSUME NEW w \in Seq(Frame), NEW v \in Seq(Frame), w # <<>>, Len(v) = Len(w) - 1,
           \A k \in 1..Len(v) : v[k] = w[k + 1], StackOK(w)
    PROVE  StackOK(v)
<1>1. Len(w) \in Nat \ {0}
  BY PoppedStack
<1>2. \A k \in 1..Len(v) : k + 1 \in 1..Len(w)
  BY <1>1
<1>3. \A k \in 1..Len(v) : \A r, s \in SignalsOf(v[k]) : Producer[r] = Producer[s]
  BY <1>2 DEF StackOK
<1>4. ASSUME NEW k \in 1..Len(v), NEW j \in 1..Len(v), j < k
      PROVE  /\ v[k].signal \in Signals
             /\ \A r \in SignalsOf(v[j]) : Rank[Producer[v[k].signal]] < Rank[Producer[r]]
  <2>1. v[k] = w[k + 1] /\ v[j] = w[j + 1] /\ j + 1 < k + 1
    BY <1>1, <1>4
  <2> QED
    BY <1>2, <2>1 DEF StackOK
<1> QED
  BY <1>3, <1>4 DEF StackOK

\* A consumer of the signal that the frame on top delivers is called.
LEMMA StackCalls ==
    ASSUME Acyclic, NEW w \in Seq(Frame), NEW v \in Seq(Frame), w # <<>>, Len(v) = Len(w) + 1,
           \A k \in 2..(Len(w) + 1) : v[k] = w[k - 1], StackOK(w),
           w[1].signal \in Signals, NEW i \in DOMAIN Consumers[w[1].signal],
           \A r \in SignalsOf(v[1]) : Producer[r] = Consumers[w[1].signal][i]
    PROVE  StackOK(v)
<1> DEFINE s == w[1].signal
           b == Consumers[s][i]
<1>1. Len(w) \in Nat \ {0}
  BY PoppedStack
<1>2. \A k \in 1..Len(v) : k # 1 => k - 1 \in 1..Len(w) /\ v[k] = w[k - 1]
  BY <1>1
<1>3. \A k \in 1..Len(v) : \A r, q \in SignalsOf(v[k]) : Producer[r] = Producer[q]
  BY <1>2 DEF StackOK
<1>4. s \in SignalsOf(w[1])
  BY DEF SignalsOf
<1>5. Rank[Producer[s]] < Rank[b] /\ b \in Blocks
  BY RankGrows, SignalsAssumption, ElementOfSeq, LenProperties
<1>6. \A r \in Signals : Producer[r] \in Blocks /\ Rank[Producer[r]] \in Nat
  BY RankGrows, SignalsAssumption
<1>7. Rank[b] \in Nat
  BY <1>5, RankGrows
<1>8. ASSUME NEW k \in 1..Len(v), NEW j \in 1..Len(v), j < k
      PROVE  /\ v[k].signal \in Signals
             /\ \A r \in SignalsOf(v[j]) : Rank[Producer[v[k].signal]] < Rank[Producer[r]]
  <2>1. k # 1 /\ v[k] = w[k - 1] /\ k - 1 \in 1..Len(w)
    BY <1>1, <1>2, <1>8
  <2>2. CASE j # 1
    <3>1. v[j] = w[j - 1] /\ j - 1 \in 1..Len(w) /\ j - 1 < k - 1
      BY <1>1, <1>2, <1>8, <2>2
    <3> QED
      BY <2>1, <3>1 DEF StackOK
  <2>3. CASE j = 1
    <3>1. v[k].signal \in Signals /\ Rank[Producer[v[k].signal]] <= Rank[Producer[s]]
      <4>1. CASE k = 2
        BY <2>1, <4>1, <1>6
      <4>2. CASE k # 2
        <5>1. 1 \in 1..Len(w) /\ 1 < k - 1
          BY <1>1, <2>1, <4>2
        <5>2. w[k - 1].signal \in Signals
              /\ Rank[Producer[w[k - 1].signal]] < Rank[Producer[s]]
          BY <2>1, <5>1, <1>4 DEF StackOK
        <5> QED
          BY <2>1, <5>2, <1>6
      <4> QED
        BY <4>1, <4>2
    <3>2. ASSUME NEW r \in SignalsOf(v[1])
          PROVE  Rank[Producer[v[k].signal]] < Rank[Producer[r]]
      <4>1. Producer[r] = b
        BY <3>2
      <4> QED
        BY <3>1, <4>1, <1>5, <1>6, <1>7
    <3> QED
      BY <2>3, <3>1, <3>2
  <2> QED
    BY <2>2, <2>3
<1> QED
  BY <1>3, <1>8 DEF StackOK

\* The frame of a handler that has just run: nothing is published or owed yet.
LEMMA FrameCalled ==
    ASSUME NEW w \in Seq(Frame), NEW f \in Frame, f.signal = NoSignal, NEW sig, NEW inp
    PROVE  /\ ValuesOK(w, sig) => ValuesOK(<<f>> \o w, sig)
           /\ ConsumersOK(w, sig, inp) => ConsumersOK(<<f>> \o w, sig, inp)
<1> DEFINE v == <<f>> \o w
<1>1. /\ Len(v) = Len(w) + 1 /\ v[1] = f /\ Len(w) \in Nat
      /\ \A k \in 2..(Len(w) + 1) : v[k] = w[k - 1]
  BY PushedStack, LenProperties
<1> HIDE DEF v
<1>2. ASSUME ValuesOK(w, sig), NEW k \in 1..Len(v), v[k].signal \in Signals
      PROVE  v[k].value = sig[v[k].signal]
  <2>1. k # 1
    BY <1>1, <1>2, ConstantTypes
  <2>2. k - 1 \in 1..Len(w) /\ v[k] = w[k - 1]
    BY <1>1, <2>1
  <2> QED
    BY <1>2, <2>2 DEF ValuesOK
<1>3. ASSUME NEW s \in Signals, NEW i \in DOMAIN Consumers[s], Owed(w, s, i)
      PROVE  Owed(v, s, i)
  <2>1. PICK k \in 1..Len(w) : w[k].signal = s /\ w[k].next <= i
    BY <1>3 DEF Owed
  <2>2. k + 1 \in 1..Len(v) /\ v[k + 1] = w[k]
    BY <1>1
  <2> QED
    BY <2>1, <2>2 DEF Owed
<1>4. ValuesOK(w, sig) => ValuesOK(v, sig)
  BY <1>2 DEF ValuesOK
<1>5. ConsumersOK(w, sig, inp) => ConsumersOK(v, sig, inp)
  BY <1>3 DEF ConsumersOK
<1> QED
  BY <1>4, <1>5 DEF v

\* A handler publishes only signals of its own block.
LEMMA ExecutePushes ==
    ASSUME NEW b \in Blocks, NEW now, NEW live, NEW timersBefore, NEW below,
           Execute(b, now, live, timersBefore, below)
    PROVE  \E f \in Frame : /\ f.signal = NoSignal
                            /\ \A r \in SignalsOf(f) : Producer[r] = b
                            /\ work' = <<f>> \o below
<1>1. PICK outputs \in Outputs(b) : work' = <<NewFrame(outputs)>> \o below
  <2>1. NoOutputs \in Outputs(b)
    BY DEF NoOutputs, Outputs
  <2> QED
    BY <2>1 DEF Execute, HandlerSucceeds, HandlerFails
<1>2. outputs \in [Signals -> Values \cup {NoValue}]
      /\ \A s \in Signals : Producer[s] # b => outputs[s] = NoValue
  BY DEF Outputs
<1>3. NewFrame(outputs) \in Frame
  BY <1>2, NewFrameType
<1>4. NewFrame(outputs).signal = NoSignal /\ NewFrame(outputs).outputs = outputs
  BY DEF NewFrame
<1>5. \A r \in SignalsOf(NewFrame(outputs)) : Producer[r] = b
  BY <1>2, <1>4, ConstantTypes DEF SignalsOf
<1> QED
  BY <1>1, <1>3, <1>4, <1>5

LEMMA PublishOutputConsumers ==
    ASSUME Acyclic, TypeOK, CascadeInv, PublishOutput
    PROVE  CascadeInv'
<1> DEFINE top == Head(work)
<1>1. /\ work \in Seq(Frame) /\ work # <<>> /\ phase = "cascade" /\ ~Delivering(top)
      /\ signals \in [Signals -> Values \cup {NoValue}]
      /\ inputs \in [Signals -> Seq(Values \cup {NoValue})]
  BY TypeOKParts DEF PublishOutput, Running
<1>2. top = work[1] /\ top \in Frame /\ Len(work) \in Nat \ {0}
  BY <1>1, PoppedStack
<1>3. /\ top.outputs \in [Signals -> Values \cup {NoValue}] /\ top.next \in Nat \ {0}
      /\ top.signal \in Signals \cup {NoSignal}
  BY <1>2, FrameType
<1>4. \A q \in Signals : Len(Consumers[q]) \in Nat /\ DOMAIN Consumers[q] = 1..Len(Consumers[q])
  BY SignalsAssumption, LenProperties
<1>5. PICK s \in Signals, n \in Nat \ {0} :
         /\ top.outputs[s] # NoValue
         /\ signals' = [signals EXCEPT ![s] = top.outputs[s]]
         /\ work' = <<[outputs |-> [top.outputs EXCEPT ![s] = NoValue], signal |-> s,
                       value |-> top.outputs[s], next |-> n]>> \o Tail(work)
         /\ \/ n = 1 /\ inputs' = inputs
            \/ inputs' = [inputs EXCEPT ![s] = [i \in DOMAIN Consumers[s] |-> top.outputs[s]]]
  <2>1. \A q \in Signals : 1 \in Nat \ {0} /\ Len(Consumers[q]) + 1 \in Nat \ {0}
    BY <1>4
  <2> QED
    BY <2>1 DEF PublishOutput
<1>6. PICK f \in Frame : /\ f.outputs = [top.outputs EXCEPT ![s] = NoValue] /\ f.signal = s
                         /\ f.value = top.outputs[s] /\ f.next = n
                         /\ work' = <<f>> \o Tail(work)
  <2> DEFINE f == [outputs |-> [top.outputs EXCEPT ![s] = NoValue], signal |-> s,
                   value |-> top.outputs[s], next |-> n]
  <2>1. f \in Frame
    BY <1>3 DEF Frame
  <2> QED
    BY <1>5, <2>1
<1>7. /\ work' \in Seq(Frame) /\ Len(work') = Len(work) /\ work'[1] = f
      /\ \A k \in 2..Len(work) : work'[k] = work[k]
  BY <1>1, <1>6, SteppedStack
<1>8. SignalsOf(f) \subseteq SignalsOf(top) /\ s \in SignalsOf(top)
  BY <1>3, <1>5, <1>6 DEF SignalsOf
<1>9. StackOK(work')
  BY <1>1, <1>2, <1>7, <1>8, StackSteps DEF CascadeInv
<1>10. ASSUME NEW k \in 2..Len(work)
       PROVE  work[k].signal \in Signals /\ work[k].signal # s
  <2>1. 1 \in 1..Len(work) /\ k \in 1..Len(work) /\ 1 < k
    BY <1>2
  <2>2. work[k].signal \in Signals /\ Rank[Producer[work[k].signal]] < Rank[Producer[s]]
    BY <1>2, <1>8, <2>1 DEF CascadeInv, StackOK
  <2>3. Rank[Producer[s]] \in Nat
    BY RankGrows, SignalsAssumption
  <2> QED
    BY <2>2, <2>3
<1>11. signals'[s] = top.outputs[s] /\ \A q \in Signals : q # s => signals'[q] = signals[q]
  BY <1>1, <1>5
<1>12. ValuesOK(work', signals')
  <2>1. SUFFICES ASSUME NEW k \in 1..Len(work'), work'[k].signal \in Signals
                 PROVE  work'[k].value = signals'[work'[k].signal]
    BY DEF ValuesOK
  <2>2. CASE k = 1
    BY <1>6, <1>7, <1>11, <2>2
  <2>3. CASE k # 1
    <3>1. k \in 2..Len(work) /\ k \in 1..Len(work)
      BY <1>2, <1>7, <2>3
    <3>2. work'[k] = work[k] /\ work[k].signal \in Signals /\ work[k].signal # s
      BY <1>7, <1>10, <3>1
    <3> QED
      BY <1>11, <3>1, <3>2 DEF CascadeInv, ValuesOK
  <2> QED
    BY <2>2, <2>3
<1>13. ASSUME NEW q \in Signals, q # s, NEW i \in DOMAIN Consumers[q], Owed(work, q, i)
       PROVE  Owed(work', q, i)
  <2>1. PICK k \in 1..Len(work) : work[k].signal = q /\ work[k].next <= i
    BY <1>13 DEF Owed
  <2>2. k # 1
    <3>1. i \in 1..Len(Consumers[q]) /\ Len(Consumers[q]) \in Nat
      BY <1>4
    <3>2. ~(top.signal = q /\ top.next <= i)
      BY <1>1, <1>3, <3>1, ConstantTypes DEF Delivering
    <3> QED
      BY <1>2, <2>1, <3>2
  <2>3. k \in 2..Len(work) /\ k \in 1..Len(work')
    BY <1>2, <1>7, <2>2
  <2> QED
    BY <1>7, <2>1, <2>3 DEF Owed
<1>14. ConsumersOK(work', signals', inputs')
  <2>1. SUFFICES ASSUME NEW q \in Signals
                 PROVE  /\ DOMAIN inputs'[q] = DOMAIN Consumers[q]
                        /\ \A i \in DOMAIN Consumers[q] :
                              inputs'[q][i] = signals'[q] \/ Owed(work', q, i)
    BY DEF ConsumersOK
  <2>2. DOMAIN inputs[q] = DOMAIN Consumers[q]
        /\ \A i \in DOMAIN Consumers[q] : inputs[q][i] = signals[q] \/ Owed(work, q, i)
    BY DEF CascadeInv, ConsumersOK
  <2>3. CASE q # s
    <3>1. inputs'[q] = inputs[q] /\ signals'[q] = signals[q]
      BY <1>1, <1>5, <2>3
    <3> QED
      BY <1>13, <2>2, <2>3, <3>1
  <2>4. CASE q = s /\ n = 1 /\ inputs' = inputs
    <3>1. \A i \in DOMAIN Consumers[s] : 1 <= i
      BY <1>4
    <3>2. 1 \in 1..Len(work') /\ work'[1].signal = s /\ work'[1].next = 1
      BY <1>2, <1>6, <1>7, <2>4
    <3>3. \A i \in DOMAIN Consumers[s] : Owed(work', s, i)
      BY <3>1, <3>2 DEF Owed
    <3> QED
      BY <2>2, <2>4, <3>3
  <2>5. CASE q = s /\ inputs' = [inputs EXCEPT ![s] = [i \in DOMAIN Consumers[s] |-> top.outputs[s]]]
    <3>1. inputs'[s] = [i \in DOMAIN Consumers[s] |-> top.outputs[s]]
      BY <1>1, <2>5
    <3> QED
      BY <1>11, <2>5, <3>1
  <2> QED
    BY <1>5, <2>3, <2>4, <2>5
<1>15. phase' = "cascade" /\ checkpoint' = checkpoint
  BY <1>1 DEF PublishOutput
<1> QED
  BY <1>1, <1>9, <1>12, <1>14, <1>15 DEF CascadeInv

LEMMA VisitConsumerConsumers ==
    ASSUME Acyclic, TypeOK, CascadeInv, VisitConsumer
    PROVE  CascadeInv'
<1> DEFINE top == Head(work)
           s   == top.signal
           n   == top.next
           b   == Consumers[s][n]
<1>1. /\ work \in Seq(Frame) /\ work # <<>> /\ phase = "cascade" /\ Delivering(top)
      /\ inputs \in [Signals -> Seq(Values \cup {NoValue})]
  BY TypeOKParts DEF VisitConsumer, Running
<1>2. top = work[1] /\ top \in Frame /\ Len(work) \in Nat \ {0}
  BY <1>1, PoppedStack
<1>3. PICK g \in Frame : /\ g = [top EXCEPT !.next = @ + 1]
                         /\ g.outputs = top.outputs /\ g.signal = s /\ g.value = top.value
                         /\ g.next = n + 1
  BY <1>2, FrameType DEF Frame
<1>4. s \in Signals /\ n \in Nat \ {0} /\ n <= Len(Consumers[s])
  BY <1>1, <1>2, FrameType DEF Delivering
<1>5. Len(Consumers[s]) \in Nat /\ DOMAIN Consumers[s] = 1..Len(Consumers[s])
      /\ n \in DOMAIN Consumers[s]
  BY <1>4, SignalsAssumption, LenProperties
<1>6. b \in Blocks
  BY <1>4, <1>5, SignalsAssumption, ElementOfSeq
<1>7. PICK below \in Seq(Frame) : below = <<g>> \o Tail(work)
  BY <1>1, SteppedStack
<1>8. /\ Len(below) = Len(work) /\ below[1] = g /\ below # <<>>
      /\ \A k \in 2..Len(work) : below[k] = work[k]
  <2>1. /\ Len(below) = Len(work) /\ below[1] = g
        /\ \A k \in 2..Len(work) : below[k] = work[k]
    BY <1>1, <1>7, SteppedStack
  <2> QED
    BY <1>2, <2>1, EmptySeq
<1>9. StackOK(below)
  <2>1. SignalsOf(below[1]) \subseteq SignalsOf(work[1])
    BY <1>2, <1>3, <1>8 DEF SignalsOf
  <2> QED
    BY <1>1, <1>8, <2>1, StackSteps DEF CascadeInv
<1>10. ASSUME NEW k \in 1..Len(work)
       PROVE  /\ below[k].signal = work[k].signal /\ below[k].value = work[k].value
              /\ k # 1 => below[k] = work[k]
  <2>1. k = 1 \/ k \in 2..Len(work)
    BY <1>2
  <2> QED
    BY <1>2, <1>3, <1>8, <2>1
<1>11. ValuesOK(below, signals)
  BY <1>8, <1>10 DEF CascadeInv, ValuesOK
<1>12. top.value = signals[s]
  <2>1. 1 \in 1..Len(work)
    BY <1>2
  <2> QED
    BY <1>2, <1>4, <2>1 DEF CascadeInv, ValuesOK
<1>13. /\ inputs'[s] = [inputs[s] EXCEPT ![n] = top.value]
       /\ \A q \in Signals : q # s => inputs'[q] = inputs[q]
  <2>1. inputs' = [inputs EXCEPT ![s][n] = top.value]
    BY DEF VisitConsumer
  <2> QED
    BY <1>1, <1>4, <2>1
<1>14. ASSUME NEW q \in Signals, NEW i \in DOMAIN Consumers[q], Owed(work, q, i),
              q # s \/ i # n
       PROVE  Owed(below, q, i)
  <2>1. PICK k \in 1..Len(work) : work[k].signal = q /\ work[k].next <= i
    BY <1>14 DEF Owed
  <2>2. below[k].signal = q /\ k \in 1..Len(below)
    BY <1>8, <1>10, <2>1
  <2>3. below[k].next <= i
    <3>1. CASE k # 1
      BY <1>10, <2>1, <3>1
    <3>2. CASE k = 1
      <4>1. q = s /\ n <= i /\ i # n
        BY <1>2, <1>14, <2>1, <3>2
      <4>2. i \in Nat
        BY <1>5, <4>1
      <4>3. n + 1 <= i
        BY <1>4, <4>1, <4>2
      <4> QED
        BY <1>3, <1>8, <3>2, <4>3
    <3> QED
      BY <3>1, <3>2
  <2> QED
    BY <2>2, <2>3 DEF Owed
<1>15. ConsumersOK(below, signals, inputs')
  <2>1. SUFFICES ASSUME NEW q \in Signals
                 PROVE  /\ DOMAIN inputs'[q] = DOMAIN Consumers[q]
                        /\ \A i \in DOMAIN Consumers[q] :
                              inputs'[q][i] = signals[q] \/ Owed(below, q, i)
    BY DEF ConsumersOK
  <2>2. DOMAIN inputs[q] = DOMAIN Consumers[q]
        /\ \A i \in DOMAIN Consumers[q] : inputs[q][i] = signals[q] \/ Owed(work, q, i)
    BY DEF CascadeInv, ConsumersOK
  <2>3. CASE q # s
    BY <1>13, <1>14, <2>2, <2>3
  <2>4. CASE q = s
    <3>1. DOMAIN inputs'[s] = DOMAIN Consumers[s]
      BY <1>13, <2>2, <2>4
    <3>2. inputs'[s][n] = signals[s]
      BY <1>5, <1>12, <1>13, <2>2, <2>4
    <3>3. \A i \in DOMAIN Consumers[s] : i # n => inputs'[s][i] = inputs[s][i]
      BY <1>13, <2>2, <2>4
    <3> QED
      BY <1>14, <2>2, <2>4, <3>1, <3>2, <3>3
  <2> QED
    BY <2>3, <2>4
<1>16. CASE work' = below
  BY <1>1, <1>9, <1>11, <1>15, <1>16 DEF CascadeInv, VisitConsumer
<1>17. ASSUME NEW f \in Frame, f.signal = NoSignal, \A r \in SignalsOf(f) : Producer[r] = b,
              work' = <<f>> \o below
       PROVE  CascadeInv'
  <2>1. /\ work' \in Seq(Frame) /\ Len(work') = Len(below) + 1 /\ work'[1] = f
        /\ \A k \in 2..(Len(below) + 1) : work'[k] = below[k - 1]
    BY <1>17, PushedStack
  <2>2. /\ below[1].signal \in Signals /\ n \in DOMAIN Consumers[below[1].signal]
        /\ \A r \in SignalsOf(work'[1]) : Producer[r] = Consumers[below[1].signal][n]
    BY <1>3, <1>4, <1>5, <1>8, <1>17, <2>1
  <2> HIDE DEF n
  <2>3. StackOK(work')
    BY <1>8, <1>9, <2>1, <2>2, StackCalls
  <2>4. ValuesOK(work', signals) /\ ConsumersOK(work', signals, inputs')
    BY <1>11, <1>15, <1>17, FrameCalled
  <2> QED
    BY <1>1, <2>3, <2>4 DEF CascadeInv, VisitConsumer
<1>18. work' = below \/ \E live : Execute(b, lastAcceptedAt, live, pending, below)
  BY <1>3, <1>7 DEF VisitConsumer
<1>19. ASSUME NEW live, Execute(b, lastAcceptedAt, live, pending, below)
       PROVE  CascadeInv'
  <2> HIDE DEF b
  <2>1. PICK f \in Frame : /\ f.signal = NoSignal
                           /\ \A r \in SignalsOf(f) : Producer[r] = b
                           /\ work' = <<f>> \o below
    BY <1>6, <1>19, ExecutePushes
  <2> QED
    BY <1>17, <2>1
<1> QED
  BY <1>16, <1>18, <1>19

LEMMA PropagationReturnsConsumers ==
    ASSUME TypeOK, CascadeInv, PropagationReturns
    PROVE  CascadeInv'
<1>1. /\ work \in Seq(Frame) /\ work # <<>> /\ phase = "cascade" /\ ~Delivering(Head(work))
      /\ work' = Tail(work) /\ signals' = signals /\ inputs' = inputs
      /\ phase' = phase /\ checkpoint' = checkpoint
  BY TypeOKParts DEF PropagationReturns, Running, liveVars
<1>2. /\ work' \in Seq(Frame) /\ Len(work) \in Nat \ {0} /\ Len(work') = Len(work) - 1
      /\ \A k \in 1..Len(work') : work'[k] = work[k + 1]
      /\ Head(work) = work[1] /\ work[1] \in Frame
  BY <1>1, PoppedStack
<1>3. StackOK(work')
  BY <1>1, <1>2, StackReturns DEF CascadeInv
<1>4. ValuesOK(work', signals)
  <2>1. \A k \in 1..Len(work') : k + 1 \in 1..Len(work) /\ work'[k] = work[k + 1]
    BY <1>2
  <2> QED
    BY <2>1 DEF CascadeInv, ValuesOK
<1>5. ASSUME NEW q \in Signals, NEW i \in DOMAIN Consumers[q], Owed(work, q, i)
      PROVE  Owed(work', q, i)
  <2>1. PICK k \in 1..Len(work) : work[k].signal = q /\ work[k].next <= i
    BY <1>5 DEF Owed
  <2>2. k # 1
    <3>1. i \in 1..Len(Consumers[q]) /\ Len(Consumers[q]) \in Nat
      BY SignalsAssumption, LenProperties
    <3>2. work[1].next \in Nat
      BY <1>2, FrameType
    <3>3. ~(work[1].signal = q /\ work[1].next <= i)
      BY <1>1, <1>2, <3>1, <3>2, ConstantTypes DEF Delivering
    <3> QED
      BY <2>1, <3>3
  <2>3. k - 1 \in 1..Len(work') /\ work'[k - 1] = work[k]
    BY <1>2, <2>2
  <2> QED
    BY <2>1, <2>3 DEF Owed
<1>6. ConsumersOK(work', signals, inputs)
  BY <1>5 DEF CascadeInv, ConsumersOK
<1> QED
  BY <1>1, <1>3, <1>4, <1>6 DEF CascadeInv

\* With no frame left nobody is owed a value, and a snapshot in which all are up to
\* date can be put back.
LEMMA NobodyOwed ==
    ASSUME NEW sig, NEW inp
    PROVE  /\ StackOK(<<>>) /\ ValuesOK(<<>>, sig)
           /\ ConsumersOK(<<>>, sig, inp) <=>
                 \A s \in Signals : /\ DOMAIN inp[s] = DOMAIN Consumers[s]
                                    /\ \A i \in DOMAIN Consumers[s] : inp[s][i] = sig[s]
<1>1. 1..Len(<<>>) = {}
  BY EmptySeq
<1>2. \A s, i : ~Owed(<<>>, s, i)
  BY <1>1 DEF Owed
<1> QED
  BY <1>1, <1>2 DEF StackOK, ValuesOK, ConsumersOK

\* The event of a block runs its handler, or changes no signal.
LEMMA RootEventConsumers ==
    ASSUME TypeOK, CascadeInv, Idle, NEW b \in Blocks, NEW now, NEW timersBefore,
           RootEvent(b, now, timersBefore), UNCHANGED <<signals, inputs>>
    PROVE  CascadeInv'
<1>0. work = <<>>
  BY DEF CascadeInv, Idle
<1>1. CASE UNCHANGED callVars
  BY <1>1 DEF CascadeInv, callVars
<1>2. CASE \E live : Execute(b, now, live, timersBefore, <<>>) /\ BeginCascade
  <2>1. PICK f \in Frame : /\ f.signal = NoSignal
                           /\ \A r \in SignalsOf(f) : Producer[r] = b
                           /\ work' = <<f>> \o <<>>
    BY <1>2, ExecutePushes
  <2>2. <<>> \in Seq(Frame) /\ Len(<<>>) = 0
    BY EmptySeq
  <2>3. Len(work') = 1 /\ work'[1] = f
    BY <2>1, <2>2, PushedStack
  <2>4. StackOK(work')
    <3>1. 1..Len(work') = {1} /\ ~(1 < 1)
      BY <2>3
    <3> QED
      BY <2>1, <2>3, <3>1 DEF StackOK
  <2>5. ValuesOK(<<>>, signals) /\ ConsumersOK(<<>>, signals, inputs)
    BY <1>0 DEF CascadeInv
  <2>6. ValuesOK(work', signals) /\ ConsumersOK(work', signals, inputs)
    BY <2>1, <2>2, <2>5, FrameCalled
  <2>7. phase' = "cascade" /\ checkpoint'.signals = signals /\ checkpoint'.inputs = inputs
    BY <1>2 DEF BeginCascade, Snapshot
  <2> QED
    BY <2>4, <2>5, <2>6, <2>7 DEF CascadeInv
<1> QED
  BY <1>1, <1>2 DEF RootEvent

\* CascadeInv holds before, inside and after every cascade of propagate_from_execution,
\* provided that the signals have no cycle and cascades have no time budget.
THEOREM CascadeInvariant ==
    ASSUME Acyclic, ~HasTimeBudget
    PROVE  Spec => []CascadeInv
<1>1. Init => CascadeInv
  <2> SUFFICES ASSUME Init PROVE CascadeInv
    OBVIOUS
  <2>1. work = <<>> /\ phase = "idle"
    BY DEF Init
  <2>2. ConsumersOK(<<>>, signals, inputs)
    BY NobodyOwed DEF Init
  <2> QED
    BY <2>1, <2>2, NobodyOwed DEF CascadeInv
<1>2. TypeOK /\ CascadeInv /\ [Next]_vars => CascadeInv'
  <2> SUFFICES ASSUME TypeOK, CascadeInv, [Next]_vars PROVE CascadeInv'
    OBVIOUS
  <2>1. ASSUME UNCHANGED <<signals, inputs, callVars>> PROVE CascadeInv'
    BY <2>1 DEF CascadeInv, callVars
  <2>2. ASSUME NEW now, ObserveOnly(now) PROVE CascadeInv'
    BY <2>1, <2>2 DEF ObserveOnly
  <2>3. CASE \E now \in Time : ObserveInput(now)
    BY <2>2, <2>3 DEF ObserveInput
  <2>4. CASE \E now \in Time, b \in Blocks : ProcessInput(b, now)
    BY <2>2, <2>4, RootEventConsumers DEF ProcessInput
  <2>5. CASE \E now \in Time, b \in Blocks, current \in BOOLEAN : ProcessSchedule(b, now, current)
    BY <2>2, <2>5, RootEventConsumers DEF ProcessSchedule
  <2>6. CASE \E now \in Time : ProcessNextDueTimer(now)
    <3>1. PICK now \in Time : ProcessNextDueTimer(now)
      BY <2>6
    <3>2. \A p \in DueTimers(now) : p.block \in Blocks
      BY TypeOKParts DEF BlockTypeOK, DueTimers, PendingTimer
    <3> QED
      BY <2>2, <3>1, <3>2, RootEventConsumers DEF ProcessNextDueTimer
  <2>7. CASE CascadeStep
    <3>1. CASE PublishOutput
      BY <3>1, PublishOutputConsumers
    <3>2. CASE VisitConsumer
      BY <3>2, VisitConsumerConsumers
    <3>3. CASE PropagationReturns
      BY <3>3, PropagationReturnsConsumers
    <3>4. CASE CommitCascade
      BY <3>4 DEF CommitCascade, CascadeInv, liveVars
    <3>5. CASE RollBackCascade
      <4>1. /\ phase' = "idle" /\ work' = <<>> /\ signals' = checkpoint.signals
            /\ inputs' = checkpoint.inputs
            /\ ConsumersOK(<<>>, checkpoint.signals, checkpoint.inputs)
        BY <3>5 DEF RollBackCascade, CascadeInv
      <4> QED
        BY <4>1, NobodyOwed DEF CascadeInv
    <3> QED
      BY <2>7, <3>1, <3>2, <3>3, <3>4, <3>5 DEF CascadeStep, CascadeTimeLimit
  <2>8. CASE \E source \in [Blocks -> Revisions], on \in [Blocks -> BOOLEAN] : Activate(source, on)
    BY <2>1, <2>8 DEF Activate
  <2>9. CASE \E b \in Blocks : ResumeBlock(b)
    BY <2>1, <2>9 DEF ResumeBlock
  <2>10. CASE UNCHANGED vars
    BY <2>1, <2>10 DEF vars, liveVars
  <2> QED
    BY <2>3, <2>4, <2>5, <2>6, <2>7, <2>8, <2>9, <2>10 DEF Next
<1> QED
  BY <1>1, <1>2, TypeCorrect, PTL DEF Spec

\* Between calls every consumer endpoint holds the value of its signal: every cascade of
\* propagate_from_execution has reached all consumers when it ends, whatever blocks were
\* disabled, suspended or refused on the way, and a rollback restores both sides.  It
\* holds of every wiring detect_signal_cycle accepts, on a host without a cascade time
\* budget (the desktop; the embedded profile's CascadeTimeLimit is not rolled back).
THEOREM ConsumersHoldSignalValueHolds ==
    ASSUME Acyclic, ~HasTimeBudget
    PROVE  Spec => []ConsumersHoldSignalValue
<1>1. CascadeInv => ConsumersHoldSignalValue
  <2> SUFFICES ASSUME CascadeInv, Idle,
                      NEW s \in Signals, NEW i \in DOMAIN Consumers[s]
               PROVE  inputs[s][i] = signals[s]
    BY DEF ConsumersHoldSignalValue
  <2>1. ConsumersOK(<<>>, signals, inputs)
    BY DEF CascadeInv, Idle
  <2> QED
    BY <2>1, NobodyOwed
<1> QED
  BY <1>1, CascadeInvariant, PTL

-----------------------------------------------------------------------------
\* The cascade limit
\*
\* A cascade never runs out of executions, because cascade_size counts for each block all
\* that its outputs can cause.  The proof needs what the two sums of cascade_size compute
\* and that its recursion is well founded, which it is because the wiring has no cycle;
\* the invariant then says that the executions so far and those that the frames of the
\* stack may still cause stay within the limit.
\*
\* First, sums.

\* A set of naturals has a least member.
LEMMA LeastNatural ==
    ASSUME NEW S \in SUBSET Nat, S # {}
    PROVE  \E x \in S : \A y \in S : x <= y
<1>1. PICK x \in S : \A y \in S : <<y, x>> \notin OpToRel(<, Nat)
  BY NatLessThanWellFounded, WFMin
<1>2. \A y \in S : ~(y < x)
  BY <1>1 DEF OpToRel
<1> QED
  BY <1>2

\* The sum of f over T, counted: f[x] pairs for every x of T.
Pairs(f, T)  == UNION {{x} \X (1..f[x]) : x \in T}
Weight(f, T) == Cardinality(Pairs(f, T))

LEMMA PairsOf ==
    ASSUME NEW f, NEW T
    PROVE  \A p : p \in Pairs(f, T) <=> \E x \in T : p \in {x} \X (1..f[x])
  BY DEF Pairs

LEMMA PairsFinite ==
    ASSUME NEW f, NEW T, IsFiniteSet(T), \A x \in T : f[x] \in Nat
    PROVE  IsFiniteSet(Pairs(f, T)) /\ Weight(f, T) \in Nat
<1> DEFINE R == {{x} \X (1..f[x]) : x \in T}
           g == [x \in T |-> {x} \X (1..f[x])]
<1>1. g \in Surjection(T, R)
  <2>1. g \in [T -> R]
    OBVIOUS
  <2>2. \A r \in R : \E x \in T : g[x] = r
    OBVIOUS
  <2> HIDE DEF g, R
  <2> QED
    BY <2>1, <2>2 DEF Surjection
<1>2. IsFiniteSet(R)
  BY <1>1, FS_Surjection
<1>3. ASSUME NEW x \in T PROVE IsFiniteSet({x} \X (1..f[x]))
  <2>1. IsFiniteSet({x})
    BY FS_Singleton
  <2>2. IsFiniteSet(1..f[x])
    BY FS_Interval
  <2> QED
    BY <2>1, <2>2, FS_Product
<1>4. \A r \in R : IsFiniteSet(r)
  BY <1>3
<1>5. IsFiniteSet(UNION R)
  BY <1>2, <1>4, FS_UNION
<1> QED
  BY <1>5, FS_CardinalityType DEF Pairs, Weight

LEMMA WeightEmpty ==
    ASSUME NEW f
    PROVE  Weight(f, {}) = 0
<1>1. Pairs(f, {}) = {}
  BY DEF Pairs
<1> QED
  BY <1>1, FS_EmptySet DEF Weight

LEMMA WeightMonotone ==
    ASSUME NEW f, NEW T, IsFiniteSet(T), \A x \in T : f[x] \in Nat, NEW U \in SUBSET T
    PROVE  Weight(f, U) <= Weight(f, T)
<1>1. Pairs(f, U) \in SUBSET Pairs(f, T)
  BY DEF Pairs
<1> QED
  BY <1>1, PairsFinite, FS_Subset DEF Weight

LEMMA WeightRemove ==
    ASSUME NEW f, NEW T, IsFiniteSet(T), \A y \in T : f[y] \in Nat, NEW x \in T
    PROVE  Weight(f, T) = f[x] + Weight(f, T \ {x})
<1> DEFINE A == {x} \X (1..f[x])
           B == Pairs(f, T \ {x})
<1>1. Pairs(f, T) = A \cup B
  BY PairsOf
<1>2. A \cap B = {}
  <2>1. ASSUME NEW p \in A, p \in B PROVE FALSE
    <3>1. PICK y \in T \ {x} : p \in {y} \X (1..f[y])
      BY <2>1, PairsOf
    <3>2. p[1] = y /\ p[1] = x
      BY <2>1, <3>1
    <3> QED
      BY <3>1, <3>2
  <2> QED
    BY <2>1
<1>3. IsFiniteSet(A) /\ Cardinality(A) = f[x]
  <2>1. IsFiniteSet({x}) /\ Cardinality({x}) = 1
    BY FS_Singleton
  <2>2. IsFiniteSet(1..f[x]) /\ Cardinality(1..f[x]) = f[x]
    BY FS_Interval
  <2>3. IsFiniteSet(A) /\ Cardinality(A) = Cardinality({x}) * Cardinality(1..f[x])
    BY <2>1, <2>2, FS_Product
  <2> QED
    BY <2>1, <2>2, <2>3
<1>4. IsFiniteSet(T \ {x})
  BY FS_RemoveElement
<1>5. IsFiniteSet(B) /\ Cardinality(B) \in Nat
  BY <1>4, PairsFinite DEF Weight
<1> HIDE DEF A, B
<1>6. Cardinality(A \cup B) = Cardinality(A) + Cardinality(B) - Cardinality(A \cap B)
  BY <1>3, <1>5, FS_Union
<1>7. Cardinality(A \cap B) = 0
  BY <1>2, FS_EmptySet
<1> QED
  BY <1>1, <1>3, <1>5, <1>6, <1>7 DEF Weight, B

\* A function with the same values has the same sum.
LEMMA WeightSame ==
    ASSUME NEW f, NEW g, NEW T, \A x \in T : f[x] = g[x]
    PROVE  Weight(f, T) = Weight(g, T)
<1>1. Pairs(f, T) = Pairs(g, T)
  BY PairsOf
<1> QED
  BY <1>1 DEF Weight

-----------------------------------------------------------------------------
\* What Total computes: FoldFunction takes one element after the other.

Some(t) == CHOOSE x \in t : TRUE

Folded(f, it) == [t \in SUBSET DOMAIN f |-> IF t = {} THEN 0 ELSE f[Some(t)] + it[t \ {Some(t)}]]

LEMMA TotalUnfolds ==
    ASSUME NEW f, NEW it, it = Folded(f, it)
    PROVE  \E fold : fold = Folded(f, fold) /\ Total(f) = fold[DOMAIN f]
<1>1. PICK fold : fold = CHOOSE i : i = Folded(f, i)
  OBVIOUS
<1>2. fold = Folded(f, fold)
  BY <1>1
<1>3. Total(f) = fold[DOMAIN f]
  BY <1>1 DEF Total, FoldFunction, FoldFunctionOnSet, MapThenFoldSet, Folded, Some
<1> QED
  BY <1>2, <1>3

LEMMA SomeMember ==
    ASSUME NEW t, t # {}
    PROVE  Some(t) \in t
  BY DEF Some

LEMMA TotalIsWeight ==
    ASSUME NEW D, IsFiniteSet(D), NEW f \in [D -> Nat]
    PROVE  Total(f) = Weight(f, D) /\ Total(f) \in Nat
<1>1. ASSUME NEW t \in SUBSET D
      PROVE  /\ IsFiniteSet(t) /\ Weight(f, t) \in Nat
             /\ t # {} => Some(t) \in t /\ Weight(f, t) = f[Some(t)] + Weight(f, t \ {Some(t)})
  <2>1. IsFiniteSet(t)
    BY FS_Subset
  <2>2. Weight(f, t) \in Nat
    BY <2>1, PairsFinite
  <2> QED
    BY <2>1, <2>2, SomeMember, WeightRemove
<1> DEFINE sum == [t \in SUBSET D |-> Weight(f, t)]
<1>2. sum = Folded(f, sum)
  <2>1. ASSUME NEW t \in SUBSET D
        PROVE  sum[t] = IF t = {} THEN 0 ELSE f[Some(t)] + sum[t \ {Some(t)}]
    <3>1. CASE t = {}
      BY <3>1, WeightEmpty
    <3>2. CASE t # {}
      <4>1. t \ {Some(t)} \in SUBSET D
        OBVIOUS
      <4> QED
        BY <3>2, <4>1, <1>1
    <3> QED
      BY <3>1, <3>2
  <2>2. DOMAIN f = D
    OBVIOUS
  <2> HIDE DEF sum
  <2>3. Folded(f, sum) = [t \in SUBSET D |-> IF t = {} THEN 0 ELSE f[Some(t)] + sum[t \ {Some(t)}]]
    BY <2>2 DEF Folded
  <2>4. sum = [t \in SUBSET D |-> sum[t]]
    BY DEF sum
  <2> QED
    BY <2>1, <2>3, <2>4
<1>3. PICK fold : fold = Folded(f, fold) /\ Total(f) = fold[D]
  BY <1>2, TotalUnfolds
<1>4. ASSUME NEW t \in SUBSET D
      PROVE  fold[t] = IF t = {} THEN 0 ELSE f[Some(t)] + fold[t \ {Some(t)}]
  BY <1>3 DEF Folded
<1> DEFINE Wrong == {n \in Nat : \E t \in SUBSET D : Cardinality(t) = n /\ fold[t] # Weight(f, t)}
<1>5. Wrong = {}
  <2> SUFFICES ASSUME Wrong # {} PROVE FALSE
    OBVIOUS
  <2>1. PICK n \in Wrong : \A m \in Wrong : n <= m
    BY LeastNatural
  <2>2. PICK t \in SUBSET D : Cardinality(t) = n /\ fold[t] # Weight(f, t)
    BY <2>1
  <2>3. t # {}
    BY <2>2, <1>4, WeightEmpty
  <2>4. PICK u \in SUBSET D : u = t \ {Some(t)}
    BY <2>2
  <2>5. Cardinality(u) = n - 1 /\ n \in Nat /\ Cardinality(u) \in Nat
    BY <1>1, <2>2, <2>3, <2>4, FS_RemoveElement, FS_CardinalityType
  <2>6. fold[t] = f[Some(t)] + fold[u] /\ Weight(f, t) = f[Some(t)] + Weight(f, u)
    BY <1>1, <1>4, <2>3, <2>4
  <2>7. fold[u] # Weight(f, u)
    BY <2>2, <2>6
  <2>8. Cardinality(u) \in Wrong
    BY <2>5, <2>7
  <2> QED
    BY <2>1, <2>5, <2>8
<1>6. fold[D] = Weight(f, D)
  BY <1>5, FS_CardinalityType
<1> QED
  BY <1>1, <1>3, <1>6

-----------------------------------------------------------------------------
\* cascade_size

\* The signals of a block, the sizes behind the consumers of a signal, and the body of
\* CascadeSize, of any function in its place.
Produced(b) == {s \in Signals : Producer[s] = b}
Reach(g, s) == [i \in DOMAIN Consumers[s] |-> g[Consumers[s][i]]]
Sized(g, b) == 1 + Total([s \in Produced(b) |-> Total(Reach(g, s))])

LEMMA Endpoints ==
    /\ \A s \in Signals : /\ Producer[s] \in Blocks
                          /\ IsFiniteSet(DOMAIN Consumers[s])
                          /\ DOMAIN Consumers[s] = 1..Len(Consumers[s]) /\ Len(Consumers[s]) \in Nat
                          /\ \A i \in DOMAIN Consumers[s] : Consumers[s][i] \in Blocks
    /\ IsFiniteSet(Signals)
    /\ \A b \in Blocks : Produced(b) \subseteq Signals /\ IsFiniteSet(Produced(b))
<1>1. IsFiniteSet(Signals)
  BY SizesAssumption, FS_Interval DEF Signals
<1>2. ASSUME NEW b \in Blocks PROVE Produced(b) \subseteq Signals /\ IsFiniteSet(Produced(b))
  BY <1>1, FS_Subset DEF Produced
<1>3. ASSUME NEW s \in Signals
      PROVE  /\ Producer[s] \in Blocks
             /\ IsFiniteSet(DOMAIN Consumers[s])
             /\ DOMAIN Consumers[s] = 1..Len(Consumers[s]) /\ Len(Consumers[s]) \in Nat
             /\ \A i \in DOMAIN Consumers[s] : Consumers[s][i] \in Blocks
  <2>1. Producer[s] \in Blocks /\ Consumers[s] \in Seq(Blocks)
    BY SignalsAssumption
  <2>2. DOMAIN Consumers[s] = 1..Len(Consumers[s]) /\ Len(Consumers[s]) \in Nat
    BY <2>1, LenProperties
  <2>3. \A i \in DOMAIN Consumers[s] : Consumers[s][i] \in Blocks
    BY <2>1, <2>2, ElementOfSeq
  <2>4. IsFiniteSet(1..Len(Consumers[s]))
    BY <2>2, FS_Interval
  <2> QED
    BY <2>1, <2>2, <2>3, <2>4
<1> QED
  BY <1>1, <1>2, <1>3

\* The size of a block is a number if those behind its signals are.
LEMMA SizedNat ==
    ASSUME NEW g, NEW b \in Blocks,
           \A s \in Produced(b) : \A i \in DOMAIN Consumers[s] : g[Consumers[s][i]] \in Nat
    PROVE  /\ \A s \in Produced(b) : Total(Reach(g, s)) \in Nat
           /\ Total([s \in Produced(b) |-> Total(Reach(g, s))]) \in Nat
           /\ Sized(g, b) \in Nat \ {0}
<1>1. ASSUME NEW s \in Produced(b) PROVE Total(Reach(g, s)) \in Nat
  <2>1. IsFiniteSet(DOMAIN Consumers[s])
    BY Endpoints
  <2>2. Reach(g, s) \in [DOMAIN Consumers[s] -> Nat]
    BY DEF Reach
  <2> QED
    BY <2>1, <2>2, TotalIsWeight
<1> DEFINE f == [s \in Produced(b) |-> Total(Reach(g, s))]
<1>2. f \in [Produced(b) -> Nat]
  BY <1>1
<1> HIDE DEF f
<1>3. Total(f) \in Nat
  BY <1>2, Endpoints, TotalIsWeight
<1>4. Sized(g, b) = 1 + Total(f)
  BY DEF Sized, f
<1> QED
  BY <1>1, <1>3, <1>4 DEF f

\* The size of a block depends on the blocks behind its signals alone.
LEMMA SizedSame ==
    ASSUME NEW g, NEW h, NEW b \in Blocks,
           \A s \in Produced(b) : \A i \in DOMAIN Consumers[s] :
              g[Consumers[s][i]] = h[Consumers[s][i]]
    PROVE  Sized(g, b) = Sized(h, b)
<1>1. \A s \in Produced(b) : Reach(g, s) = Reach(h, s)
  BY DEF Reach
<1>2. [s \in Produced(b) |-> Total(Reach(g, s))] = [s \in Produced(b) |-> Total(Reach(h, s))]
  BY <1>1
<1> QED
  BY <1>2 DEF Sized

\* cascade_size is well defined on a wiring without a cycle: from the blocks of the highest
\* rank downwards, one more rank at a time.
LEMMA CascadeSizeExists ==
    ASSUME Acyclic
    PROVE  \E g \in [Blocks -> Nat] : g = [b \in Blocks |-> Sized(g, b)]
<1> DEFINE Reached(n) == \E g \in [Blocks -> Nat] :
                            \A b \in Blocks : Rank[b] > NumBlocks - n => g[b] = Sized(g, b)
           Missing    == {n \in Nat : ~Reached(n)}
<1>0. /\ NumBlocks \in Nat /\ Rank \in [Blocks -> 1..NumBlocks]
      /\ \A b \in Blocks : \A s \in Produced(b) : \A i \in DOMAIN Consumers[s] :
            Consumers[s][i] \in Blocks /\ Rank[b] < Rank[Consumers[s][i]]
  BY RankGrows, SizesAssumption, Endpoints DEF Blocks, Produced
<1>1. Reached(0)
  <2>1. [b \in Blocks |-> 0] \in [Blocks -> Nat]
    OBVIOUS
  <2>2. \A b \in Blocks : ~(Rank[b] > NumBlocks - 0)
    BY <1>0
  <2> QED
    BY <2>1, <2>2
<1>2. ASSUME NEW n \in Nat, Reached(n) PROVE Reached(n + 1)
  <2>1. PICK g \in [Blocks -> Nat] :
               \A b \in Blocks : Rank[b] > NumBlocks - n => g[b] = Sized(g, b)
    BY <1>2
  <2> DEFINE h == [b \in Blocks |-> Sized(g, b)]
  <2>2. h \in [Blocks -> Nat]
    <3>1. ASSUME NEW b \in Blocks PROVE Sized(g, b) \in Nat
      BY <1>0, <2>1, SizedNat
    <3> QED
      BY <3>1
  <2>3. ASSUME NEW b \in Blocks, Rank[b] > NumBlocks - (n + 1) PROVE h[b] = Sized(h, b)
    <3>1. ASSUME NEW s \in Produced(b), NEW i \in DOMAIN Consumers[s]
          PROVE  g[Consumers[s][i]] = h[Consumers[s][i]]
      <4>1. PICK c \in Blocks : c = Consumers[s][i]
        BY <1>0
      <4>2. Rank[c] > NumBlocks - n
        <5>1. Rank[b] < Rank[c] /\ Rank[b] \in Nat /\ Rank[c] \in Nat
          BY <1>0, <4>1
        <5> QED
          BY <5>1, <2>3, <1>0
      <4> QED
        BY <2>1, <4>1, <4>2
    <3> HIDE DEF h
    <3>2. Sized(g, b) = Sized(h, b)
      BY <3>1, SizedSame
    <3> QED
      BY <3>2 DEF h
  <2> HIDE DEF h
  <2> QED
    BY <2>2, <2>3
<1> HIDE DEF Reached
<1>3. Missing = {}
  <2> SUFFICES ASSUME Missing # {} PROVE FALSE
    OBVIOUS
  <2>1. PICK n \in Missing : \A m \in Missing : n <= m
    BY LeastNatural
  <2>2. n \in Nat /\ n # 0
    BY <1>1
  <2>3. PICK m \in Nat : m = n - 1
    BY <2>2
  <2>4. Reached(m)
    BY <2>1, <2>2, <2>3
  <2>5. Reached(m + 1) /\ m + 1 = n
    BY <1>2, <2>2, <2>3, <2>4
  <2> QED
    BY <2>1, <2>5
<1>4. Reached(NumBlocks)
  BY <1>0, <1>3
<1>5. PICK g \in [Blocks -> Nat] :
             \A b \in Blocks : Rank[b] > NumBlocks - NumBlocks => g[b] = Sized(g, b)
  BY <1>4 DEF Reached
<1>6. \A b \in Blocks : g[b] = Sized(g, b)
  BY <1>0, <1>5
<1> QED
  BY <1>6

LEMMA CascadeSizeDef ==
    ASSUME Acyclic
    PROVE  CascadeSize = [b \in Blocks |-> Sized(CascadeSize, b)]
<1>1. PICK g : g = [b \in Blocks |-> Sized(g, b)]
  BY CascadeSizeExists
<1>2. CascadeSize = CHOOSE h : h = [b \in Blocks |-> Sized(h, b)]
  BY DEF CascadeSize, Sized, Reach, Produced
<1> QED
  BY <1>1, <1>2

\* A block counts for itself and for everything its signals lead to.
LEMMA CascadeSizes ==
    ASSUME Acyclic
    PROVE  \A b \in Blocks : CascadeSize[b] \in Nat \ {0} /\ CascadeSize[b] = Sized(CascadeSize, b)
<1>0. /\ NumBlocks \in Nat /\ Rank \in [Blocks -> 1..NumBlocks]
      /\ \A b \in Blocks : \A s \in Produced(b) : \A i \in DOMAIN Consumers[s] :
            Consumers[s][i] \in Blocks /\ Rank[b] < Rank[Consumers[s][i]]
  BY RankGrows, SizesAssumption, Endpoints DEF Blocks, Produced
<1>1. \A b \in Blocks : CascadeSize[b] = Sized(CascadeSize, b)
  BY CascadeSizeDef
<1> DEFINE Wrong == {NumBlocks - Rank[b] : b \in {c \in Blocks : CascadeSize[c] \notin Nat \ {0}}}
<1>2. Wrong = {}
  <2> SUFFICES ASSUME Wrong # {} PROVE FALSE
    OBVIOUS
  <2>1. Wrong \in SUBSET Nat
    BY <1>0
  <2>2. PICK n \in Wrong : \A m \in Wrong : n <= m
    BY <2>1, LeastNatural
  <2>3. PICK b \in Blocks : CascadeSize[b] \notin Nat \ {0} /\ n = NumBlocks - Rank[b]
    BY <2>2
  <2>4. ASSUME NEW s \in Produced(b), NEW i \in DOMAIN Consumers[s]
        PROVE  CascadeSize[Consumers[s][i]] \in Nat
    <3>1. PICK c \in Blocks : c = Consumers[s][i]
      BY <1>0
    <3>2. Rank[b] < Rank[c] /\ Rank[b] \in Nat /\ Rank[c] \in Nat
      BY <1>0, <3>1
    <3>3. NumBlocks - Rank[c] \notin Wrong
      <4> HIDE DEF Wrong
      <4>1. ~(n <= NumBlocks - Rank[c])
        BY <1>0, <2>3, <3>2
      <4> QED
        BY <2>2, <4>1
    <3> QED
      BY <3>1, <3>3
  <2>5. Sized(CascadeSize, b) \in Nat \ {0}
    BY <2>4, SizedNat
  <2> QED
    BY <1>1, <2>3, <2>5
<1> QED
  BY <1>1, <1>2

-----------------------------------------------------------------------------
\* What the frames of a cascade owe

\* What each signal may cause, and what a frame still has to do: outputs it has not handled,
\* consumers of its signal it has not visited.
SignalSizes  == [s \in Signals |-> Total(Reach(CascadeSize, s))]
Unhandled(f) == {s \in Signals : f.outputs[s] # NoValue}
Visits(f)    == IF f.signal \in Signals THEN {i \in DOMAIN Consumers[f.signal] : f.next <= i}
                                        ELSE {}

\* The executions a frame may still cause.
Debt(f) == Weight(SignalSizes, Unhandled(f)) + Weight(Reach(CascadeSize, f.signal), Visits(f))

\* Every frame of the stack has a number of executions within which it returns.
Fits(w, count) ==
    \E limit \in [1..Len(w) -> 0..MaxCascade] :
        /\ w # <<>> => count + Debt(w[1]) <= limit[1]
        /\ \A k \in 1..(Len(w) - 1) : limit[k] + Debt(w[k + 1]) <= limit[k + 1]

FitsInv == Fits(work, executions)

LEMMA SignalSizesType ==
    ASSUME Acyclic
    PROVE  /\ SignalSizes \in [Signals -> Nat]
           /\ \A s \in Signals : Reach(CascadeSize, s) \in [DOMAIN Consumers[s] -> Nat]
           /\ \A s \in Signals : SignalSizes[s] = Weight(Reach(CascadeSize, s), DOMAIN Consumers[s])
<1>1. ASSUME NEW s \in Signals
      PROVE  /\ Reach(CascadeSize, s) \in [DOMAIN Consumers[s] -> Nat]
             /\ Total(Reach(CascadeSize, s)) = Weight(Reach(CascadeSize, s), DOMAIN Consumers[s])
             /\ Total(Reach(CascadeSize, s)) \in Nat
  <2>1. Reach(CascadeSize, s) \in [DOMAIN Consumers[s] -> Nat]
    BY CascadeSizes, Endpoints DEF Reach
  <2> QED
    BY <2>1, Endpoints, TotalIsWeight
<1> QED
  BY <1>1 DEF SignalSizes

LEMMA DebtParts ==
    ASSUME Acyclic, NEW f \in Frame
    PROVE  /\ IsFiniteSet(Unhandled(f)) /\ Unhandled(f) \subseteq Signals
           /\ Weight(SignalSizes, Unhandled(f)) \in Nat
           /\ IsFiniteSet(Visits(f))
           /\ f.signal \in Signals => Visits(f) \subseteq DOMAIN Consumers[f.signal]
           /\ f.signal \notin Signals => Visits(f) = {}
           /\ Weight(Reach(CascadeSize, f.signal), Visits(f)) \in Nat
           /\ Debt(f) \in Nat
<1>1. IsFiniteSet(Unhandled(f)) /\ Unhandled(f) \subseteq Signals
  BY Endpoints, FS_Subset DEF Unhandled
<1>2. \A s \in Unhandled(f) : SignalSizes[s] \in Nat
  BY <1>1, SignalSizesType
<1>3. Weight(SignalSizes, Unhandled(f)) \in Nat
  BY <1>1, <1>2, PairsFinite
<1>4. CASE f.signal \in Signals
  <2>1. Visits(f) \subseteq DOMAIN Consumers[f.signal]
    BY DEF Visits
  <2>2. IsFiniteSet(Visits(f))
    BY <1>4, <2>1, Endpoints, FS_Subset
  <2>3. \A i \in Visits(f) : Reach(CascadeSize, f.signal)[i] \in Nat
    BY <1>4, <2>1, SignalSizesType
  <2>4. Weight(Reach(CascadeSize, f.signal), Visits(f)) \in Nat
    BY <2>2, <2>3, PairsFinite
  <2> QED
    BY <1>1, <1>3, <1>4, <2>1, <2>2, <2>4 DEF Debt
<1>5. CASE f.signal \notin Signals
  <2>1. Visits(f) = {}
    BY <1>5 DEF Visits
  <2>2. Weight(Reach(CascadeSize, f.signal), Visits(f)) = 0
    BY <2>1, WeightEmpty
  <2>3. IsFiniteSet(Visits(f))
    BY <2>1, FS_EmptySet
  <2> QED
    BY <1>1, <1>3, <1>5, <2>1, <2>2, <2>3 DEF Debt
<1> QED
  BY <1>4, <1>5

\* The frame of an execution of block b owes at most what cascade_size counts for b beyond
\* the execution itself.
LEMMA DebtOfExecution ==
    ASSUME Acyclic, NEW b \in Blocks, NEW f \in Frame, f.signal = NoSignal,
           \A r \in SignalsOf(f) : Producer[r] = b
    PROVE  1 + Debt(f) <= CascadeSize[b]
<1>1. Unhandled(f) \in SUBSET Produced(b)
  BY DEF Unhandled, Produced, SignalsOf
<1>2. /\ IsFiniteSet(Produced(b)) /\ Produced(b) \subseteq Signals
      /\ \A s \in Produced(b) : SignalSizes[s] \in Nat
  BY Endpoints, SignalSizesType
<1>3. Weight(SignalSizes, Unhandled(f)) <= Weight(SignalSizes, Produced(b))
  BY <1>1, <1>2, WeightMonotone
<1>4. Debt(f) = Weight(SignalSizes, Unhandled(f))
  <2>1. Visits(f) = {}
    BY ConstantTypes DEF Visits
  <2>2. Weight(Reach(CascadeSize, f.signal), Visits(f)) = 0
    BY <2>1, WeightEmpty
  <2> QED
    BY <2>2, DebtParts DEF Debt
<1> DEFINE g == [s \in Produced(b) |-> Total(Reach(CascadeSize, s))]
<1>5. g \in [Produced(b) -> Nat] /\ \A s \in Produced(b) : g[s] = SignalSizes[s]
  BY <1>2 DEF SignalSizes
<1>6. CascadeSize[b] = 1 + Total(g)
  BY CascadeSizes DEF Sized
<1> HIDE DEF g
<1>7. Total(g) = Weight(g, Produced(b)) /\ Total(g) \in Nat
  BY <1>2, <1>5, TotalIsWeight
<1>8. Weight(g, Produced(b)) = Weight(SignalSizes, Produced(b))
  BY <1>5, WeightSame
<1>9. Debt(f) \in Nat
  BY DebtParts
<1> QED
  BY <1>3, <1>4, <1>6, <1>7, <1>8, <1>9

\* Publishing an output turns what its signal may cause into visits, or drops it.
LEMMA DebtOfPublication ==
    ASSUME Acyclic, NEW f \in Frame, ~Delivering(f), NEW s \in Signals, f.outputs[s] # NoValue,
           NEW g \in Frame, g.outputs = [f.outputs EXCEPT ![s] = NoValue], g.signal = s
    PROVE  Debt(g) <= Debt(f)
<1>1. Unhandled(g) = Unhandled(f) \ {s} /\ s \in Unhandled(f)
  <2>1. f.outputs \in [Signals -> Values \cup {NoValue}]
    BY FrameType
  <2> QED
    BY <2>1 DEF Unhandled
<1>2. \A r \in Unhandled(f) : SignalSizes[r] \in Nat
  BY DebtParts, SignalSizesType
<1>3. Weight(SignalSizes, Unhandled(f)) = SignalSizes[s] + Weight(SignalSizes, Unhandled(g))
  BY <1>1, <1>2, DebtParts, WeightRemove
<1>4. Weight(Reach(CascadeSize, s), Visits(g)) <= SignalSizes[s]
  <2>1. Visits(g) \in SUBSET DOMAIN Consumers[s]
    BY DEF Visits
  <2>2. IsFiniteSet(DOMAIN Consumers[s])
        /\ \A i \in DOMAIN Consumers[s] : Reach(CascadeSize, s)[i] \in Nat
    BY Endpoints, SignalSizesType
  <2> QED
    BY <2>1, <2>2, WeightMonotone, SignalSizesType
<1>5. /\ Debt(g) = Weight(SignalSizes, Unhandled(g)) + Weight(Reach(CascadeSize, s), Visits(g))
      /\ Debt(f) = Weight(SignalSizes, Unhandled(f)) + Weight(Reach(CascadeSize, f.signal), Visits(f))
  BY DEF Debt
<1>6. /\ Weight(SignalSizes, Unhandled(g)) \in Nat /\ Weight(Reach(CascadeSize, s), Visits(g)) \in Nat
      /\ Weight(SignalSizes, Unhandled(f)) \in Nat
      /\ Weight(Reach(CascadeSize, f.signal), Visits(f)) \in Nat
      /\ SignalSizes[s] \in Nat
  BY DebtParts, SignalSizesType
<1> QED
  BY <1>3, <1>4, <1>5, <1>6

\* Visiting a consumer pays for everything the consumer may cause.
LEMMA DebtOfVisit ==
    ASSUME Acyclic, NEW f \in Frame, Delivering(f),
           NEW g \in Frame, g.outputs = f.outputs, g.signal = f.signal, g.next = f.next + 1
    PROVE  /\ Consumers[f.signal][f.next] \in Blocks
           /\ Debt(f) = CascadeSize[Consumers[f.signal][f.next]] + Debt(g)
<1>1. /\ f.signal \in Signals /\ f.next \in Nat \ {0} /\ f.next <= Len(Consumers[f.signal])
  BY FrameType DEF Delivering
<1>2. /\ f.next \in DOMAIN Consumers[f.signal]
      /\ DOMAIN Consumers[f.signal] = 1..Len(Consumers[f.signal])
  BY <1>1, Endpoints
<1>3. Consumers[f.signal][f.next] \in Blocks
  BY <1>1, <1>2, Endpoints
<1>4. Visits(g) = Visits(f) \ {f.next} /\ f.next \in Visits(f)
  BY <1>1, <1>2 DEF Visits
<1>5. Reach(CascadeSize, f.signal)[f.next] = CascadeSize[Consumers[f.signal][f.next]]
  BY <1>1, <1>2 DEF Reach
<1>6. \A i \in Visits(f) : Reach(CascadeSize, f.signal)[i] \in Nat
  BY <1>1, DebtParts, SignalSizesType
<1>7. Weight(Reach(CascadeSize, f.signal), Visits(f)) =
        CascadeSize[Consumers[f.signal][f.next]] + Weight(Reach(CascadeSize, f.signal), Visits(g))
  BY <1>4, <1>5, <1>6, DebtParts, WeightRemove
<1>8. Unhandled(g) = Unhandled(f)
  BY DEF Unhandled
<1>9. /\ Debt(g) = Weight(SignalSizes, Unhandled(f)) + Weight(Reach(CascadeSize, f.signal), Visits(g))
      /\ Debt(f) = Weight(SignalSizes, Unhandled(f)) + Weight(Reach(CascadeSize, f.signal), Visits(f))
  BY <1>8 DEF Debt
<1>10. /\ Weight(SignalSizes, Unhandled(f)) \in Nat
       /\ Weight(Reach(CascadeSize, f.signal), Visits(g)) \in Nat
       /\ CascadeSize[Consumers[f.signal][f.next]] \in Nat
  BY <1>3, DebtParts, CascadeSizes
<1> QED
  BY <1>3, <1>7, <1>9, <1>10

-----------------------------------------------------------------------------
\* The stack of a cascade, which ran count executions so far

LEMMA FitsEmpty ==
    ASSUME NEW count
    PROVE  Fits(<<>>, count)
<1>1. Len(<<>>) = 0
  BY EmptySeq
<1>2. [k \in 1..0 |-> 0] \in [1..Len(<<>>) -> 0..MaxCascade]
  BY <1>1
<1>3. 1..(Len(<<>>) - 1) = {}
  BY <1>1
<1> QED
  BY <1>2, <1>3 DEF Fits

\* The frame on top goes on, and owes no more than before.
LEMMA FitsSteps ==
    ASSUME NEW w \in Seq(Frame), w # <<>>, NEW g \in Frame, NEW count \in Nat, Fits(w, count),
           Debt(g) \in Nat, Debt(w[1]) \in Nat, Debt(g) <= Debt(w[1])
    PROVE  Fits(<<g>> \o Tail(w), count)
<1>1. PICK limit \in [1..Len(w) -> 0..MaxCascade] :
         /\ count + Debt(w[1]) <= limit[1]
         /\ \A k \in 1..(Len(w) - 1) : limit[k] + Debt(w[k + 1]) <= limit[k + 1]
  BY DEF Fits
<1>2. Len(w) \in Nat \ {0}
  BY PoppedStack
<1>3. PICK v \in Seq(Frame) : v = <<g>> \o Tail(w)
  BY SteppedStack
<1>4. Len(v) = Len(w) /\ v[1] = g /\ \A k \in 2..Len(w) : v[k] = w[k]
  BY <1>3, SteppedStack
<1>5. count + Debt(v[1]) <= limit[1]
  <2>1. limit[1] \in Int
    BY <1>1, <1>2
  <2> QED
    BY <1>1, <1>4, <2>1
<1>6. ASSUME NEW k \in 1..(Len(v) - 1) PROVE limit[k] + Debt(v[k + 1]) <= limit[k + 1]
  <2>1. k + 1 \in 2..Len(w) /\ k \in 1..(Len(w) - 1)
    <3>1. Len(v) = Len(w) /\ Len(w) \in Nat
      BY <1>2, <1>4
    <3> QED
      BY <3>1
  <2>2. v[k + 1] = w[k + 1]
    BY <1>4, <2>1
  <2> QED
    BY <1>1, <2>1, <2>2
<1>7. Fits(v, count)
  BY <1>4, <1>5, <1>6 DEF Fits
<1> QED
  BY <1>3, <1>7

\* The frame on top returns within its limit.
LEMMA FitsReturns ==
    ASSUME NEW w \in Seq(Frame), w # <<>>, NEW count \in Nat, Fits(w, count),
           \A f \in Frame : Debt(f) \in Nat
    PROVE  Fits(Tail(w), count)
<1>1. PICK limit \in [1..Len(w) -> 0..MaxCascade] :
         /\ count + Debt(w[1]) <= limit[1]
         /\ \A k \in 1..(Len(w) - 1) : limit[k] + Debt(w[k + 1]) <= limit[k + 1]
  BY DEF Fits
<1>2. Len(w) \in Nat \ {0} /\ w[1] \in Frame /\ \A k \in 1..Len(w) : w[k] \in Frame
  BY PoppedStack, ElementOfSeq
<1>3. PICK v \in Seq(Frame) : v = Tail(w)
  BY PoppedStack
<1>4. Len(v) = Len(w) - 1 /\ \A k \in 1..(Len(w) - 1) : v[k] = w[k + 1]
  BY <1>3, PoppedStack
<1> DEFINE low == [k \in 1..Len(v) |-> limit[k + 1]]
<1>5. low \in [1..Len(v) -> 0..MaxCascade] /\ \A k \in 1..Len(v) : low[k] = limit[k + 1]
  <2>1. ASSUME NEW k \in 1..Len(v) PROVE k + 1 \in 1..Len(w)
    <3>1. Len(v) = Len(w) - 1 /\ Len(w) \in Nat
      BY <1>2, <1>4
    <3> QED
      BY <3>1
  <2>2. \A k \in 1..Len(v) : limit[k + 1] \in 0..MaxCascade
    BY <1>1, <2>1
  <2> QED
    BY <2>2
<1> HIDE DEF low
<1>6. ASSUME v # <<>> PROVE count + Debt(v[1]) <= low[1]
  <2>1. Len(v) # 0 /\ Len(v) \in Nat
    BY <1>6, EmptySeq, LenProperties
  <2>2. 1 \in 1..Len(v) /\ 1 \in 1..(Len(w) - 1) /\ 2 \in 1..Len(w) /\ 1 + 1 = 2
    BY <1>2, <1>4, <2>1
  <2>3. v[1] = w[2] /\ low[1] = limit[2] /\ limit[1] + Debt(w[2]) <= limit[2]
    BY <1>1, <1>4, <1>5, <2>2
  <2>4. limit[1] \in Int /\ limit[2] \in Int /\ Debt(w[1]) \in Nat /\ Debt(w[2]) \in Nat
    <3>1. limit[1] \in 0..MaxCascade /\ limit[2] \in 0..MaxCascade
      BY <1>1, <1>2, <2>2
    <3>2. w[1] \in Frame /\ w[2] \in Frame
      BY <1>2, <2>2
    <3> QED
      BY <3>1, <3>2
  <2>5. count <= limit[1]
    BY <1>1, <2>4
  <2> QED
    BY <2>3, <2>4, <2>5
<1>7. ASSUME NEW k \in 1..(Len(v) - 1) PROVE low[k] + Debt(v[k + 1]) <= low[k + 1]
  <2>1. k \in 1..Len(v) /\ k + 1 \in 1..Len(v) /\ k + 1 \in 1..(Len(w) - 1)
    <3>1. Len(v) = Len(w) - 1 /\ Len(w) \in Nat
      BY <1>2, <1>4
    <3> QED
      BY <3>1
  <2>2. low[k] = limit[k + 1] /\ low[k + 1] = limit[(k + 1) + 1] /\ v[k + 1] = w[(k + 1) + 1]
    BY <1>4, <1>5, <2>1
  <2> QED
    BY <1>1, <2>1, <2>2
<1>8. Fits(v, count)
  BY <1>5, <1>6, <1>7 DEF Fits
<1> QED
  BY <1>3, <1>8

\* A call takes its share from what the frame on top owes.
LEMMA FitsCalls ==
    ASSUME NEW w \in Seq(Frame), w # <<>>, NEW g \in Frame, NEW f \in Frame, NEW count \in Nat,
           Fits(w, count), NEW size \in Nat, Debt(f) \in Nat, Debt(g) \in Nat,
           Debt(w[1]) = size + Debt(g), 1 + Debt(f) <= size
    PROVE  Fits(<<f>> \o (<<g>> \o Tail(w)), count + 1)
<1>1. PICK limit \in [1..Len(w) -> 0..MaxCascade] :
         /\ count + Debt(w[1]) <= limit[1]
         /\ \A k \in 1..(Len(w) - 1) : limit[k] + Debt(w[k + 1]) <= limit[k + 1]
  BY DEF Fits
<1>2. Len(w) \in Nat \ {0} /\ limit[1] \in 0..MaxCascade /\ MaxCascade \in Nat
  <2>1. Len(w) \in Nat \ {0}
    BY PoppedStack
  <2>2. 1 \in 1..Len(w) /\ MaxCascade \in Nat
    BY <2>1, LimitsAssumption
  <2> QED
    BY <1>1, <2>1, <2>2
<1>3. PICK u \in Seq(Frame) : u = <<g>> \o Tail(w)
  BY SteppedStack
<1>4. Len(u) = Len(w) /\ u[1] = g /\ \A k \in 2..Len(w) : u[k] = w[k]
  BY <1>3, SteppedStack
<1>5. PICK v \in Seq(Frame) : v = <<f>> \o u
  BY PushedStack
<1>6. Len(v) = Len(w) + 1 /\ v[1] = f /\ \A k \in 2..(Len(w) + 1) : v[k] = u[k - 1]
  BY <1>4, <1>5, PushedStack
<1>7. count + size <= limit[1] /\ count + size \in 0..MaxCascade
      /\ count + size + Debt(g) <= limit[1]
  BY <1>1, <1>2
<1> DEFINE high == [k \in 1..Len(v) |-> IF k = 1 THEN count + size ELSE limit[k - 1]]
<1>8. /\ high \in [1..Len(v) -> 0..MaxCascade] /\ high[1] = count + size
      /\ \A k \in 1..Len(w) : high[k + 1] = limit[k]
  <2>1. 1 \in 1..Len(v)
    BY <1>2, <1>6
  <2>2. ASSUME NEW k \in 1..Len(v), k # 1 PROVE k - 1 \in 1..Len(w)
    BY <1>2, <1>6, <2>2
  <2>3. \A k \in 1..Len(w) : k + 1 \in 1..Len(v) /\ k + 1 # 1 /\ (k + 1) - 1 = k
    <3>1. Len(v) = Len(w) + 1 /\ Len(w) \in Nat
      BY <1>2, <1>6
    <3> QED
      BY <3>1
  <2>4. \A k \in 1..Len(v) : (IF k = 1 THEN count + size ELSE limit[k - 1]) \in 0..MaxCascade
    BY <1>1, <1>7, <2>2
  <2>5. high \in [1..Len(v) -> 0..MaxCascade]
    BY <2>4
  <2>6. \A k \in 1..Len(w) : high[k + 1] = limit[k]
    BY <2>3
  <2> QED
    BY <2>1, <2>5, <2>6
<1> HIDE DEF high
<1>9. (count + 1) + Debt(v[1]) <= high[1]
  BY <1>6, <1>8
<1>10. ASSUME NEW k \in 1..(Len(v) - 1) PROVE high[k] + Debt(v[k + 1]) <= high[k + 1]
  <2>1. k \in 1..Len(w) /\ k + 1 \in 2..(Len(w) + 1) /\ (k + 1) - 1 = k
    <3>1. Len(v) - 1 = Len(w) /\ Len(w) \in Nat
      BY <1>2, <1>6
    <3> QED
      BY <3>1
  <2>2. v[k + 1] = u[k] /\ high[k + 1] = limit[k]
    BY <1>6, <1>8, <2>1
  <2>3. CASE k = 1
    BY <1>4, <1>7, <1>8, <2>2, <2>3
  <2>4. CASE k # 1
    <3>1. PICK j \in 1..(Len(w) - 1) : k = j + 1
      <4>1. k - 1 \in 1..(Len(w) - 1) /\ k = (k - 1) + 1
        BY <1>2, <2>1, <2>4
      <4> QED
        BY <4>1
    <3>2. j \in 1..Len(w) /\ k \in 2..Len(w)
      BY <1>2, <2>1, <2>4
    <3>3. u[k] = w[k] /\ high[k] = limit[j]
      BY <1>4, <1>8, <3>1, <3>2
    <3> QED
      BY <1>1, <2>2, <3>1, <3>3
  <2> QED
    BY <2>3, <2>4
<1>11. Fits(v, count + 1)
  BY <1>8, <1>9, <1>10 DEF Fits
<1> QED
  BY <1>3, <1>5, <1>11

\* The root execution of a cascade starts with the whole limit.
LEMMA FitsRoot ==
    ASSUME NEW f \in Frame, Debt(f) \in Nat, 1 + Debt(f) <= MaxCascade
    PROVE  Fits(<<f>> \o <<>>, 1)
<1>1. PICK v \in Seq(Frame) : v = <<f>> \o <<>>
  BY PushedStack, EmptySeq
<1>2. Len(v) = 1 /\ v[1] = f
  <2>1. <<>> \in Seq(Frame) /\ Len(<<>>) = 0
    BY EmptySeq
  <2> QED
    BY <1>1, <2>1, PushedStack
<1> DEFINE limit == [k \in 1..Len(v) |-> MaxCascade]
<1>3. limit \in [1..Len(v) -> 0..MaxCascade] /\ limit[1] = MaxCascade
  BY <1>2, LimitsAssumption
<1>4. 1..(Len(v) - 1) = {}
  BY <1>2
<1> HIDE DEF limit
<1>5. Fits(v, 1)
  BY <1>2, <1>3, <1>4 DEF Fits
<1> QED
  BY <1>1, <1>5

LEMMA RootEventFits ==
    ASSUME Acyclic, TypeOK, FitsInv, NEW b \in Blocks, NEW now, NEW timersBefore,
           RootEvent(b, now, timersBefore)
    PROVE  FitsInv'
<1>1. CASE UNCHANGED callVars
  BY <1>1 DEF FitsInv, callVars
<1>2. CASE \E live : Execute(b, now, live, timersBefore, <<>>) /\ BeginCascade
  <2>1. PICK f \in Frame : /\ f.signal = NoSignal
                           /\ \A r \in SignalsOf(f) : Producer[r] = b
                           /\ work' = <<f>> \o <<>>
    BY <1>2, ExecutePushes
  <2>2. Debt(f) \in Nat /\ 1 + Debt(f) <= CascadeSize[b]
    BY <2>1, DebtParts, DebtOfExecution
  <2>3. CascadeSize[b] \in Nat /\ CascadeSize[b] <= MaxCascade /\ MaxCascade \in Nat
    BY CascadeSizes, WiringAssumption, LimitsAssumption
  <2>4. Fits(<<f>> \o <<>>, 1)
    <3>1. 1 + Debt(f) <= MaxCascade
      BY <2>2, <2>3
    <3> QED
      BY <2>2, <3>1, FitsRoot
  <2>5. executions' = 1
    BY <1>2 DEF BeginCascade
  <2> QED
    BY <2>1, <2>4, <2>5 DEF FitsInv
<1> QED
  BY <1>1, <1>2 DEF RootEvent

LEMMA PublishOutputFits ==
    ASSUME Acyclic, TypeOK, FitsInv, PublishOutput
    PROVE  FitsInv'
<1>1. /\ work \in Seq(Frame) /\ work # <<>> /\ executions \in Nat
      /\ ~Delivering(Head(work)) /\ executions' = executions
  BY TypeOKParts DEF PublishOutput, Running
<1>2. PICK top \in Frame : top = Head(work) /\ top = work[1]
  BY <1>1, PoppedStack
<1>3. PICK s \in Signals, n \in Nat \ {0} :
         /\ top.outputs[s] # NoValue
         /\ work' = <<[outputs |-> [top.outputs EXCEPT ![s] = NoValue], signal |-> s,
                       value |-> top.outputs[s], next |-> n]>> \o Tail(work)
  <2>1. \A s \in Signals : 1 \in Nat \ {0} /\ Len(Consumers[s]) + 1 \in Nat \ {0}
    BY Endpoints
  <2> QED
    BY <1>2, <2>1 DEF PublishOutput
<1>4. top.outputs \in [Signals -> Values \cup {NoValue}]
  BY <1>2, FrameType
<1>5. PICK g \in Frame : /\ g = [outputs |-> [top.outputs EXCEPT ![s] = NoValue], signal |-> s,
                                 value |-> top.outputs[s], next |-> n]
                         /\ g.outputs = [top.outputs EXCEPT ![s] = NoValue] /\ g.signal = s
  BY <1>3, <1>4 DEF Frame
<1>6. Debt(g) <= Debt(top) /\ Debt(g) \in Nat /\ Debt(top) \in Nat
  BY <1>1, <1>2, <1>3, <1>5, DebtOfPublication, DebtParts
<1>7. Fits(<<g>> \o Tail(work), executions)
  BY <1>1, <1>2, <1>6, FitsSteps DEF FitsInv
<1> QED
  BY <1>1, <1>3, <1>5, <1>7 DEF FitsInv

LEMMA VisitConsumerFits ==
    ASSUME Acyclic, TypeOK, FitsInv, VisitConsumer
    PROVE  FitsInv'
<1>1. work \in Seq(Frame) /\ work # <<>> /\ executions \in Nat /\ Delivering(Head(work))
  BY TypeOKParts DEF VisitConsumer, Running
<1>2. PICK top \in Frame : top = Head(work) /\ top = work[1]
  BY <1>1, PoppedStack
<1>3. PICK g \in Frame : /\ g = [top EXCEPT !.next = @ + 1]
                         /\ g.outputs = top.outputs /\ g.signal = top.signal
                         /\ g.next = top.next + 1
  BY <1>2, FrameType DEF Frame
<1>4. PICK b \in Blocks : /\ b = Consumers[top.signal][top.next]
                          /\ Debt(top) = CascadeSize[b] + Debt(g)
  BY <1>1, <1>2, <1>3, DebtOfVisit
<1>5. Debt(g) \in Nat /\ Debt(top) \in Nat /\ CascadeSize[b] \in Nat /\ Debt(g) <= Debt(top)
  <2>1. Debt(g) \in Nat /\ Debt(top) \in Nat /\ CascadeSize[b] \in Nat
    BY DebtParts, CascadeSizes
  <2> QED
    BY <1>4, <2>1
<1>6. CASE work' = <<g>> \o Tail(work) /\ executions' = executions
  <2>1. Fits(<<g>> \o Tail(work), executions)
    BY <1>1, <1>2, <1>5, FitsSteps DEF FitsInv
  <2> QED
    BY <1>6, <2>1 DEF FitsInv
<1>7. CASE \E live : /\ Execute(b, lastAcceptedAt, live, pending, <<g>> \o Tail(work))
                     /\ executions' = executions + 1
  <2>1. PICK f \in Frame : /\ f.signal = NoSignal
                           /\ \A r \in SignalsOf(f) : Producer[r] = b
                           /\ work' = <<f>> \o (<<g>> \o Tail(work))
    BY <1>7, ExecutePushes
  <2>2. Debt(f) \in Nat /\ 1 + Debt(f) <= CascadeSize[b]
    BY <2>1, DebtParts, DebtOfExecution
  <2>3. Fits(<<f>> \o (<<g>> \o Tail(work)), executions + 1)
    BY <1>1, <1>2, <1>4, <1>5, <2>2, FitsCalls DEF FitsInv
  <2> QED
    BY <1>7, <2>1, <2>3 DEF FitsInv
<1> QED
  BY <1>2, <1>3, <1>4, <1>6, <1>7 DEF VisitConsumer

\* FitsInv holds before, inside and after every cascade, with or without a time budget.
THEOREM FitsInvariant ==
    ASSUME Acyclic
    PROVE  Spec => []FitsInv
<1>1. Init => FitsInv
  BY FitsEmpty DEF Init, FitsInv
<1>2. TypeOK /\ FitsInv /\ [Next]_vars => FitsInv'
  <2> SUFFICES ASSUME TypeOK, FitsInv, [Next]_vars PROVE FitsInv'
    OBVIOUS
  <2>1. ASSUME UNCHANGED callVars PROVE FitsInv'
    BY <2>1 DEF FitsInv, callVars
  <2>2. ASSUME NEW now, ObserveOnly(now) PROVE FitsInv'
    BY <2>1, <2>2 DEF ObserveOnly
  <2>3. CASE \E now \in Time : ObserveInput(now)
    BY <2>2, <2>3 DEF ObserveInput
  <2>4. CASE \E now \in Time, b \in Blocks : ProcessInput(b, now)
    BY <2>2, <2>4, RootEventFits DEF ProcessInput
  <2>5. CASE \E now \in Time, b \in Blocks, current \in BOOLEAN : ProcessSchedule(b, now, current)
    BY <2>2, <2>5, RootEventFits DEF ProcessSchedule
  <2>6. CASE \E now \in Time : ProcessNextDueTimer(now)
    <3>1. PICK now \in Time : ProcessNextDueTimer(now)
      BY <2>6
    <3>2. \A p \in DueTimers(now) : p.block \in Blocks
      BY TypeOKParts DEF BlockTypeOK, DueTimers, PendingTimer
    <3> QED
      BY <2>2, <3>1, <3>2, RootEventFits DEF ProcessNextDueTimer
  <2>7. CASE CascadeStep
    <3>1. CASE PublishOutput
      BY <3>1, PublishOutputFits
    <3>2. CASE VisitConsumer
      BY <3>2, VisitConsumerFits
    <3>3. CASE PropagationReturns
      <4>1. /\ work \in Seq(Frame) /\ work # <<>> /\ executions \in Nat
            /\ work' = Tail(work) /\ executions' = executions
        BY <3>3, TypeOKParts DEF PropagationReturns, Running
      <4>2. Fits(Tail(work), executions)
        BY <4>1, DebtParts, FitsReturns DEF FitsInv
      <4> QED
        BY <4>1, <4>2 DEF FitsInv
    <3>4. CASE CommitCascade
      BY <3>4, FitsEmpty DEF CommitCascade, FitsInv
    <3>5. CASE RollBackCascade
      BY <3>5, FitsEmpty DEF RollBackCascade, FitsInv
    <3>6. CASE CascadeTimeLimit
      BY <3>6, FitsEmpty DEF CascadeTimeLimit, FitsInv
    <3> QED
      BY <2>7, <3>1, <3>2, <3>3, <3>4, <3>5, <3>6 DEF CascadeStep
  <2>8. CASE \E source \in [Blocks -> Revisions], on \in [Blocks -> BOOLEAN] : Activate(source, on)
    BY <2>1, <2>8 DEF Activate
  <2>9. CASE \E b \in Blocks : ResumeBlock(b)
    BY <2>1, <2>9 DEF ResumeBlock
  <2>10. CASE UNCHANGED vars
    BY <2>1, <2>10 DEF vars
  <2> QED
    BY <2>3, <2>4, <2>5, <2>6, <2>7, <2>8, <2>9, <2>10 DEF Next
<1> QED
  BY <1>1, <1>2, TypeCorrect, PTL DEF Spec

\* The configuration check is enough: on a wiring that detect_signal_cycle accepts and whose
\* cascade_size is within max_cascade_executions for every block, no cascade of
\* propagate_from_execution reaches a consumer it may run with no execution left, so the
\* CascadeLimit error cannot be returned.
THEOREM CascadeFitsHolds ==
    ASSUME Acyclic
    PROVE  Spec => []CascadeFits
<1>1. TypeOK /\ FitsInv => CascadeFits
  <2> SUFFICES ASSUME TypeOK, FitsInv, Running, Delivering(Head(work))
               PROVE  executions < MaxCascade
    BY DEF CascadeFits
  <2>1. work \in Seq(Frame) /\ work # <<>> /\ executions \in Nat
    BY TypeOKParts DEF Running
  <2>2. PICK top \in Frame : top = Head(work) /\ top = work[1]
    BY <2>1, PoppedStack
  <2>3. PICK g \in Frame : /\ g.outputs = top.outputs /\ g.signal = top.signal
                           /\ g.next = top.next + 1
    <3>1. PICK g \in Frame : g = [top EXCEPT !.next = @ + 1]
      BY <2>2, FrameType
    <3> QED
      BY <2>2, <3>1, FrameType DEF Frame
  <2>4. PICK b \in Blocks : Debt(top) = CascadeSize[b] + Debt(g)
    BY <2>2, <2>3, DebtOfVisit
  <2>5. Debt(g) \in Nat /\ CascadeSize[b] \in Nat \ {0}
    BY DebtParts, CascadeSizes
  <2>6. PICK limit \in [1..Len(work) -> 0..MaxCascade] : executions + Debt(work[1]) <= limit[1]
    BY <2>1 DEF FitsInv, Fits
  <2>7. limit[1] \in 0..MaxCascade /\ MaxCascade \in Nat
    <3>1. Len(work) \in Nat \ {0}
      BY <2>1, PoppedStack
    <3> QED
      BY <2>6, <3>1, LimitsAssumption
  <2>8. executions + (CascadeSize[b] + Debt(g)) <= limit[1]
    BY <2>2, <2>4, <2>6
  <2> QED
    BY <2>1, <2>5, <2>7, <2>8
<1> QED
  BY <1>1, FitsInvariant, TypeCorrect, PTL
=============================================================================
