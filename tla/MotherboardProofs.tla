-------------------------- MODULE MotherboardProofs --------------------------
(***************************************************************************)
(* Proofs about the motherboard, for any number of components, and about   *)
(* the frames and traces that the CRTC reads in its Steps.                 *)
(***************************************************************************)
EXTENDS TracedMachine, FiniteSetTheorems, SequenceTheorems, TLAPS

Calls == {"idle", "step", "select", "reset", "close"}

(* What a call leaves behind: outside a Step all goroutines are back, in a *)
(* Reset the components before the current one are fresh and have age 0.   *)
LockInv ==
  /\ cycle \in Nat /\ call \in Calls
  /\ ticking \in [Component -> {"called", "sending", "done"}]
  /\ call # "step" => \A c \in Component : ticking[c] = "done"
  /\ age \in [Component -> Nat]
  /\ call = "step" => \A c \in Component : ticking[c] # "called" => age[c] > 0
  /\ fresh \subseteq Component
  /\ position \in Nat \ {0}
  /\ call = "reset" => \A i \in DOMAIN components :
                         i < position => components[i] \in fresh /\ age[components[i]] = 0

LEMMA Positions ==
  /\ DOMAIN components = 1 .. Len(components)
  /\ Len(components) \in Nat
  /\ \A i \in 1 .. Len(components) : components[i] \in Component
BY ComponentsAssumption DEF Component

LEMMA LockStarts == HInit => LockInv
  BY DEF HInit, Init, LockInv, Calls

LEMMA TickKeeps ==
  ASSUME LockInv, NEW c \in Component, HTick(c)
  PROVE  LockInv' /\ UNCHANGED <<cycle, JoinedAge, fresh>>
<1>1. /\ ticking[c] = "called"
      /\ ticking' = [ticking EXCEPT ![c] = "done"] \/ ticking' = [ticking EXCEPT ![c] = "sending"]
      /\ age' = [age EXCEPT ![c] = @ + 1]
      /\ UNCHANGED <<cycle, call, position, fresh>>
  BY DEF HTick, TickSucceeds, TickFails, walkVars
<1>2. call = "step"
  BY <1>1 DEF LockInv
<1>3. /\ ticking' \in [Component -> {"called", "sending", "done"}]
      /\ ticking'[c] # "called"
      /\ \A d \in Component : d # c => ticking'[d] = ticking[d] /\ age'[d] = age[d]
      /\ age' \in [Component -> Nat] /\ age'[c] = age[c] + 1
  BY <1>1 DEF LockInv
<1>4. LockInv'
  BY <1>1, <1>2, <1>3 DEF LockInv, Calls
<1>5. ASSUME NEW d \in Component PROVE JoinedAge'[d] = JoinedAge[d]
  <2>1. CASE d = c
    <3>1. age[c] \in Nat
      BY DEF LockInv
    <3>2. JoinedAge[d] = age[c]
      BY <1>1, <2>1 DEF JoinedAge, Ticked
    <3>3. JoinedAge'[d] = age'[c] - 1
      BY <1>1, <1>2, <1>3, <2>1 DEF JoinedAge, Ticked
    <3> QED BY <1>3, <3>1, <3>2, <3>3
  <2>2. CASE d # c
    BY <1>1, <1>3, <2>2 DEF JoinedAge, Ticked
  <2> QED BY <2>1, <2>2
<1>6. JoinedAge' = JoinedAge
  BY <1>5 DEF JoinedAge
<1> QED BY <1>1, <1>4, <1>6

LEMMA SendKeeps ==
  ASSUME LockInv, NEW c \in Component, HSend(c)
  PROVE  LockInv' /\ UNCHANGED <<cycle, JoinedAge, fresh>>
<1>1. /\ ticking[c] = "sending" /\ ticking' = [ticking EXCEPT ![c] = "done"]
      /\ UNCHANGED <<cycle, call, position, fresh, age>>
  BY DEF HSend, SendError, walkVars
<1>2. /\ ticking' \in [Component -> {"called", "sending", "done"}]
      /\ \A d \in Component : ticking'[d] # "called" <=> ticking[d] # "called"
  BY <1>1 DEF LockInv
<1>3. call = "step"
  BY <1>1 DEF LockInv
<1>4. LockInv'
  BY <1>1, <1>2, <1>3 DEF LockInv
<1>5. JoinedAge' = JoinedAge
  BY <1>1, <1>2 DEF JoinedAge, Ticked
<1> QED BY <1>1, <1>4, <1>5

LEMMA EndStepTicks ==
  ASSUME LockInv, HEndStep
  PROVE  LockInv' /\ Lock!Tick
<1>1. /\ call = "step" /\ call' \in {"idle", "select"}
      /\ \A c \in Component : ticking[c] = "done"
      /\ cycle' = cycle + 1 /\ fresh' = {}
      /\ UNCHANGED <<ticking, age, position>>
  BY DEF HEndStep, EndStep, Joined, stepVars, walkVars
<1>2. LockInv'
  BY <1>1 DEF LockInv, Calls
<1>3. \A c \in Component : JoinedAge[c] = age[c] - 1 /\ age[c] \in Nat
  BY <1>1 DEF JoinedAge, Ticked, LockInv
<1>4. JoinedAge' = [c \in Component |-> age[c]]
  BY <1>1 DEF JoinedAge, Ticked
<1>5. JoinedAge' = [c \in Component |-> JoinedAge[c] + 1]
  BY <1>3, <1>4
<1> QED BY <1>1, <1>2, <1>5 DEF Lock!Tick

LEMMA ResetResets ==
  ASSUME LockInv, HReset
  PROVE  /\ LockInv'
         /\ Lock!ResetOne(components[position])
         /\ components[position] \in Component
<1> DEFINE c == components[position]
<1>1. /\ call = "reset" /\ position \in 1 .. Len(components) /\ position' = position + 1
      /\ age' = [age EXCEPT ![c] = 0] /\ fresh' = fresh \cup {c}
      /\ UNCHANGED <<cycle, call, ticking>>
  BY DEF HReset, ResetNext, stepVars, LockInv
<1>2. c \in Component
  BY <1>1, Positions
<1>3. /\ age' \in [Component -> Nat] /\ fresh' \subseteq Component /\ age'[c] = 0
      /\ \A d \in Component : d # c => age'[d] = age[d]
  BY <1>1, <1>2 DEF LockInv
<1>4. ASSUME NEW i \in DOMAIN components, i < position + 1
      PROVE  components[i] \in fresh' /\ age'[components[i]] = 0
  <2>1. i \in Nat /\ components[i] \in Component
    BY Positions
  <2>2. CASE i = position
    BY <1>1, <1>3, <2>2
  <2>3. CASE i < position
    BY <1>1, <1>3, <2>1, <2>3 DEF LockInv
  <2> QED BY <1>1, <1>4, <2>1, <2>2, <2>3
<1>5. LockInv'
  <2>1. position' \in Nat \ {0}
    BY <1>1
  <2> QED BY <1>1, <1>3, <1>4, <2>1 DEF LockInv
<1>6. JoinedAge = [d \in Component |-> age[d]] /\ JoinedAge' = [d \in Component |-> age'[d]]
  BY <1>1 DEF JoinedAge, Ticked
<1>7. JoinedAge' = [JoinedAge EXCEPT ![c] = 0]
  BY <1>1, <1>2, <1>3, <1>6
<1> QED BY <1>1, <1>2, <1>5, <1>7 DEF Lock!ResetOne

LEMMA ResetEndsRestart ==
  ASSUME LockInv, HResetEnds
  PROVE  LockInv' /\ (Lock!Restart \/ UNCHANGED <<cycle, JoinedAge, fresh>>)
<1>1. /\ call = "reset" /\ call' = "idle" /\ UNCHANGED <<ticking, position, age, fresh>>
      /\ cycle' \in Nat
  BY DEF HResetEnds, ResetFails, ResetEnds, stepVars, walkVars, LockInv
<1>2. LockInv'
  BY <1>1 DEF LockInv, Calls
<1>3. JoinedAge' = JoinedAge
  BY <1>1 DEF JoinedAge, Ticked
<1>4. CASE ResetFails
  BY <1>1, <1>2, <1>3, <1>4 DEF ResetFails
<1>5. CASE ResetEnds
  <2>1. cycle' = 0 /\ position > Len(components)
    BY <1>5 DEF ResetEnds
  <2>2. ASSUME NEW c \in Component PROVE c \in fresh
    <3>1. PICK i \in DOMAIN components : c = components[i]
      BY DEF Component
    <3>2. i \in 1 .. Len(components) /\ Len(components) \in Nat
      BY Positions
    <3>3. i < position
      BY <2>1, <3>2 DEF LockInv
    <3> QED BY <1>1, <3>1, <3>3 DEF LockInv
  <2>3. fresh = Component
    BY <2>2 DEF LockInv
  <2> QED BY <1>1, <1>2, <1>3, <2>1, <2>3 DEF Lock!Restart
<1> QED BY <1>4, <1>5 DEF HResetEnds

LEMMA RestKeeps ==
  ASSUME LockInv, HClose \/ HCloseNext \/ HOther \/ UNCHANGED hvars
  PROVE  LockInv' /\ UNCHANGED <<cycle, JoinedAge, fresh>>
<1>1. CASE Step \/ RunTicks
  <2>1. /\ call' = "step" /\ call # "step" /\ ticking' = [c \in Component |-> "called"]
        /\ UNCHANGED <<cycle, position, age, fresh>>
    BY <1>1 DEF HClose, HCloseNext, HOther, hvars, Step, RunTicks, BeginStep, walkVars,
                Close, Walk, CloseNext, vars
  <2>2. LockInv'
    BY <2>1 DEF LockInv, Calls
  <2>3. JoinedAge' = JoinedAge
    BY <2>1 DEF JoinedAge, Ticked
  <2> QED BY <2>1, <2>2, <2>3
<1>2. CASE Run \/ RunCancelled \/ Reset \/ Close \/ CloseNext \/ CloseEnds
  <2>1. /\ call' \in Calls \ {"step"} /\ call # "step"
        /\ position' \in Nat \ {0}
        /\ call' = "reset" => position' = 1
        /\ UNCHANGED <<cycle, ticking, age, fresh>>
    BY <1>2 DEF HClose, HCloseNext, HOther, hvars, Run, RunCancelled, Reset, Close, Walk,
                CloseNext, CloseEnds, walkVars, stepVars, Calls, LockInv, vars
  <2>2. \A i \in DOMAIN components : ~(i < 1)
    BY Positions
  <2>3. LockInv'
    <3>1. call' = "reset" => \A i \in DOMAIN components : ~(i < position')
      BY <2>1, <2>2
    <3>2. \A c \in Component : ticking'[c] = "done"
      BY <2>1 DEF LockInv
    <3> QED BY <2>1, <3>1, <3>2 DEF LockInv
  <2>4. JoinedAge' = JoinedAge
    BY <2>1 DEF JoinedAge, Ticked
  <2> QED BY <2>1, <2>3, <2>4
<1>3. CASE Cancel \/ UNCHANGED hvars
  <2>1. UNCHANGED <<cycle, call, ticking, position, age, fresh>>
    BY <1>3 DEF HClose, HCloseNext, HOther, hvars, vars, Cancel, stepVars, walkVars
  <2> QED BY <2>1 DEF LockInv, JoinedAge, Ticked
<1> QED BY <1>1, <1>2, <1>3 DEF HClose, HCloseNext, HOther

LEMMA LockInductive == LockInv /\ [HNext]_hvars => LockInv'
  BY TickKeeps, SendKeeps, EndStepTicks, ResetResets, ResetEndsRestart, RestKeeps
     DEF HNext, HControl

-----------------------------------------------------------------------------
(* motherboard.go:107-143: however the goroutines of a Step interleave and *)
(* whichever fail, components and counter move as Lockstep says.           *)
THEOREM MotherboardInLockstep == HSpec => ImplementsLockstep
<1>1. HInit => Lock!Init
  <2> SUFFICES ASSUME HInit PROVE Lock!Init
    OBVIOUS
  <2>1. JoinedAge = [c \in Component |-> 0]
    BY DEF HInit, Init, JoinedAge, Ticked
  <2> QED BY <2>1 DEF HInit, Init, Lock!Init
<1>2. LockInv /\ [HNext]_hvars => LockInv' /\ [Lock!Next]_(Lock!vars)
  BY TickKeeps, SendKeeps, EndStepTicks, ResetResets, ResetEndsRestart, RestKeeps
     DEF HNext, HControl, Lock!Next, Lock!vars
<1> QED BY <1>1, <1>2, LockStarts, PTL DEF HSpec, ImplementsLockstep, Lock!Spec

-----------------------------------------------------------------------------
(* AgesMatchCycle, also within a Reset, where no age grows. *)
AgeInv ==
  /\ LockInv
  /\ partial \in BOOLEAN
  /\ \A c \in Component : JoinedAge[c] \in Nat /\ JoinedAge[c] <= cycle
  /\ call # "reset" /\ ~partial => \A c \in Component : JoinedAge[c] = cycle

LEMMA AgesStart == HInit => AgeInv
<1> SUFFICES ASSUME HInit PROVE AgeInv
  OBVIOUS
<1>1. JoinedAge = [c \in Component |-> 0]
  BY DEF HInit, Init, JoinedAge, Ticked
<1>2. LockInv
  BY LockStarts
<1>3. partial \in BOOLEAN
  BY DEF HInit
<1>4. \A c \in Component : JoinedAge[c] = cycle /\ JoinedAge[c] \in Nat /\ JoinedAge[c] <= cycle
  BY <1>1 DEF HInit, Init
<1> QED BY <1>2, <1>3, <1>4 DEF AgeInv

(* What moves neither ages nor the counter, and ends no Reset. *)
LEMMA AgesStand ==
  ASSUME AgeInv, LockInv', UNCHANGED <<cycle, JoinedAge, partial>>,
         call = "reset" => call' = "reset"
  PROVE  AgeInv'
  BY DEF AgeInv

LEMMA StepAges ==
  ASSUME AgeInv, HEndStep
  PROVE  AgeInv'
<1>1. LockInv' /\ Lock!Tick
  BY EndStepTicks DEF AgeInv
<1>2. call = "step" /\ call' # "reset" /\ UNCHANGED partial
  BY DEF HEndStep, EndStep
<1>3. cycle' = cycle + 1 /\ \A c \in Component : JoinedAge'[c] = JoinedAge[c] + 1
  BY <1>1 DEF Lock!Tick
<1> QED BY <1>1, <1>2, <1>3 DEF AgeInv, LockInv

LEMMA ResetAges ==
  ASSUME AgeInv, HReset
  PROVE  AgeInv'
<1> DEFINE d == components[position]
<1>1. LockInv' /\ Lock!ResetOne(d) /\ d \in Component
  BY ResetResets DEF AgeInv
<1>2. call' = "reset" /\ UNCHANGED partial
  BY DEF HReset, ResetNext
<1>3. JoinedAge' = [JoinedAge EXCEPT ![d] = 0] /\ cycle' = cycle
  BY <1>1 DEF Lock!ResetOne
<1>4. DOMAIN JoinedAge = Component
  BY DEF JoinedAge
<1>5. \A c \in Component : JoinedAge'[c] = 0 \/ JoinedAge'[c] = JoinedAge[c]
  BY <1>1, <1>3, <1>4
<1> QED BY <1>1, <1>2, <1>3, <1>5 DEF AgeInv, LockInv

LEMMA ResetEndAges ==
  ASSUME AgeInv, HResetEnds
  PROVE  AgeInv'
<1>1. LockInv /\ LockInv'
  BY ResetEndsRestart DEF AgeInv
<1>2. call = "reset" /\ call' = "idle" /\ UNCHANGED <<ticking, position, age, fresh>>
  BY DEF HResetEnds, ResetFails, ResetEnds, stepVars, walkVars
<1>3. JoinedAge' = JoinedAge /\ \A c \in Component : JoinedAge[c] = age[c]
  BY <1>2 DEF JoinedAge, Ticked
<1>4. CASE ResetFails
  <2>1. cycle' = cycle /\ partial' = TRUE
    BY <1>4 DEF HResetEnds, ResetFails
  <2> QED BY <1>1, <1>3, <2>1 DEF AgeInv
<1>5. CASE ResetEnds
  <2>1. cycle' = 0 /\ position > Len(components) /\ partial' \in BOOLEAN
    BY <1>5 DEF HResetEnds, ResetEnds
  <2>2. ASSUME NEW c \in Component PROVE age[c] = 0
    <3>1. PICK i \in DOMAIN components : c = components[i]
      BY DEF Component
    <3>2. i \in 1 .. Len(components) /\ Len(components) \in Nat
      BY Positions
    <3>3. i < position
      BY <2>1, <3>2 DEF LockInv, AgeInv
    <3> QED BY <1>1, <1>2, <3>1, <3>3 DEF LockInv
  <2> QED BY <1>1, <1>3, <2>1, <2>2 DEF AgeInv
<1> QED BY <1>4, <1>5 DEF HResetEnds

(* motherboard.go:52-69,107-143: however Steps and Resets follow each       *)
(* other and whichever component fails in them, no component is older than *)
(* the counter says, and without a failed Reset none is younger.           *)
THEOREM AgesCorrect == HSpec => []AgesMatchCycle
<1>1. AgeInv /\ [HNext]_hvars => AgeInv'
  <2> SUFFICES ASSUME AgeInv, [HNext]_hvars PROVE AgeInv'
    OBVIOUS
  <2>0. LockInv
    BY DEF AgeInv
  <2>1. ASSUME NEW c \in Component, HTick(c) PROVE AgeInv'
    <3>1. LockInv' /\ UNCHANGED <<cycle, JoinedAge, fresh>>
      BY <2>0, <2>1, TickKeeps
    <3>2. UNCHANGED <<call, partial>>
      BY <2>1 DEF HTick, TickSucceeds, TickFails
    <3> QED BY <3>1, <3>2, AgesStand
  <2>2. ASSUME NEW c \in Component, HSend(c) PROVE AgeInv'
    <3>1. LockInv' /\ UNCHANGED <<cycle, JoinedAge, fresh>>
      BY <2>0, <2>2, SendKeeps
    <3>2. UNCHANGED <<call, partial>>
      BY <2>2 DEF HSend, SendError
    <3> QED BY <3>1, <3>2, AgesStand
  <2>3. CASE HEndStep
    BY <2>3, StepAges
  <2>4. CASE HReset
    BY <2>4, ResetAges
  <2>5. CASE HResetEnds
    BY <2>5, ResetEndAges
  <2>6. CASE HClose \/ HCloseNext \/ HOther \/ UNCHANGED hvars
    <3>1. LockInv' /\ UNCHANGED <<cycle, JoinedAge, fresh>>
      BY <2>0, <2>6, RestKeeps
    <3>2. UNCHANGED partial /\ (call = "reset" => call' = "reset")
      BY <2>6 DEF HClose, HCloseNext, HOther, hvars, vars, Step, RunTicks, BeginStep, Run,
                  RunCancelled, Cancel, Reset, Close, Walk, CloseNext, CloseEnds
    <3> QED BY <3>1, <3>2, AgesStand
  <2> QED BY <2>1, <2>2, <2>3, <2>4, <2>5, <2>6 DEF HNext, HControl
<1>2. AgeInv => AgesMatchCycle
  BY DEF AgeInv, AgesMatchCycle
<1> QED BY <1>1, <1>2, AgesStart, PTL DEF HSpec
-----------------------------------------------------------------------------
(* Close visits each component once: what lies before position is closed,  *)
(* what lies behind it is not.                                             *)
CloseInv ==
  /\ position \in Nat \ {0}
  /\ closed \in [Component -> Nat]
  /\ call = "close" => \A i \in DOMAIN components :
                         closed[components[i]] = IF i < position THEN 1 ELSE 0

(* No component is attached twice. *)
LEMMA AttachedOnce ==
  ASSUME NEW i \in DOMAIN components, NEW j \in DOMAIN components,
         components[i] = components[j]
  PROVE  i = j
<1>1. /\ IsFiniteSet(1 .. Len(components))
      /\ Cardinality(1 .. Len(components)) = Len(components)
  <2> DEFINE n == Len(components)
  <2>1. n \in Nat
    BY Positions
  <2> HIDE DEF n
  <2>2. /\ IsFiniteSet(1 .. n)
        /\ Cardinality(1 .. n) = IF 1 > n THEN 0 ELSE n - 1 + 1
    BY <2>1, FS_Interval
  <2>3. IsFiniteSet(1 .. n) /\ Cardinality(1 .. n) = n
    BY <2>1, <2>2
  <2> QED BY <2>3 DEF n
<1>2. components \in Surjection(1 .. Len(components), Component)
  <2>1. components \in [1 .. Len(components) -> Component]
    BY Positions, ComponentsAssumption
  <2> QED BY <2>1, Positions DEF Surjection, Component
<1>3. components \in Injection(1 .. Len(components), Component)
  <2>1. Cardinality(1 .. Len(components)) = Cardinality(Component)
    BY <1>1, ComponentsAssumption
  <2> QED BY <1>1, <1>2, <2>1, FS_SurjSameCardinalityImpliesInj
<1> QED BY <1>3, Positions DEF Injection, IsInjective

LEMMA CloseInductive == CloseInv /\ [HNext]_hvars => CloseInv'
<1> SUFFICES ASSUME CloseInv, [HNext]_hvars PROVE CloseInv'
  OBVIOUS
<1> USE DEF CloseInv
<1>1. CASE HCloseNext
  <2> DEFINE c == components[position]
  <2>1. /\ call = "close" /\ position \in 1 .. Len(components) /\ position' = position + 1
        /\ closed' = [closed EXCEPT ![c] = @ + 1] /\ UNCHANGED call
    BY <1>1, Positions DEF HCloseNext, CloseNext
  <2>2. c \in Component /\ closed[c] = 0
    BY <2>1, Positions
  <2>3. closed' \in [Component -> Nat] /\ closed'[c] = 1
    BY <2>1, <2>2
  <2>4. ASSUME NEW i \in DOMAIN components
        PROVE  closed'[components[i]] = IF i < position + 1 THEN 1 ELSE 0
    <3>1. i \in Nat /\ components[i] \in Component
      BY Positions
    <3>2. CASE i = position
      BY <2>1, <2>3, <3>1, <3>2
    <3>3. CASE i # position
      <4>1. components[i] # c
        BY <2>1, <3>3, AttachedOnce, Positions
      <4>2. closed'[components[i]] = closed[components[i]]
        BY <2>1, <3>1, <4>1
      <4> QED BY <2>1, <3>1, <3>3, <4>2
    <3> QED BY <3>2, <3>3
  <2>5. position' \in Nat \ {0}
    BY <2>1
  <2> QED BY <2>1, <2>3, <2>4, <2>5
<1>2. CASE HClose
  <2>1. position' = 1 /\ closed' = [c \in Component |-> 0]
    BY <1>2 DEF HClose, Close, Walk
  <2>2. \A i \in DOMAIN components : ~(i < 1) /\ components[i] \in Component
    BY Positions
  <2> QED BY <2>1, <2>2
<1>3. CASE HReset
  <2>1. call' = "reset" /\ position' = position + 1 /\ UNCHANGED closed
    BY <1>3 DEF HReset, ResetNext
  <2> QED BY <2>1
<1>4. CASE HOther
  <2>1. UNCHANGED closed /\ (call' = "close" => call = "close" /\ position' = position)
    BY <1>4 DEF HOther, Step, Run, RunTicks, RunCancelled, Cancel, Reset, Walk, CloseEnds,
                BeginStep, walkVars
  <2>2. position' = position \/ position' = 1
    BY <1>4 DEF HOther, Step, Run, RunTicks, RunCancelled, Cancel, Reset, Walk, CloseEnds,
                walkVars
  <2> QED BY <2>1, <2>2
<1>5. CASE HEndStep \/ HResetEnds \/ UNCHANGED hvars
            \/ \E c \in Component : HTick(c) \/ HSend(c)
  <2>1. UNCHANGED <<position, closed>> /\ (call' = "close" => call = "close")
    BY <1>5 DEF HEndStep, EndStep, HResetEnds, ResetFails, ResetEnds, hvars, vars, HTick,
                TickSucceeds, TickFails, HSend, SendError, walkVars
  <2> QED BY <2>1
<1> QED BY <1>1, <1>2, <1>3, <1>4, <1>5 DEF HNext, HControl

(* motherboard.go:71-82: whichever components fail to close, a Close that   *)
(* returns has closed each of them once, and returns all their errors.     *)
THEOREM CloseIsComplete == HSpec => CloseReachesAll
<1>1. HInit => CloseInv
  BY DEF HInit, Init, CloseInv
<1>2. CloseInv /\ [HNext]_hvars => (CloseEnds => (\A c \in Component : closed[c] = 1) /\ result' = errs)
  <2> SUFFICES ASSUME CloseInv, CloseEnds
               PROVE  (\A c \in Component : closed[c] = 1) /\ result' = errs
    OBVIOUS
  <2>1. call = "close" /\ position > Len(components) /\ result' = errs
    BY DEF CloseEnds
  <2>2. ASSUME NEW c \in Component PROVE closed[c] = 1
    <3>1. PICK i \in DOMAIN components : c = components[i]
      BY DEF Component
    <3>2. i < position
      BY <2>1, <3>1, Positions DEF CloseInv
    <3> QED BY <2>1, <3>1, <3>2 DEF CloseInv
  <2> QED BY <2>1, <2>2
<1>3. CloseInv /\ [HNext]_hvars
        => [CloseEnds => (\A c \in Component : closed[c] = 1) /\ result' = errs]_hvars
  BY <1>2
<1> QED BY <1>1, <1>3, CloseInductive, PTL DEF HSpec, CloseReachesAll

-----------------------------------------------------------------------------
(* The frames of the CRTC.  A frame is begun, drawn and shown within one    *)
(* Step; a switch is written within one, and its setter refreshes the      *)
(* display before the tick returns.                                        *)
Graphics == RenderOf(mode) \notin TextStyles

DrawingPlace ==
  /\ drawing.pass # "idle" =>
       call = "step" /\ ticking[crtc] = "called" /\ drawing.cycle = cycle
  /\ setting => call = "step" /\ ticking[processor] = "called" /\ written = cycle + 1
  /\ ~setting => video.render = RenderOf(mode)
  /\ written \in Nat
  /\ written <= cycle + 1
  /\ call # "step" => written <= cycle

(* What a frame drawn under one mode is made of, pass by pass: the bands   *)
(* behind the beam are those of the frame of the mode.                     *)
DrawnSoFar ==
  LET whole == FrameOf(mode) IN
  /\ video.render = RenderOf(mode) /\ drawing.by = RenderOf(mode)
  /\ drawing.pass = "graphics" => Graphics
  /\ drawing.pass = "mixed" =>
       /\ Graphics /\ drawing.band = "upper"
       /\ drawing.frame.upper = whole.upper
       /\ ~mode.Mixed => drawing.frame.lower = whole.lower
  /\ drawing.pass = "text" =>
       IF Graphics
         THEN /\ mode.Mixed /\ drawing.text = TextUnder(drawing.by, mode)
              /\ drawing.frame.upper = whole.upper
         ELSE drawing.text = drawing.by
  /\ drawing.pass = "done" => drawing.frame = whole
  /\ drawing.pass \in {"graphics", "text"} /\ drawing.band = "lower" =>
       drawing.frame.upper = whole.upper

(* The drawing is a record of the fields it starts with. *)
DrawingShape ==
  /\ drawing = [pass |-> drawing.pass, band |-> drawing.band, by |-> drawing.by,
                text |-> drawing.text, cycle |-> drawing.cycle, frame |-> drawing.frame]
  /\ drawing.frame = [upper |-> drawing.frame.upper, lower |-> drawing.frame.lower]
  /\ drawing.band \in {"upper", "lower"}

(* Not "video = UpdateDisplayMode(mode)": SetStore80 changes the page and   *)
(* refreshes nothing, so what every tick leaves behind is the way of       *)
(* rendering alone.                                                        *)
DrawInv ==
  /\ DrawingShape /\ DrawingPlace
  /\ drawing.pass # "idle" /\ written # cycle + 1 => DrawnSoFar

LEMMA TextRendered ==
  ASSUME NEW m
  PROVE  RenderOf(m) \in TextStyles <=> m.Text
<1>1. CASE m.Text
  <2>1. CASE m.Columns80
    BY <1>1, <2>1 DEF RenderOf, TextStyles
  <2>2. CASE ~m.Columns80
    BY <1>1, <2>2 DEF RenderOf, TextStyles
  <2> QED BY <1>1, <2>1, <2>2
<1>2. CASE ~m.Text
  BY <1>2 DEF RenderOf, TextStyles
<1> QED BY <1>1, <1>2

(* A band drawn in a cycle without a write is the band of the frame. *)
LEMMA BandDrawn ==
  ASSUME DrawingShape, DrawnSoFar, DrawBand
  PROVE  DrawingShape' /\ DrawnSoFar'
<1> DEFINE whole == FrameOf(mode)
           style == IF drawing.pass = "text" THEN drawing.text ELSE drawing.by
           drawn == Band(style, mode, video.render)
           band  == IF Skips(drawing.pass, drawing.band) THEN drawing.frame[drawing.band] ELSE drawn
<1>1. UNCHANGED <<mode, video, setting>> /\ drawing.pass \in {"graphics", "text"}
  BY DEF DrawBand
<1>2. video.render = RenderOf(mode) /\ drawing.by = RenderOf(mode)
  BY DEF DrawnSoFar
<1>3. Graphics <=> ~mode.Text
  BY TextRendered DEF Graphics
<1>4. CASE drawing.band = "upper"
  <2>1. /\ drawing'.frame = [upper |-> band, lower |-> drawing.frame.lower]
        /\ drawing'.band = "lower" /\ drawing'.pass = drawing.pass
        /\ drawing'.by = drawing.by /\ drawing'.text = drawing.text
        /\ DrawingShape'
    <3> HIDE DEF Skips
    <3> QED BY <1>1, <1>4 DEF DrawBand, DrawingShape
  <2>2. band = whole.upper
    <3>1. whole.upper = Band(RenderOf(mode), mode, RenderOf(mode))
      BY DEF FrameOf
    <3>2. CASE drawing.pass = "graphics"
      BY <1>2, <1>4, <3>1, <3>2 DEF Skips
    <3>3. CASE drawing.pass = "text" /\ Graphics
      <4>1. Skips(drawing.pass, drawing.band)
        BY <1>3, <1>4, <3>3 DEF Skips, DrawnSoFar
      <4> QED BY <1>4, <3>3, <4>1 DEF DrawnSoFar
    <3>4. CASE drawing.pass = "text" /\ ~Graphics
      <4>1. ~Skips(drawing.pass, drawing.band)
        BY <1>3, <1>4, <3>4 DEF Skips
      <4>2. drawing.text = RenderOf(mode)
        BY <1>2, <3>4 DEF DrawnSoFar
      <4> QED BY <1>2, <3>1, <3>4, <4>1, <4>2
    <3> QED BY <1>1, <3>2, <3>3, <3>4
  <2>3. DrawnSoFar'
    <3> HIDE DEF band
    <3> QED BY <1>1, <1>2, <2>1, <2>2 DEF DrawnSoFar, Graphics
  <2> QED BY <2>1, <2>3
<1>5. CASE drawing.band = "lower"
  <2>1. /\ drawing'.frame = [upper |-> drawing.frame.upper, lower |-> band]
        /\ drawing'.band = "upper" /\ drawing'.pass = AfterPass(drawing.pass)
        /\ drawing'.by = drawing.by /\ drawing'.text = drawing.text
        /\ DrawingShape'
    <3> HIDE DEF Skips, AfterPass
    <3> QED BY <1>1, <1>5 DEF DrawBand, DrawingShape
  <2>2. drawing.frame.upper = whole.upper
    BY <1>1, <1>5 DEF DrawnSoFar
  <2>3. whole = [upper |-> whole.upper,
                 lower |-> Band(IF Graphics /\ mode.Mixed THEN TextUnder(RenderOf(mode), mode)
                                                         ELSE RenderOf(mode), mode, RenderOf(mode))]
    BY DEF FrameOf, Graphics
  <2>4. CASE drawing.pass = "graphics"
    <3>1. Graphics /\ AfterPass(drawing.pass) = "mixed"
      BY <2>4 DEF DrawnSoFar, AfterPass
    <3>2. ~mode.Mixed => band = whole.lower
      BY <1>2, <1>5, <2>3, <2>4 DEF Skips
    <3> HIDE DEF band
    <3> QED BY <1>1, <1>2, <2>1, <2>2, <3>1, <3>2 DEF DrawnSoFar, Graphics
  <2>5. CASE drawing.pass = "text"
    <3>1. AfterPass(drawing.pass) = "done" /\ ~Skips(drawing.pass, drawing.band)
      BY <1>5, <2>5 DEF AfterPass, Skips
    <3>2. band = whole.lower
      <4>1. CASE Graphics
        BY <1>2, <2>3, <2>5, <3>1, <4>1 DEF DrawnSoFar
      <4>2. CASE ~Graphics
        BY <1>2, <2>3, <2>5, <3>1, <4>2 DEF DrawnSoFar
      <4> QED BY <4>1, <4>2
    <3>3. drawing'.frame = whole
      <4> HIDE DEF band
      <4> QED BY <2>1, <2>2, <2>3, <3>2
    <3> HIDE DEF band
    <3> QED BY <1>1, <1>2, <2>1, <3>1, <3>3 DEF DrawnSoFar, Graphics
  <2> QED BY <1>1, <2>4, <2>5
<1> QED BY <1>4, <1>5 DEF DrawingShape

(* So is a frame of graphics with text below, whose mode is read again. *)
LEMMA TextUnderBegun ==
  ASSUME DrawingShape, DrawnSoFar, DrawTextUnder
  PROVE  DrawingShape' /\ DrawnSoFar'
<1> DEFINE whole == FrameOf(mode)
<1>1. /\ UNCHANGED <<mode, video, setting>> /\ drawing.pass = "mixed"
      /\ drawing' = [drawing EXCEPT !.pass = IF mode.Mixed THEN "text" ELSE "done",
                                   !.text = TextUnder(drawing.by, mode)]
  BY DEF DrawTextUnder
<1>2. /\ Graphics /\ drawing.band = "upper" /\ drawing.frame.upper = whole.upper
      /\ ~mode.Mixed => drawing.frame.lower = whole.lower
      /\ video.render = RenderOf(mode) /\ drawing.by = RenderOf(mode)
  BY <1>1 DEF DrawnSoFar
<1>3. /\ DrawingShape' /\ UNCHANGED <<drawing.band, drawing.by, drawing.frame>>
      /\ drawing'.pass = IF mode.Mixed THEN "text" ELSE "done"
      /\ drawing'.text = TextUnder(drawing.by, mode)
  BY <1>1 DEF DrawingShape
<1>4. whole = [upper |-> whole.upper, lower |-> whole.lower]
  BY DEF FrameOf
<1>5. ~mode.Mixed => drawing.frame = whole
  BY <1>2, <1>4 DEF DrawingShape
<1> QED BY <1>1, <1>2, <1>3, <1>5 DEF DrawnSoFar, Graphics

LEMMA FrameBegun ==
  ASSUME DrawingShape, StartFrame(cycle), video.render = RenderOf(mode)
  PROVE  DrawingShape' /\ DrawnSoFar'
<1>1. /\ UNCHANGED <<mode, video>>
      /\ drawing' = [NoFrame EXCEPT !.pass = IF video.render \in TextStyles THEN "text" ELSE "graphics",
                                   !.by = video.render, !.text = video.render, !.cycle = cycle]
  BY DEF StartFrame
<1>2. /\ DrawingShape' /\ drawing'.band = "upper"
      /\ drawing'.by = video.render /\ drawing'.text = video.render
      /\ drawing'.pass = IF video.render \in TextStyles THEN "text" ELSE "graphics"
  BY <1>1 DEF NoFrame, DrawingShape
<1> QED BY <1>1, <1>2 DEF DrawnSoFar, Graphics

-----------------------------------------------------------------------------
(* What the control of the motherboard does to cycle and ticks: it goes on *)
(* in a Step, joins one, or works outside of one.                          *)
LEMMA ControlSteps ==
  ASSUME LockInv, HControl
  PROVE  \/ /\ cycle' = cycle /\ call = "step" /\ call' = "step"
            /\ \A c \in Component : ticking[c] = "called" => ticking'[c] = "called"
         \/ /\ cycle' = cycle + 1 /\ call = "step" /\ call' # "step"
            /\ \A c \in Component : ticking[c] = "done"
         \/ call # "step" /\ cycle' \in {cycle, 0} /\ (cycle' # cycle => call' # "step")
<1>1. ASSUME NEW c \in Component, HSend(c)
      PROVE  /\ cycle' = cycle /\ call = "step" /\ call' = "step"
             /\ \A d \in Component : ticking[d] = "called" => ticking'[d] = "called"
  <2>1. /\ ticking[c] = "sending" /\ ticking' = [ticking EXCEPT ![c] = "done"]
        /\ UNCHANGED <<cycle, call>>
    BY <1>1 DEF HSend, SendError
  <2> QED BY <2>1 DEF LockInv
<1>2. CASE HEndStep
  BY <1>2 DEF HEndStep, EndStep, Joined
<1>3. CASE HReset \/ HResetEnds \/ HClose \/ HCloseNext
  BY <1>3 DEF HReset, ResetNext, HResetEnds, ResetFails, ResetEnds, HClose, Close, Walk,
              HCloseNext, CloseNext
<1>4. CASE HOther
  <2>1. CASE Cancel
    <3>1. UNCHANGED <<cycle, call, ticking>>
      BY <2>1 DEF Cancel, stepVars
    <3> QED BY <3>1
  <2>2. CASE ~Cancel
    BY <1>4, <2>2 DEF HOther, Step, Run, RunTicks, BeginStep, RunCancelled, Reset, Walk,
                      CloseEnds
  <2> QED BY <2>1, <2>2
<1> QED BY <1>1, <1>2, <1>3, <1>4 DEF HControl

LEMMA ControlKeepsDrawing ==
  ASSUME LockInv, DrawInv, Control
  PROVE  DrawInv'
<1>1. /\ UNCHANGED <<mode, video, setting, drawing>> /\ HControl
      /\ written' = IF cycle' < cycle THEN 0 ELSE written
  BY DEF Control, drawVars
<1>2. cycle \in Nat /\ written \in Nat /\ written <= cycle + 1
  BY DEF LockInv, DrawInv, DrawingPlace
<1>3. DrawingShape'
  BY <1>1 DEF DrawInv, DrawingShape
<1>4. CASE /\ cycle' = cycle /\ call = "step" /\ call' = "step"
           /\ \A c \in Component : ticking[c] = "called" => ticking'[c] = "called"
  <2>1. written' = written
    BY <1>1, <1>2, <1>4
  <2>2. DrawingPlace'
    BY <1>1, <1>4, <2>1, DrawingAssumption DEF DrawInv, DrawingPlace
  <2> QED BY <1>1, <1>3, <1>4, <2>1, <2>2 DEF DrawInv, DrawnSoFar, Graphics
<1>5. CASE /\ cycle' = cycle + 1 /\ call = "step" /\ call' # "step"
           /\ \A c \in Component : ticking[c] = "done"
  <2>1. ~setting /\ drawing.pass = "idle"
    BY <1>5, DrawingAssumption DEF DrawInv, DrawingPlace
  <2>2. written' = written /\ written' <= cycle'
    BY <1>1, <1>2, <1>5
  <2>3. DrawingPlace'
    BY <1>1, <1>2, <1>5, <2>1, <2>2 DEF DrawInv, DrawingPlace
  <2> QED BY <1>1, <1>3, <2>1, <2>3 DEF DrawInv
<1>6. CASE call # "step" /\ cycle' \in {cycle, 0} /\ (cycle' # cycle => call' # "step")
  <2>1. ~setting /\ drawing.pass = "idle" /\ written <= cycle
    BY <1>6 DEF DrawInv, DrawingPlace
  <2>2. written' \in Nat /\ written' <= cycle'
    <3>1. CASE cycle' = cycle
      BY <1>1, <1>2, <2>1, <3>1
    <3>2. CASE cycle' = 0 /\ cycle' # cycle
      <4>1. cycle' < cycle
        BY <1>2, <3>2
      <4>2. written' = 0
        BY <1>1, <4>1
      <4> QED BY <3>2, <4>2
    <3> QED BY <1>6, <3>1, <3>2
  <2>3. cycle' \in Nat /\ written' <= cycle' + 1
    <3>1. cycle' \in Nat
      BY <1>2, <1>6
    <3>2. \A w, c \in Nat : w <= c => w <= c + 1
      OBVIOUS
    <3> QED BY <2>2, <3>1, <3>2
  <2>4. DrawingPlace'
    BY <1>1, <2>1, <2>2, <2>3 DEF DrawInv, DrawingPlace
  <2> QED BY <1>1, <1>3, <2>1, <2>4 DEF DrawInv
<1> QED BY <1>1, <1>4, <1>5, <1>6, ControlSteps

LEMMA ReturnKeepsDrawing ==
  ASSUME LockInv, DrawInv, NEW c \in Component, TickReturns(c)
  PROVE  DrawInv'
<1>1. /\ UNCHANGED <<mode, video, setting, written, cycle, call>>
      /\ ticking[c] = "called"
      /\ \A d \in Component : d # c => ticking'[d] = ticking[d]
      /\ c = processor => ~setting
      /\ drawing' = IF c = crtc THEN NoFrame ELSE drawing
  BY DEF TickReturns, EndFrame, HTick, TickSucceeds, TickFails, LockInv
<1>2. call = "step"
  BY <1>1 DEF LockInv
<1>3. CASE c = crtc
  <2>1. drawing' = NoFrame
    BY <1>1, <1>3
  <2>2. DrawingShape' /\ drawing'.pass = "idle"
    BY <2>1 DEF DrawingShape, NoFrame
  <2>3. DrawingPlace'
    BY <1>1, <1>2, <2>2, DrawingAssumption DEF DrawInv, DrawingPlace
  <2> QED BY <2>2, <2>3 DEF DrawInv
<1>4. CASE c # crtc
  <2>1. drawing' = drawing /\ ticking'[crtc] = ticking[crtc]
    BY <1>1, <1>4, DrawingAssumption
  <2>2. DrawingPlace'
    BY <1>1, <1>2, <2>1, DrawingAssumption DEF DrawInv, DrawingPlace
  <2> QED BY <1>1, <2>1, <2>2 DEF DrawInv, DrawingShape, DrawnSoFar, Graphics
<1> QED BY <1>3, <1>4

LEMMA DrawingKeeps ==
  ASSUME LockInv, DrawInv, Drawing
  PROVE  DrawInv'
<1>1. UNCHANGED <<cycle, call, ticking>>
  BY DEF Drawing, WriteSwitch, FinishSwitch, StartDrawing, Draw, hvars, vars
<1>2. cycle \in Nat /\ written \in Nat /\ written <= cycle + 1 /\ cycle + 1 \in Nat
  BY DEF LockInv, DrawInv, DrawingPlace
<1>3. CASE WriteSwitch
  <2>1. /\ ticking[processor] = "called" /\ written' = cycle + 1
        /\ UNCHANGED <<video, drawing>>
        /\ ~setting
    BY <1>3 DEF WriteSwitch, SetFlag
  <2>2. call = "step"
    BY <2>1, DrawingAssumption DEF LockInv
  <2>3. ~setting' => video'.render = RenderOf(mode')
    <3>1. PICK flag \in Switches, on \in BOOLEAN : SetFlag(flag, on)
      BY <1>3 DEF WriteSwitch
    <3>2. /\ mode' = [mode EXCEPT ![flag] = on] /\ video' = video
          /\ setting' = (flag \in Refreshing) /\ ~setting
          /\ flag \in Flags
      BY <3>1, DrawingAssumption DEF SetFlag
    <3>3. CASE flag \in {"Mixed", "Store80", "AltCharset"}
      <4>1. /\ mode'.Text = mode.Text /\ mode'.HiRes = mode.HiRes
            /\ mode'.Columns80 = mode.Columns80 /\ mode'.DoubleWidth = mode.DoubleWidth
        BY <3>2, <3>3
      <4> QED BY <3>2, <4>1 DEF RenderOf, DrawInv, DrawingPlace
    <3>4. CASE flag \in Refreshing
      <4>1. setting'
        BY <3>2, <3>4
      <4> QED BY <4>1
    <3> QED BY <3>2, <3>3, <3>4 DEF Refreshing
  <2>4. DrawingPlace'
    BY <1>1, <1>2, <2>1, <2>2, <2>3 DEF DrawInv, DrawingPlace
  <2> QED BY <1>1, <2>1, <2>4 DEF DrawInv, DrawingShape
<1>4. CASE FinishSwitch
  <2>1. /\ setting /\ ~setting' /\ video'.render = RenderOf(mode')
        /\ UNCHANGED <<mode, drawing, written>>
    BY <1>4 DEF FinishSwitch, Refresh, UpdateDisplayMode
  <2>2. written = cycle + 1
    BY <2>1 DEF DrawInv, DrawingPlace
  <2> QED BY <1>1, <2>1, <2>2 DEF DrawInv, DrawingPlace, DrawingShape
<1>5. CASE StartDrawing
  <2>1. /\ ticking[crtc] = "called" /\ StartFrame(cycle)
        /\ UNCHANGED <<mode, video, setting, written>>
        /\ drawing'.cycle = cycle
    BY <1>5 DEF StartDrawing, StartFrame, NoFrame
  <2>2. call = "step"
    BY <2>1, DrawingAssumption DEF LockInv
  <2>3. DrawingPlace'
    BY <1>1, <2>1, <2>2 DEF DrawInv, DrawingPlace
  <2>4. DrawingShape'
    BY <2>1 DEF StartFrame, NoFrame, DrawingShape
  <2>5. written # cycle + 1 => DrawnSoFar'
    BY <2>1, FrameBegun DEF DrawInv, DrawingPlace
  <2> QED BY <1>1, <2>1, <2>3, <2>4, <2>5 DEF DrawInv
<1>6. CASE Draw
  <2>1. /\ DrawBand \/ DrawTextUnder
        /\ UNCHANGED <<mode, video, setting, written>>
        /\ drawing.pass # "idle"
        /\ DrawingShape
    BY <1>6 DEF Draw, DrawStep, DrawBand, DrawTextUnder, DrawInv
  <2>2. drawing'.cycle = drawing.cycle /\ DrawingShape'
    BY <2>1 DEF DrawBand, DrawTextUnder, DrawingShape
  <2>3. DrawingPlace'
    BY <1>1, <2>1, <2>2 DEF DrawInv, DrawingPlace
  <2>4. written # cycle + 1 => DrawnSoFar'
    BY <2>1, BandDrawn, TextUnderBegun DEF DrawInv
  <2> QED BY <1>1, <2>1, <2>2, <2>3, <2>4 DEF DrawInv
<1> QED BY <1>3, <1>4, <1>5, <1>6 DEF Drawing

LEMMA MachineStarts == MInit => LockInv /\ DrawInv
<1> SUFFICES ASSUME MInit PROVE LockInv /\ DrawInv
  OBVIOUS
<1>1. /\ HInit /\ written = 0 /\ setting = FALSE /\ video.render = RenderOf(mode)
      /\ drawing = NoFrame /\ cycle = 0 /\ call = "idle"
  BY DEF MInit, DrawInit, HInit, Init, UpdateDisplayMode
<1> QED BY <1>1, LockStarts DEF DrawInv, DrawingShape, DrawingPlace, NoFrame

LEMMA MachineKeeps ==
  ASSUME LockInv, DrawInv, [MNext]_mvars
  PROVE  LockInv' /\ DrawInv'
<1>1. [HNext]_hvars
  BY DEF MNext, Control, Drawing, WriteSwitch, FinishSwitch, StartDrawing, Draw, TickReturns,
         HNext, mvars
<1>2. LockInv'
  BY <1>1, LockInductive
<1>3. CASE UNCHANGED mvars
  <2>1. UNCHANGED <<mode, video, setting, drawing, written, cycle, call, ticking>>
    BY <1>3 DEF mvars, hvars, vars, drawVars
  <2> QED BY <1>2, <2>1 DEF DrawInv, DrawingShape, DrawingPlace, DrawnSoFar, Graphics
<1> QED BY <1>2, <1>3, ControlKeepsDrawing, ReturnKeepsDrawing, DrawingKeeps DEF MNext

-----------------------------------------------------------------------------
(* motherboard.go:107-127, apple2e_crtc.go:621-758: however the tick of    *)
(* the CPU, which sets switches, and that of the CRTC, which draws,        *)
(* interleave, a frame of a cycle without a write is the frame of a mode.  *)
THEOREM FramesAreWhole == MSpec => []WholeFrame
<1>1. LockInv /\ DrawInv => WholeFrame
  BY DEF DrawInv, DrawingPlace, DrawnSoFar, WholeFrame
<1> QED BY <1>1, MachineStarts, MachineKeeps, PTL DEF MSpec

-----------------------------------------------------------------------------
(* The last n elements of a sequence. *)
LEMMA LatestOf ==
  ASSUME NEW S, NEW s \in Seq(S), NEW n \in Nat, n > 0
  PROVE  /\ Latest(s, n) \in Seq(S)
         /\ Len(Latest(s, n)) = (IF Len(s) > n THEN n ELSE Len(s))
         /\ \A i \in 1 .. Len(Latest(s, n)) :
              Latest(s, n)[i] = s[IF Len(s) > n THEN (Len(s) - n) + i ELSE i]
<1> DEFINE m == IF Len(s) > n THEN Len(s) - n + 1 ELSE 1
           l == Len(s)
<1>1. l \in Nat /\ m \in Int /\ m >= 1 /\ l \in Int
  OBVIOUS
<1>2. \A i \in m .. l : s[i] \in S
  BY <1>1
<1>3. Latest(s, n) = SubSeq(s, m, l)
  BY DEF Latest
<1> HIDE DEF m, l
<1>4. /\ SubSeq(s, m, l) \in Seq(S)
      /\ Len(SubSeq(s, m, l)) = IF m <= l THEN l - m + 1 ELSE 0
      /\ \A i \in 1 .. l - m + 1 : SubSeq(s, m, l)[i] = s[m + i - 1]
  BY <1>1, <1>2, SubSeqProperties
<1>5. Len(Latest(s, n)) = (IF l > n THEN n ELSE l)
  <2>1. Len(Latest(s, n)) = IF m <= l THEN (l - m) + 1 ELSE 0
    BY <1>3, <1>4
  <2>2. CASE l > n
    <3>1. m = (l - n) + 1
      BY <2>2 DEF m, l
    <3> QED BY <1>1, <2>1, <2>2, <3>1
  <2>3. CASE ~(l > n)
    <3>1. m = 1
      BY <2>3 DEF m, l
    <3> QED BY <1>1, <2>1, <2>3, <3>1
  <2> QED BY <2>2, <2>3
<1>6. ASSUME NEW i \in 1 .. Len(Latest(s, n))
      PROVE  Latest(s, n)[i] = s[IF l > n THEN (l - n) + i ELSE i]
  <2>1. i \in 1 .. l - m + 1 /\ m + i - 1 = IF l > n THEN (l - n) + i ELSE i
    BY <1>1, <1>5 DEF m, l
  <2> QED BY <1>3, <1>4, <2>1
<1> QED BY <1>3, <1>4, <1>5, <1>6 DEF l

(* The last of the last are the last. *)
LEMMA LatestTwice ==
  ASSUME NEW S, NEW s \in Seq(S), NEW a \in Nat, NEW b \in Nat, a > 0, b > 0
  PROVE  Latest(Latest(s, a), b) = Latest(s, IF b < a THEN b ELSE a)
<1> DEFINE c == IF b < a THEN b ELSE a
           t == Latest(s, a)
           u == Latest(t, b)
           v == Latest(s, c)
           l == Len(s)
<1>1. c \in Nat /\ c > 0 /\ l \in Nat
  OBVIOUS
<1>2. /\ t \in Seq(S) /\ Len(t) = (IF l > a THEN a ELSE l)
      /\ \A i \in 1 .. Len(t) : t[i] = s[IF l > a THEN (l - a) + i ELSE i]
  BY LatestOf
<1> HIDE DEF t
<1>3. /\ u \in Seq(S) /\ Len(u) = (IF Len(t) > b THEN b ELSE Len(t))
      /\ \A i \in 1 .. Len(u) : u[i] = t[IF Len(t) > b THEN (Len(t) - b) + i ELSE i]
  BY <1>2, LatestOf
<1> HIDE DEF c
<1>4. /\ v \in Seq(S) /\ Len(v) = (IF l > c THEN c ELSE l)
      /\ \A i \in 1 .. Len(v) : v[i] = s[IF l > c THEN (l - c) + i ELSE i]
  BY <1>1, LatestOf
<1> HIDE DEF u, v, l
<1>5. Len(u) = Len(v)
  BY <1>1, <1>2, <1>3, <1>4 DEF c
<1>6. ASSUME NEW i \in 1 .. Len(u) PROVE u[i] = v[i]
  <2> DEFINE j == IF Len(t) > b THEN (Len(t) - b) + i ELSE i
             k == IF l > a THEN (l - a) + j ELSE j
  <2>1. j \in 1 .. Len(t) /\ k = IF l > c THEN (l - c) + i ELSE i
    <3>1. \A p, q, w, z \in Nat :
            /\ p > 0 /\ q > 0
            /\ z \in 1 .. (IF (IF w > p THEN p ELSE w) > q THEN q ELSE (IF w > p THEN p ELSE w))
            => LET f == IF w > p THEN p ELSE w
                   g == IF f > q THEN (f - q) + z ELSE z
                   h == IF q < p THEN q ELSE p
               IN  /\ g \in 1 .. f
                   /\ (IF w > p THEN (w - p) + g ELSE g) = IF w > h THEN (w - h) + z ELSE z
      OBVIOUS
    <3>2. i \in Nat
      BY <1>3
    <3>3. i \in 1 .. (IF (IF l > a THEN a ELSE l) > b THEN b ELSE (IF l > a THEN a ELSE l))
      BY <1>2, <1>3
    <3> QED BY <1>1, <1>2, <3>1, <3>2, <3>3 DEF c
  <2>2. u[i] = t[j]
    BY <1>3
  <2> HIDE DEF j
  <2>3. t[j] = s[k]
    BY <1>2, <2>1
  <2> HIDE DEF k
  <2>4. v[i] = s[k]
    BY <1>4, <1>5, <2>1
  <2> QED BY <2>2, <2>3, <2>4
<1>7. u = v
  BY <1>3, <1>4, <1>5, <1>6, SeqEqual
<1> QED BY <1>7 DEF u, v, t, c

(* What has been dropped is not missed when a line is appended. *)
LEMMA LatestAppended ==
  ASSUME NEW S, NEW s \in Seq(S), NEW e \in S, NEW a \in Nat, a > 0
  PROVE  Latest(Append(Latest(s, a), e), a) = Latest(Append(s, e), a)
<1> DEFINE t == Latest(s, a)
           u == Append(t, e)
           v == Append(s, e)
           x == Latest(u, a)
           y == Latest(v, a)
           l == Len(s)
<1>1. l \in Nat
  OBVIOUS
<1>2. /\ t \in Seq(S) /\ Len(t) = (IF l > a THEN a ELSE l)
      /\ \A i \in 1 .. Len(t) : t[i] = s[IF l > a THEN (l - a) + i ELSE i]
  BY LatestOf
<1>3. /\ v \in Seq(S) /\ Len(v) = l + 1 /\ v[l + 1] = e
      /\ \A i \in 1 .. l : v[i] = s[i]
  BY AppendProperties
<1> HIDE DEF t, l, v
<1>4. /\ u \in Seq(S) /\ Len(u) = Len(t) + 1 /\ u[Len(t) + 1] = e
      /\ \A i \in 1 .. Len(t) : u[i] = t[i]
  BY <1>2, AppendProperties
<1> HIDE DEF u
<1>5. /\ x \in Seq(S) /\ Len(x) = (IF Len(u) > a THEN a ELSE Len(u))
      /\ \A i \in 1 .. Len(x) : x[i] = u[IF Len(u) > a THEN (Len(u) - a) + i ELSE i]
  BY <1>4, LatestOf
<1>6. /\ y \in Seq(S) /\ Len(y) = (IF Len(v) > a THEN a ELSE Len(v))
      /\ \A i \in 1 .. Len(y) : y[i] = v[IF Len(v) > a THEN (Len(v) - a) + i ELSE i]
  BY <1>3, LatestOf
<1> HIDE DEF x, y
<1>7. Len(x) = Len(y)
  BY <1>1, <1>2, <1>3, <1>4, <1>5, <1>6
<1>8. ASSUME NEW i \in 1 .. Len(x) PROVE x[i] = y[i]
  <2> DEFINE j == IF Len(u) > a THEN (Len(u) - a) + i ELSE i
             k == IF Len(v) > a THEN (Len(v) - a) + i ELSE i
  <2>1. /\ j \in 1 .. Len(u) /\ k \in 1 .. Len(v)
        /\ j = Len(t) + 1 <=> k = l + 1
        /\ j <= Len(t) => k = IF l > a THEN (l - a) + j ELSE j
    BY <1>1, <1>2, <1>3, <1>4, <1>5
  <2>2. x[i] = u[j] /\ y[i] = v[k]
    BY <1>5, <1>6, <1>7
  <2> HIDE DEF j, k
  <2>3. CASE j = Len(t) + 1
    BY <1>3, <1>4, <2>1, <2>2, <2>3
  <2>4. CASE j \in 1 .. Len(t)
    <3>1. u[j] = t[j] /\ t[j] = s[k]
      BY <1>2, <1>4, <2>1, <2>4
    <3>2. k \in 1 .. l
      BY <1>1, <1>2, <1>3, <2>1, <2>4
    <3> QED BY <1>3, <2>2, <3>1, <3>2
  <2> QED BY <1>2, <1>4, <1>1, <2>1, <2>3, <2>4
<1>9. x = y
  BY <1>5, <1>6, <1>7, <1>8, SeqEqual
<1> QED BY <1>9 DEF x, y, u, v, t

(* Between two writes no line is under way. *)
OverlayIs(lines, cycles, registers) ==
  overlay = [lines |-> lines, partial |-> <<>>, cycle |-> cycles, registers |-> registers]

(* A line with its end: the fold over the fragments appends one line. *)
LEMMA LineWritten ==
  ASSUME NEW l, NEW c, NEW r, OverlayIs(l, c, r), NEW n \in Nat, WriteLine(n)
  PROVE  overlay' = [lines |-> Latest(Append(l, <<n>>), MaxLines), partial |-> <<>>,
                     cycle |-> c, registers |-> r]
<1> DEFINE x == <<n>>
           fragments == <<x, <<>>>>
           all == <<overlay.partial \o Head(fragments)>> \o Tail(fragments)
           last == Len(all)
           Is(f) == f = [k \in 0 .. last - 1 |->
                          IF k = 0 THEN overlay.lines ELSE AppendLine(f[k - 1], all[k])]
           g == [k \in 0 .. 1 |->
                  IF k = 0 THEN overlay.lines ELSE AppendLine(overlay.lines, x)]
           after == CHOOSE f : Is(f)
<1>1. overlay' = [overlay EXCEPT !.lines = after[last - 1], !.partial = all[last]]
  BY DEF WriteLine, Write
<1>2. last = 2 /\ all[1] = x /\ all[2] = <<>>
  <2>1. x \in Seq(Nat) /\ <<>> \in Seq(Nat)
    OBVIOUS
  <2>2. overlay.partial \o x = x
    BY <2>1, ConcatEmptySeq DEF OverlayIs
  <2> HIDE DEF x
  <2>3. Head(fragments) = x /\ Tail(fragments) = << <<>> >>
    OBVIOUS
  <2>4. all = <<x>> \o << <<>> >>
    BY <2>2, <2>3
  <2>5. <<x>> \in Seq(Seq(Nat)) /\ << <<>> >> \in Seq(Seq(Nat))
    BY <2>1
  <2>6. Len(<<x>>) = 1 /\ Len(<< <<>> >>) = 1 /\ <<x>>[1] = x /\ << <<>> >>[1] = <<>>
    OBVIOUS
  <2> HIDE DEF all
  <2>7. /\ Len(all) = 1 + 1
        /\ \A i \in 1 .. 1 + 1 : all[i] = IF i <= 1 THEN <<x>>[i] ELSE << <<>> >>[i - 1]
    BY <2>4, <2>5, <2>6, ConcatProperties
  <2>8. all[1] = <<x>>[1] /\ all[2] = << <<>> >>[1]
    BY <2>7
  <2> QED BY <2>6, <2>7, <2>8
<1> HIDE DEF all, last, x
<1>3. last - 1 = 1
  BY <1>2
<1>4. Is(g)
  <2>1. ASSUME NEW k \in 0 .. 1
        PROVE  g[k] = IF k = 0 THEN overlay.lines ELSE AppendLine(g[k - 1], all[k])
    <3>1. CASE k = 0
      BY <3>1
    <3>2. CASE k = 1
      <4>1. k - 1 = 0 /\ all[k] = x /\ g[k - 1] = overlay.lines
        BY <3>2, <1>2
      <4> QED BY <3>2, <4>1
    <3> QED BY <3>1, <3>2
  <2>2. g = [k \in 0 .. 1 |-> IF k = 0 THEN overlay.lines ELSE AppendLine(g[k - 1], all[k])]
    BY <2>1
  <2> QED BY <1>3, <2>2
<1> HIDE DEF Is
<1>5. Is(after)
  BY <1>4
<1>6. after[0] = overlay.lines /\ after[1] = AppendLine(after[0], all[1])
  <2> HIDE DEF after
  <2>1. after = [k \in 0 .. 1 |->
                  IF k = 0 THEN overlay.lines ELSE AppendLine(after[k - 1], all[k])]
    BY <1>5, <1>3 DEF Is
  <2> QED BY <2>1
<1>7. x # <<>>
  BY DEF x
<1>8. after[last - 1] = Latest(Append(overlay.lines, x), MaxLines)
  BY <1>2, <1>3, <1>6, <1>7 DEF AppendLine
<1> HIDE DEF after
<1>9. overlay' = [overlay EXCEPT !.lines = Latest(Append(l, x), MaxLines), !.partial = <<>>]
  <2>1. overlay.lines = l
    BY DEF OverlayIs
  <2> QED BY <1>1, <1>2, <1>8, <2>1
<1> DEFINE names == {"lines", "partial", "cycle", "registers"}
           k == Latest(Append(l, x), MaxLines)
<1> HIDE DEF k
<1>10. overlay' = [overlay EXCEPT !.lines = k, !.partial = <<>>]
  BY <1>9 DEF k
<1>11. DOMAIN overlay = names /\ overlay.cycle = c /\ overlay.registers = r
  BY DEF OverlayIs
<1>12. /\ overlay'.lines = k /\ overlay'.partial = <<>> /\ overlay'.cycle = c
       /\ overlay'.registers = r /\ overlay' = [f \in names |-> overlay'[f]]
  BY <1>10, <1>11
<1>13. overlay' = [lines |-> k, partial |-> <<>>, cycle |-> c, registers |-> r]
  BY <1>12
<1> QED BY <1>13 DEF k, x

(* The lines of a Step are lines, and no lines stay none. *)
LEMMA LinesTyped ==
  ASSUME script \in Seq(Seq(Nat)), traced \in Nat
  PROVE  /\ WithHeader \in Seq(Seq(Nat)) /\ WithLine \in Seq(Seq(Nat))
         /\ \A n \in Nat : <<n>> \in Seq(Nat)
<1>1. \A n \in Nat : <<n>> \in Seq(Nat)
  OBVIOUS
<1>2. <<0>> \in Seq(Nat) /\ <<traced + 1>> \in Seq(Nat)
  BY <1>1
<1>3. WithHeader \in Seq(Seq(Nat))
  BY <1>2, AppendProperties DEF WithHeader
<1>4. WithLine \in Seq(Seq(Nat))
  BY <1>2, <1>3, AppendProperties DEF WithLine
<1> QED BY <1>1, <1>3, <1>4

LEMMA NoLines ==
  ASSUME NEW n \in Nat, n > 0
  PROVE  Latest(<<>>, n) = <<>>
<1>1. <<>> \in Seq(Nat) /\ Len(<<>>) = 0
  OBVIOUS
<1>2. Latest(<<>>, n) \in Seq(Nat) /\ Len(Latest(<<>>, n)) = 0
  <2>1. \A s \in Seq(Nat) : /\ Latest(s, n) \in Seq(Nat)
                            /\ Len(s) = 0 => Len(Latest(s, n)) = 0
    BY LatestOf
  <2> QED BY <1>1, <2>1
<1> QED BY <1>2

(* Appending a line to an overlay that keeps the last ones of a trace. *)
LEMMA LineAppended ==
  ASSUME NEW lines \in Seq(Seq(Nat)), NEW c, NEW r, OverlayIs(Latest(lines, MaxLines), c, r),
         NEW n \in Nat, WriteLine(n)
  PROVE  /\ overlay' = [lines |-> Latest(Append(lines, <<n>>), MaxLines), partial |-> <<>>,
                        cycle |-> c, registers |-> r]
         /\ overlay'.cycle = c
<1>1. MaxLines \in Nat /\ MaxLines > 0 /\ <<n>> \in Seq(Nat)
  BY LinesAssumption
<1> HIDE DEF Latest
<1>2. overlay' = [lines |-> Latest(Append(Latest(lines, MaxLines), <<n>>), MaxLines),
                  partial |-> <<>>, cycle |-> c, registers |-> r]
  BY LineWritten
<1>3. Latest(Append(Latest(lines, MaxLines), <<n>>), MaxLines)
        = Latest(Append(lines, <<n>>), MaxLines)
  BY <1>1, LatestAppended
<1>4. overlay' = [lines |-> Latest(Append(lines, <<n>>), MaxLines), partial |-> <<>>,
                  cycle |-> c, registers |-> r]
  BY <1>2, <1>3
<1> QED BY <1>4

-----------------------------------------------------------------------------
(* What the CPU has written: in this Step the header it needs, and the line. *)
LinesOut ==
  CASE tracing = 3 -> WithLine [] tracing = 2 -> WithHeader [] OTHER -> script

(* The trace as far as it is written: of the instruction of this Step the  *)
(* parts up to "tracing", whose tick is still under way.                   *)
WrittenInv ==
  /\ traced \in Nat /\ tracing \in 0 .. 3 /\ headerOut \in BOOLEAN /\ headed \in BOOLEAN
  /\ script \in Seq(Seq(Nat))
  /\ OverlayIs(Latest(LinesOut, MaxLines), overlay.cycle,
               IF tracing > 0 THEN traced + 1 ELSE traced)
  /\ tracing < 2 => headerOut = headed
  /\ tracing >= 2 => headerOut
  /\ tracing > 0 => call = "step"
  /\ tracing \in {1, 2} => ticking[processor] = "called"

(* What Present has read before the status: the line of this Step is in it *)
(* only if the trace is complete, and then its registers are set too.      *)
TextRead ==
  \/ present.text \in {Shown(script), Shown(WithHeader)}
  \/ present.text = Shown(WithLine) /\ tracing = 3

(* Present runs in the tick of the CRTC, with its frame done. *)
PresentInv ==
  /\ present = [step |-> present.step, text |-> present.text, cycle |-> present.cycle,
                registers |-> present.registers]
  /\ present.step \in {"idle", "called", "text", "status"}
  /\ present.step # "idle" =>
       drawing.pass = "done" /\ ticking[crtc] = "called" /\ overlay.cycle = drawing.cycle
  /\ present.step = "text" => TextRead
  /\ TraceOfOneMoment

LEMMA TraceKeepsWritten ==
  ASSUME LockInv, WrittenInv, Trace
  PROVE  /\ WrittenInv' /\ UNCHANGED <<mvars, traced, present, script, headed>>
         /\ overlay'.cycle = overlay.cycle /\ tracing # 3
<1>1. /\ ticking[processor] = "called" /\ tracing < 3 /\ tracing' = tracing + 1
      /\ WritePart(Parts[tracing + 1])
      /\ UNCHANGED <<mvars, traced, present, script, headed>>
  BY DEF Trace, Parts, history
<1>2. UNCHANGED <<call, ticking>>
  BY <1>1 DEF mvars, hvars, vars
<1>3. call = "step"
  BY <1>1, DrawingAssumption DEF LockInv
<1>4. /\ traced \in Nat /\ headerOut \in BOOLEAN /\ headed \in BOOLEAN /\ tracing \in {0, 1, 2}
      /\ script \in Seq(Seq(Nat)) /\ overlay.partial = <<>>
  BY <1>1 DEF WrittenInv, OverlayIs
<1>5. CASE tracing = 0
  <2>1. overlay' = [overlay EXCEPT !.registers = traced + 1] /\ headerOut' = headerOut
    BY <1>1, <1>5 DEF WritePart, Parts, SetCPUState
  <2>2. LinesOut' = script /\ LinesOut = script
    BY <1>1, <1>5 DEF LinesOut
  <2>3. /\ overlay'.cycle = overlay.cycle
        /\ OverlayIs(Latest(script, MaxLines), overlay.cycle, traced + 1)'
    <3> HIDE DEF Latest
    <3>1. overlay = [lines |-> Latest(script, MaxLines), partial |-> <<>>,
                     cycle |-> overlay.cycle, registers |-> traced]
      BY <1>5, <2>2 DEF WrittenInv, OverlayIs
    <3>2. overlay' = [lines |-> Latest(script, MaxLines), partial |-> <<>>,
                      cycle |-> overlay.cycle, registers |-> traced + 1]
      BY <2>1, <3>1
    <3>3. overlay'.cycle = overlay.cycle
      BY <3>2
    <3> QED BY <1>1, <3>2, <3>3 DEF OverlayIs
  <2> QED BY <1>1, <1>2, <1>3, <1>4, <1>5, <2>1, <2>2, <2>3 DEF WrittenInv
<1>6. CASE tracing = 1
  <2>1. /\ IF headerOut THEN UNCHANGED overlay ELSE WriteLine(0)
        /\ headerOut' = TRUE
    BY <1>1, <1>6 DEF WritePart, Parts
  <2>2. LinesOut' = WithHeader /\ LinesOut = script /\ WithHeader' = WithHeader
    BY <1>1, <1>6 DEF LinesOut, WithHeader
  <2>3. headerOut = headed /\ OverlayIs(Latest(script, MaxLines), overlay.cycle, traced + 1)
    BY <1>6, <2>2 DEF WrittenInv
  <2>4. OverlayIs(Latest(WithHeader, MaxLines), overlay.cycle, traced + 1)'
        /\ overlay'.cycle = overlay.cycle
    <3>1. CASE headerOut
      <4>1. WithHeader = script /\ overlay' = overlay
        BY <2>1, <2>3, <3>1 DEF WithHeader
      <4> QED BY <1>1, <2>2, <2>3, <4>1 DEF OverlayIs
    <3>2. CASE ~headerOut
      <4>1. WithHeader = Append(script, <<0>>) /\ WriteLine(0)
        BY <2>1, <2>3, <3>2 DEF WithHeader
      <4>2. /\ overlay' = [lines |-> Latest(WithHeader, MaxLines), partial |-> <<>>,
                           cycle |-> overlay.cycle, registers |-> traced + 1]
            /\ overlay'.cycle = overlay.cycle
        BY <1>4, <2>3, <4>1, LineAppended
      <4> QED BY <1>1, <2>2, <4>2 DEF OverlayIs
    <3> QED BY <3>1, <3>2
  <2> QED BY <1>1, <1>2, <1>3, <1>4, <1>6, <2>1, <2>2, <2>4 DEF WrittenInv
<1>7. CASE tracing = 2
  <2>1. WriteLine(traced + 1) /\ headerOut' = headerOut /\ headerOut
    BY <1>1, <1>7 DEF WritePart, Parts, WrittenInv
  <2>2. /\ LinesOut' = WithLine /\ LinesOut = WithHeader /\ WithLine' = WithLine
        /\ traced + 1 \in Nat
    BY <1>1, <1>4, <1>7 DEF LinesOut, WithLine, WithHeader
  <2>3. OverlayIs(Latest(WithHeader, MaxLines), overlay.cycle, traced + 1)
    BY <1>7, <2>2 DEF WrittenInv
  <2>4. /\ overlay' = [lines |-> Latest(WithLine, MaxLines), partial |-> <<>>,
                       cycle |-> overlay.cycle, registers |-> traced + 1]
        /\ overlay'.cycle = overlay.cycle
    <3>1. WithHeader \in Seq(Seq(Nat))
      BY <1>4, LinesTyped
    <3> QED BY <2>1, <2>2, <2>3, <3>1, LineAppended DEF WithLine
  <2>5. OverlayIs(Latest(WithLine, MaxLines), overlay.cycle, traced + 1)'
    BY <1>1, <2>2, <2>4 DEF OverlayIs
  <2> QED BY <1>1, <1>2, <1>3, <1>4, <1>7, <2>1, <2>2, <2>4, <2>5 DEF WrittenInv
<1> QED BY <1>1, <1>4, <1>5, <1>6, <1>7

(* What is shown are the last lines, as many as overlay and view keep. *)
LEMMA ShownText == WrittenInv => Text = Shown(LinesOut)
<1> SUFFICES ASSUME WrittenInv PROVE Text = Shown(LinesOut)
  OBVIOUS
<1>1. MaxLines \in Nat /\ MaxLines > 0 /\ Visible \in Nat /\ Visible > 0
  BY LinesAssumption
<1>2. LinesOut \in Seq(Seq(Nat))
  BY LinesTyped DEF WrittenInv, LinesOut
<1>3. UnderWay = <<>> /\ overlay.lines = Latest(LinesOut, MaxLines)
  BY DEF UnderWay, WrittenInv, OverlayIs
<1> DEFINE lines == Latest(LinesOut, MaxLines)
<1> HIDE DEF LinesOut
<1>4. lines \in Seq(Seq(Nat))
  BY <1>1, <1>2, LatestOf
<1> HIDE DEF lines
<1>5. lines \o <<>> = lines
  BY <1>4, ConcatEmptySeq
<1>6. Text = Latest(lines, Visible)
  BY <1>3, <1>5 DEF Text, lines
<1> HIDE DEF Latest
<1>7. Latest(lines, Visible) = Latest(LinesOut, IF Visible < MaxLines THEN Visible ELSE MaxLines)
  BY <1>1, <1>2, LatestTwice DEF lines
<1> QED BY <1>6, <1>7 DEF Shown

LEMMA PresentingKeeps ==
  ASSUME LockInv, DrawInv, WrittenInv, PresentInv, Presenting
  PROVE  /\ WrittenInv' /\ PresentInv' /\ UNCHANGED mvars
<1>1. UNCHANGED <<mvars, headerOut, traced, tracing, script, headed>>
  BY DEF Presenting, CallPresent, ReadText, ReadStatus, history
<1>2. /\ UNCHANGED <<call, ticking, drawing, cycle>>
      /\ LinesOut' = LinesOut /\ WithHeader' = WithHeader /\ WithLine' = WithLine
  BY <1>1 DEF mvars, hvars, vars, drawVars, LinesOut, WithHeader, WithLine
<1>3. \/ overlay' = overlay
      \/ overlay' = [overlay EXCEPT !.cycle = cycle]
  BY DEF Presenting, CallPresent, ReadText, ReadStatus, SetClock
<1>4. WrittenInv'
  <2>1. \A l, r : OverlayIs(l, overlay.cycle, r) => OverlayIs(l, overlay.cycle, r)'
    BY <1>3 DEF OverlayIs
  <2> QED BY <1>1, <1>2, <2>1 DEF WrittenInv
<1>5. CASE CallPresent
  <2>1. /\ drawing.pass = "done" /\ present.step = "idle"
        /\ overlay' = [overlay EXCEPT !.cycle = cycle]
        /\ present' = [present EXCEPT !.step = "called"]
    BY <1>5 DEF CallPresent, SetClock
  <2>2. overlay'.cycle = cycle
    <3>1. DOMAIN overlay = {"lines", "partial", "cycle", "registers"}
      BY DEF WrittenInv, OverlayIs
    <3> QED BY <2>1, <3>1
  <2>3. ticking[crtc] = "called" /\ drawing.cycle = cycle
    BY <2>1 DEF DrawInv, DrawingPlace
  <2>4. present' = [step |-> "called", text |-> present.text, cycle |-> present.cycle,
                    registers |-> present.registers]
    BY <2>1 DEF PresentInv
  <2> QED BY <1>1, <1>2, <1>4, <2>1, <2>2, <2>3, <2>4 DEF PresentInv, TraceOfOneMoment
<1>6. CASE ReadText
  <2>1. /\ present.step = "called" /\ present' = [present EXCEPT !.step = "text", !.text = Text]
        /\ overlay' = overlay
    BY <1>6 DEF ReadText
  <2>2. present' = [step |-> "text", text |-> Text, cycle |-> present.cycle,
                    registers |-> present.registers]
    <3> HIDE DEF Text
    <3> QED BY <2>1 DEF PresentInv
  <2>3. TextRead'
    <3>1. present'.text = Text /\ Text = Shown(LinesOut)
      BY <2>2, ShownText
    <3> HIDE DEF Text, Shown
    <3>2. \/ present'.text \in {Shown(script), Shown(WithHeader)}
          \/ present'.text = Shown(WithLine) /\ tracing = 3
      BY <3>1 DEF LinesOut
    <3>3. \/ present'.text \in {Shown(script'), Shown(WithHeader')}
          \/ present'.text = Shown(WithLine') /\ tracing' = 3
      BY <1>1, <1>2, <3>2
    <3> QED BY <3>3 DEF TextRead, Shown
  <2> QED BY <1>1, <1>2, <1>4, <2>1, <2>2, <2>3 DEF PresentInv, TraceOfOneMoment
<1>7. CASE ReadStatus
  <2>1. /\ present.step = "text" /\ overlay' = overlay
        /\ present' = [present EXCEPT !.step = "status", !.cycle = overlay.cycle,
                                      !.registers = overlay.registers]
    BY <1>7 DEF ReadStatus, Status
  <2>2. present' = [step |-> "status", text |-> present.text, cycle |-> overlay.cycle,
                    registers |-> overlay.registers]
    BY <2>1 DEF PresentInv
  <2>3. overlay.cycle = drawing.cycle /\ TextRead
    BY <2>1 DEF PresentInv
  <2>4. traced \in Nat /\ overlay.registers = IF tracing > 0 THEN traced + 1 ELSE traced
    BY DEF WrittenInv, OverlayIs
  <2>5. PICK n \in {traced, traced + 1} :
          /\ present.text \in (IF n = traced THEN {Shown(script), Shown(WithHeader)}
                                            ELSE {Shown(WithLine)})
          /\ n = traced + 1 => tracing = 3
    <3> HIDE DEF Shown, WithHeader, WithLine
    <3>1. CASE present.text \in {Shown(script), Shown(WithHeader)}
      <4>1. traced # traced + 1
        BY <2>4
      <4> QED BY <3>1, <4>1
    <3>2. CASE present.text = Shown(WithLine) /\ tracing = 3
      <4>1. traced # traced + 1
        BY <2>4
      <4> QED BY <3>2, <4>1
    <3> QED BY <2>3, <3>1, <3>2 DEF TextRead
  <2>6. overlay.registers \in {n, n + 1} /\ overlay.registers <= traced + 1
    BY <2>4, <2>5
  <2>7. TraceOfOneMoment'
    <3> HIDE DEF Shown, WithHeader, WithLine
    <3>1. /\ n \in {traced', traced' + 1}
          /\ present'.text \in (IF n = traced' THEN {Shown(script'), Shown(WithHeader')}
                                              ELSE {Shown(WithLine')})
          /\ present'.registers \in {n, n + 1} /\ present'.registers <= traced' + 1
          /\ present'.cycle = drawing'.cycle
      <4>1. present'.text = present.text /\ present'.registers = overlay.registers
            /\ present'.cycle = overlay.cycle
        BY <2>2
      <4>2. traced' = traced /\ script' = script /\ drawing' = drawing
        BY <1>1, <1>2
      <4> QED BY <1>2, <2>3, <2>5, <2>6, <4>1, <4>2
    <3> QED BY <3>1 DEF TraceOfOneMoment, Shown
  <2> QED BY <1>1, <1>2, <1>4, <2>1, <2>2, <2>7 DEF PresentInv
<1> QED BY <1>1, <1>4, <1>5, <1>6, <1>7 DEF Presenting

(* Only the join ends a Step. *)
LEMMA StepIsEnded ==
  ASSUME HControl, call = "step", call' # "step"
  PROVE  EndStep
<1>1. ASSUME NEW c \in Component PROVE ~HSend(c)
  BY DEF HSend, SendError
<1>2. ~HReset /\ ~HResetEnds /\ ~HClose /\ ~HCloseNext
  BY DEF HReset, ResetNext, HResetEnds, ResetFails, ResetEnds, HClose, Close, Walk, HCloseNext,
         CloseNext
<1>3. ~HOther
  BY DEF HOther, Step, Run, RunTicks, RunCancelled, Cancel, Reset, Walk, CloseEnds, BeginStep
<1> QED BY <1>1, <1>2, <1>3 DEF HControl, HEndStep

LEMMA TControlKeeps ==
  ASSUME LockInv, WrittenInv, PresentInv, TControl
  PROVE  WrittenInv' /\ PresentInv'
<1>1. Control /\ HControl /\ UNCHANGED <<overlay, present, drawing>>
  BY DEF TControl, Control, drawVars
<1>2. /\ traced \in Nat /\ tracing \in 0 .. 3 /\ headerOut \in BOOLEAN /\ headed \in BOOLEAN
      /\ script \in Seq(Seq(Nat))
  BY DEF WrittenInv
<1>3. EndStep => ~ProcessorReset
  BY DEF EndStep, ProcessorReset, HReset, ResetNext
<1>4. ASSUME EndStep, tracing > 0 PROVE WrittenInv' /\ PresentInv'
  <2>1. /\ \A c \in Component : ticking[c] = "done"
        /\ traced' = traced + 1 /\ tracing' = 0 /\ script' = WithLine
    BY <1>4 DEF TControl, EndTrace, EndStep, Joined
  <2>2. headerOut' = headerOut /\ headed' = TRUE
    BY <1>2, <1>3, <1>4 DEF TControl, EndTrace, HeaderAfter
  <2>3. present.step = "idle" /\ tracing = 3
    BY <1>2, <1>4, <2>1, DrawingAssumption DEF PresentInv, WrittenInv
  <2>4. LinesOut' = WithLine /\ LinesOut = WithLine /\ traced' \in Nat
    BY <1>2, <2>1, <2>3 DEF LinesOut
  <2>5. OverlayIs(Latest(WithLine, MaxLines), overlay.cycle, traced + 1)
    BY <2>3, <2>4 DEF WrittenInv
  <2>6. OverlayIs(Latest(LinesOut, MaxLines), overlay.cycle, traced)'
    BY <1>1, <2>1, <2>4, <2>5 DEF OverlayIs
  <2>7. script' \in Seq(Seq(Nat))
    BY <1>2, <2>1, LinesTyped
  <2>8. headerOut' = headed' /\ headerOut' \in BOOLEAN /\ headed' \in BOOLEAN
    BY <2>2, <2>3 DEF WrittenInv
  <2>9. WrittenInv'
    BY <2>1, <2>4, <2>6, <2>7, <2>8 DEF WrittenInv
  <2> QED BY <1>1, <2>3, <2>9 DEF PresentInv, TraceOfOneMoment
<1>5. ASSUME ~(EndStep /\ tracing > 0) PROVE WrittenInv' /\ PresentInv'
  <2>1. /\ UNCHANGED <<traced, tracing, script>> /\ headerOut' = HeaderAfter
        /\ headed' = (headed /\ ~ProcessorReset)
    BY <1>2, <1>5 DEF TControl, EndTrace
  <2>2. ASSUME tracing > 0 PROVE call = "step" /\ call' = "step" /\ ~ProcessorReset
    <3>1. call = "step" /\ ~EndStep
      BY <1>5, <2>2 DEF WrittenInv
    <3> QED BY <1>1, <3>1, StepIsEnded DEF ProcessorReset, HReset, ResetNext
  <2>3. ASSUME call = "step", call' = "step"
        PROVE  \A c \in Component : ticking[c] = "called" => ticking'[c] = "called"
    BY <1>1, <2>3, ControlSteps
  <2>4. headerOut' \in BOOLEAN /\ headed' \in BOOLEAN
    BY <2>1 DEF HeaderAfter
  <2>5. tracing < 2 => headerOut' = headed'
    <3>1. CASE tracing < 2
      <4>1. headerOut = headed
        BY <3>1 DEF WrittenInv
      <4> QED BY <1>2, <2>1, <4>1 DEF HeaderAfter
    <3> QED BY <3>1
  <2>6. tracing >= 2 => headerOut'
    <3>1. CASE tracing >= 2
      <4>1. headerOut /\ tracing > 0
        BY <1>2, <3>1 DEF WrittenInv
      <4> QED BY <2>1, <2>2, <4>1 DEF HeaderAfter
    <3> QED BY <3>1
  <2>7. tracing > 0 => headed' = headed
    BY <1>2, <2>1, <2>2
  <2>8. LinesOut' = LinesOut
    <3>1. CASE tracing > 0
      BY <2>1, <2>7, <3>1 DEF LinesOut, WithLine, WithHeader
    <3>2. CASE ~(tracing > 0)
      <4>1. tracing # 3 /\ tracing # 2
        BY <1>2, <3>2
      <4> QED BY <2>1, <4>1 DEF LinesOut
    <3> QED BY <3>1, <3>2
  <2>9. OverlayIs(Latest(LinesOut, MaxLines), overlay.cycle,
                  IF tracing > 0 THEN traced + 1 ELSE traced)'
    BY <1>1, <2>1, <2>8 DEF WrittenInv, OverlayIs
  <2>10. WrittenInv'
    <3>1. tracing' > 0 => call' = "step"
      BY <2>1, <2>2
    <3>2. tracing' \in {1, 2} => ticking'[processor] = "called"
      <4>1. tracing \in {1, 2} => tracing > 0
        BY <1>2
      <4> QED BY <2>1, <2>2, <2>3, <4>1, DrawingAssumption DEF WrittenInv
    <3> QED BY <1>2, <2>1, <2>4, <2>5, <2>6, <2>9, <3>1, <3>2 DEF WrittenInv
  <2>11. PresentInv'
    <3>1. CASE present.step = "idle"
      BY <1>1, <3>1 DEF PresentInv, TraceOfOneMoment
    <3>2. CASE present.step # "idle"
      <4>1. ticking[crtc] = "called" /\ drawing.pass = "done" /\ call = "step"
        BY <3>2, DrawingAssumption DEF PresentInv, LockInv
      <4>2. ~EndStep /\ ~ProcessorReset
        BY <4>1, DrawingAssumption DEF EndStep, Joined, ProcessorReset, HReset, ResetNext
      <4>3. headed' = headed /\ call' = "step"
        BY <1>1, <1>2, <2>1, <4>1, <4>2, StepIsEnded
      <4>4. ticking'[crtc] = "called"
        BY <2>3, <4>1, <4>3, DrawingAssumption
      <4>5. UNCHANGED <<overlay, present, drawing, traced, tracing, script, headed>>
        BY <1>1, <2>1, <4>3
      <4> QED BY <4>1, <4>4, <4>5
              DEF PresentInv, TraceOfOneMoment, TextRead, WithLine, WithHeader
    <3> QED BY <3>1, <3>2
  <2> QED BY <2>10, <2>11
<1> QED BY <1>4, <1>5

LEMMA TDrawingKeeps ==
  ASSUME WrittenInv, PresentInv, Drawing, UNCHANGED traceVars
  PROVE  WrittenInv' /\ PresentInv'
<1>1. UNCHANGED <<overlay, headerOut, traced, tracing, present, script, headed, call, ticking>>
  BY DEF traceVars, history, Drawing, WriteSwitch, FinishSwitch, StartDrawing, Draw, hvars, vars
<1>2. drawing.pass = "done" => drawing' = drawing
  BY DEF Drawing, WriteSwitch, SetFlag, FinishSwitch, Refresh, StartDrawing, StartFrame, Draw,
         DrawStep, DrawBand, DrawTextUnder
<1>3. WrittenInv'
  BY <1>1 DEF WrittenInv, OverlayIs, LinesOut, WithLine, WithHeader
<1>4. PresentInv'
  BY <1>1, <1>2 DEF PresentInv, TraceOfOneMoment, TextRead, WithLine, WithHeader
<1> QED BY <1>3, <1>4

LEMMA TReturnKeeps ==
  ASSUME LockInv, WrittenInv, PresentInv, NEW c \in Component, TReturns(c)
  PROVE  WrittenInv' /\ PresentInv'
<1>1. /\ UNCHANGED <<overlay, headerOut, traced, tracing, script, headed, call>>
      /\ \A d \in Component : d # c => ticking'[d] = ticking[d]
      /\ c = processor => tracing \in {0, 3}
      /\ present' = IF c = crtc THEN NotCalled ELSE present
      /\ c # crtc => drawing' = drawing
  BY DEF TReturns, TickReturns, HTick, TickSucceeds, TickFails, LockInv, Parts, history
<1>2. WrittenInv'
  <2>1. tracing \in {1, 2} => ticking'[processor] = "called"
    BY <1>1, DrawingAssumption DEF WrittenInv
  <2> QED BY <1>1, <2>1 DEF WrittenInv, OverlayIs, LinesOut, WithLine, WithHeader
<1>3. CASE c = crtc
  <2>1. present' = [step |-> "idle", text |-> <<>>, cycle |-> 0, registers |-> 0]
    BY <1>1, <1>3 DEF NotCalled
  <2> QED BY <1>2, <2>1 DEF PresentInv, TraceOfOneMoment
<1>4. CASE c # crtc
  <2>1. UNCHANGED <<present, overlay, traced, tracing, script, headed, drawing>> /\ ticking'[crtc] = ticking[crtc]
    BY <1>1, <1>4, DrawingAssumption
  <2>2. PresentInv'
    BY <2>1 DEF PresentInv, TraceOfOneMoment, TextRead, WithLine, WithHeader
  <2> QED BY <1>2, <2>2
<1> QED BY <1>2, <1>3, <1>4

LEMMA TracingKeeps ==
  ASSUME LockInv, WrittenInv, PresentInv, Trace
  PROVE  WrittenInv' /\ PresentInv' /\ UNCHANGED mvars
<1>1. /\ WrittenInv' /\ UNCHANGED <<mvars, traced, present, script, headed>>
      /\ overlay'.cycle = overlay.cycle /\ tracing # 3
  BY TraceKeepsWritten
<1>2. UNCHANGED <<ticking, drawing>>
  BY <1>1 DEF mvars, hvars, vars, drawVars
<1>3. WithHeader' = WithHeader /\ WithLine' = WithLine
  BY <1>1 DEF WithHeader, WithLine
<1>4. TextRead => TextRead'
  <2>1. Shown(script)' = Shown(script) /\ Shown(WithHeader)' = Shown(WithHeader)
    BY <1>1, <1>3 DEF Shown
  <2>2. tracing # 3 /\ present' = present
    BY <1>1
  <2> HIDE DEF Shown, WithHeader, WithLine
  <2> QED BY <2>1, <2>2 DEF TextRead
<1>5. TraceOfOneMoment'
  BY <1>1, <1>2, <1>3 DEF PresentInv, TraceOfOneMoment, Shown
<1> QED BY <1>1, <1>2, <1>4, <1>5 DEF PresentInv

-----------------------------------------------------------------------------
(* cpu6502.go:484-524, apple2e_crtc.go:297-300, vulkan_placeholder.go:     *)
(* 218-221: however the parts of a trace and of Present interleave, and    *)
(* whenever the machine is reset, a frame shows the last lines without a   *)
(* gap, with a header behind each reset, and registers of the same         *)
(* instruction or of the next.                                             *)
THEOREM TraceShowsOneMoment == TSpec => []TraceOfOneMoment
<1> DEFINE Inv == LockInv /\ DrawInv /\ WrittenInv /\ PresentInv
<1>1. TInit => Inv
  <2> SUFFICES ASSUME TInit PROVE Inv
    OBVIOUS
  <2>1. LockInv /\ DrawInv
    BY MachineStarts DEF TInit
  <2>2. WrittenInv
    <3>1. /\ overlay = [lines |-> <<>>, partial |-> <<>>, cycle |-> 0, registers |-> 0]
          /\ headerOut = FALSE /\ traced = 0 /\ tracing = 0 /\ script = <<>> /\ headed = FALSE
      BY DEF TInit, Empty
    <3>2. Latest(LinesOut, MaxLines) = <<>>
      <4>1. LinesOut = <<>>
        BY <3>1 DEF LinesOut
      <4> QED BY <4>1, NoLines, LinesAssumption
    <3>3. OverlayIs(Latest(LinesOut, MaxLines), overlay.cycle,
                    IF tracing > 0 THEN traced + 1 ELSE traced)
      <4>1. ~(tracing > 0)
        BY <3>1
      <4> HIDE DEF Latest, LinesOut
      <4> QED BY <3>1, <3>2, <4>1 DEF OverlayIs
    <3>4. script \in Seq(Seq(Nat))
      BY <3>1
    <3>5. headerOut \in BOOLEAN /\ headed \in BOOLEAN /\ headerOut = headed
      BY <3>1
    <3>6. traced \in Nat /\ tracing \in 0 .. 3 /\ tracing < 2 /\ ~(tracing >= 2)
          /\ ~(tracing > 0) /\ tracing \notin {1, 2}
      BY <3>1
    <3> QED BY <3>3, <3>4, <3>5, <3>6 DEF WrittenInv
  <2>3. PresentInv
    BY DEF TInit, PresentInv, NotCalled, TraceOfOneMoment
  <2> QED BY <2>1, <2>2, <2>3
<1>2. Inv /\ [TNext]_tvars => Inv'
  <2> SUFFICES ASSUME Inv, [TNext]_tvars PROVE Inv'
    OBVIOUS
  <2>1. [MNext]_mvars
    BY TracingKeeps, PresentingKeeps DEF TNext, TControl, TReturns, MNext, tvars
  <2>2. LockInv' /\ DrawInv'
    BY <2>1, MachineKeeps
  <2>3. CASE UNCHANGED tvars
    <3>1. UNCHANGED <<overlay, headerOut, traced, tracing, present, script, headed, call, ticking,
                      drawing>>
      BY <2>3 DEF tvars, traceVars, history, mvars, hvars, vars, drawVars
    <3> QED BY <2>2, <3>1 DEF WrittenInv, OverlayIs, LinesOut, PresentInv, TextRead,
                              TraceOfOneMoment, WithLine, WithHeader
  <2> QED BY <2>2, <2>3, TControlKeeps, TDrawingKeeps, TReturnKeeps, TracingKeeps, PresentingKeeps
         DEF TNext
<1>3. Inv => TraceOfOneMoment
  BY DEF PresentInv
<1> QED BY <1>1, <1>2, <1>3, PTL DEF TSpec

(* motherboard.go:71-143: with switches set, frames drawn and traces        *)
(* written in its ticks, the machine's Steps are still those of Lockstep,  *)
(* ages and Close are as above, and the frames are whole.                  *)
THEOREM MotherboardInMachine ==
  TSpec => ImplementsLockstep /\ []AgesMatchCycle /\ CloseReachesAll /\ []WholeFrame
<1>1. TInit => MInit /\ HInit
  BY DEF TInit, MInit
<1>2. [TNext]_tvars => [MNext]_mvars
  BY DEF TNext, TControl, Trace, Presenting, CallPresent, ReadText, ReadStatus, TReturns,
         MNext, tvars
<1>3. [MNext]_mvars => [HNext]_hvars
  BY DEF MNext, Control, Drawing, WriteSwitch, FinishSwitch, StartDrawing, Draw, TickReturns,
         HNext, mvars
<1>4. TSpec => MSpec /\ HSpec
  BY <1>1, <1>2, <1>3, PTL DEF TSpec, MSpec, HSpec, TScheduling
<1> QED BY <1>4, MotherboardInLockstep, AgesCorrect, CloseIsComplete, FramesAreWhole

=============================================================================
