--------------------------- MODULE SchedulerProofs ---------------------------
(***************************************************************************)
(* The run loop and the mailboxes for any number of harts, quantum,        *)
(* deadlines and idle limit, whatever the guests and the outside world do. *)
(***************************************************************************)
EXTENDS Scheduler, WellFoundedInduction, TLAPS

\* A start that is on its way has already unparked its hart, which is what makes a
\* second hart_start for it answer ALREADY_AVAILABLE.
StartUnparks == \A h \in H : "start" \in mail[h] => ~parked[h]

\* A fence that is not yet performed is in its hart's mailbox.
FencesAreMailed == \A h \in H : stale[h] => "fence" \in mail[h]

\* The hart cannot execute, and will not be handed anything by its mailbox.
Resting(h) == mail[h] = {} /\ (parked[h] \/ (waiting[h] /\ pend[h] = {}))

\* A round in which nothing has run yet: the harts already asked are at rest, and the
\* deadlines that have passed are all pending.
RoundIsQuiet ==
  ~anyRan => /\ \A h \in H : h < turn => Resting(h)
             /\ \A h \in H : timer[h] = 0 => "stip" \in pend[h]

TurnIsRun == running => turn < N /\ anyRan

IdleIsCounted == status = "on" => idle <= IdleLimit

StallIsQuiet == status = "stalled" => turn = N /\ ~anyRan /\ Deadlines = {} /\ ~Owed

IInv ==
  /\ TypeOK /\ DeliveredBeforeRunning /\ StartUnparks /\ FencesAreMailed
  /\ TurnIsRun /\ RoundIsQuiet /\ IdleIsCounted /\ StallIsQuiet

-----------------------------------------------------------------------------
(* Time and devices. *)

\* Every non-empty set of naturals has a least element.
LEMMA LeastNat ==
  ASSUME NEW T, T \subseteq Nat, T # {}
  PROVE  \E x \in T : \A y \in T : x <= y
<1> DEFINE R == OpToRel(<, Nat)
<1>1. IsWellFoundedOn(R, Nat)
  BY NatLessThanWellFounded, Zenon
<1>2. \E x \in T : \A y \in T : ~(<<y, x>> \in R)
  <2> HIDE DEF R
  <2> QED BY <1>1, WFMin, Zenon
<1>3. ASSUME NEW x \in T, NEW y \in T, ~(<<y, x>> \in R)
      PROVE  x <= y
  BY <1>3 DEF OpToRel
<1> QED BY <1>2, <1>3, Zenon

\* The deadline idling skips to is one of the armed ones.
LEMMA NearestDeadline ==
  ASSUME Deadlines # {}
  PROVE  Min(Deadlines) \in Deadlines /\ Min(Deadlines) \in Nat
<1>1. Deadlines \subseteq Nat BY SchedulerAssumption DEF Deadlines
<1> HIDE DEF Deadlines
<1>2. \E x \in Deadlines : \A y \in Deadlines : x <= y BY <1>1, LeastNat, Zenon
<1> QED BY <1>1, <1>2, Zenon DEF Min

\* A deadline stays a deadline when time passes.
LEMMA TickedType ==
  ASSUME TypeOK, NEW n \in Nat
  PROVE  Ticked(n) \in [H -> 0 .. Never]
<1>1. ASSUME NEW h \in H PROVE Left(timer[h], n) \in 0 .. Never
  BY SchedulerAssumption DEF TypeOK, Left, Never
<1> QED BY <1>1 DEF Ticked

\* poll_devices() leaves every field in its type, and every deadline that has passed
\* pending.
LEMMA Polled ==
  ASSUME TypeOK,
         NEW l \in BOOLEAN, NEW e \in SUBSET Outside, NEW t \in [H -> 0 .. Never], NEW o \in BOOLEAN,
         poll_devices(l, e, t, o)
  PROVE  /\ line' \in BOOLEAN /\ expected' \in SUBSET Outside /\ off' \in BOOLEAN
         /\ timer' \in [H -> 0 .. Never] /\ pend' \in [H -> SUBSET {"ssip", "stip", "seip"}]
         /\ \A h \in H : timer'[h] = 0 => "stip" \in pend'[h]
<1>1. PICK came \in SUBSET e, gone \in SUBSET (e \ {"alarm"}) :
        /\ line' = (l \/ came # {})
        /\ off' \in {o} \cup (IF "key" \in came THEN {TRUE} ELSE {})
        /\ expected' = (e \ (came \ {"key"})) \ gone
        /\ timer' = t
        /\ pend' = [h \in H |-> (pend[h] \cap {"ssip"})
                                \cup (IF t[h] = 0 THEN {"stip"} ELSE {})
                                \cup (IF line' THEN {"seip"} ELSE {})]
  BY Zenon DEF poll_devices
<1>2. line' \in BOOLEAN /\ expected' \in SUBSET Outside BY <1>1
<1>3. off' \in BOOLEAN BY <1>1, Zenon
<1>4. pend' \in [H -> SUBSET {"ssip", "stip", "seip"}] BY <1>1
<1>5. \A h \in H : timer'[h] = 0 => "stip" \in pend'[h] BY <1>1
<1> QED BY <1>1, <1>2, <1>3, <1>4, <1>5

-----------------------------------------------------------------------------
(* The rounds. *)

\* The invariant holds at the start.
LEMMA InitHolds == Init => IInv
<1> SUFFICES ASSUME Init PROVE IInv OBVIOUS
<1> USE SchedulerAssumption DEF Init
<1>1. TypeOK
  <2>1. (CHOOSE a \in Entries : TRUE) \in Entries OBVIOUS
  <2>2. entry \in [H -> Entries] BY <2>1
  <2>3. expected \in SUBSET Outside OBVIOUS
  <2>4. timer \in [H -> 0 .. Never] BY DEF Never
  <2>5. turn \in 0 .. N /\ budget \in 0 .. Quantum /\ roundMax \in 0 .. Quantum /\ idle \in 0 .. IdleLimit + 1
    OBVIOUS
  <2> QED BY <2>2, <2>3, <2>4, <2>5, Zenon DEF TypeOK
<1>2. DeliveredBeforeRunning BY DEF DeliveredBeforeRunning, Running
<1>3. StartUnparks /\ FencesAreMailed BY DEF StartUnparks, FencesAreMailed
<1>4. TurnIsRun /\ IdleIsCounted /\ StallIsQuiet BY DEF TurnIsRun, IdleIsCounted, StallIsQuiet
<1>5. RoundIsQuiet BY DEF RoundIsQuiet, H, Never
<1> QED BY <1>1, <1>2, <1>3, <1>4, <1>5 DEF IInv

\* Whatever ends a round, the next one starts from a clean slate.
LEMMA RoundStep ==
  ASSUME IInv, status = "on", turn = N,
         NEW t \in [H -> 0 .. Never], NEW i \in 0 .. IdleLimit,
         poll_devices(line, expected, t, off), NextRound(i)
  PROVE  IInv'
<1>0. N \in Nat \ {0} /\ Quantum \in Nat \ {0} /\ IdleLimit \in Nat BY SchedulerAssumption
<1>1. ~running BY <1>0 DEF IInv, TurnIsRun, TypeOK
<1>2. /\ line' \in BOOLEAN /\ expected' \in SUBSET Outside /\ off' \in BOOLEAN
      /\ timer' \in [H -> 0 .. Never] /\ pend' \in [H -> SUBSET {"ssip", "stip", "seip"}]
      /\ \A h \in H : timer'[h] = 0 => "stip" \in pend'[h]
  <2>1. TypeOK /\ line \in BOOLEAN /\ expected \in SUBSET Outside /\ off \in BOOLEAN
    BY DEF IInv, TypeOK
  <2> QED BY <2>1, Polled
<1>3. /\ turn' = 0 /\ anyRan' = FALSE /\ roundMax' = 0 /\ idle' = i
      /\ status' \in {"on", "halted"}
      /\ UNCHANGED <<running, budget, parked, mail, entry, waiting, sie, halted, stale>>
  <2>1. status' = IF off' \/ (\E h \in H : halted[h]) THEN "halted" ELSE "on" BY DEF NextRound
  <2>2. status' \in {"on", "halted"} BY <2>1
  <2> QED BY <2>2 DEF NextRound, mailbox
<1>4. TypeOK'
  <2>1. turn' \in 0 .. N /\ roundMax' \in 0 .. Quantum /\ idle' \in 0 .. IdleLimit + 1 BY <1>0, <1>3
  <2>2. status' \in {"on", "halted", "stalled"} /\ anyRan' \in BOOLEAN BY <1>3, Zenon
  <2> QED BY <1>2, <1>3, <2>1, <2>2 DEF IInv, TypeOK
<1>5. DeliveredBeforeRunning' /\ TurnIsRun'
  BY <1>1, <1>3 DEF DeliveredBeforeRunning, Running, TurnIsRun
<1>6. StartUnparks' /\ FencesAreMailed' BY <1>3 DEF IInv, StartUnparks, FencesAreMailed
<1>7. RoundIsQuiet' BY <1>2, <1>3 DEF RoundIsQuiet, H
<1>8. IdleIsCounted' /\ StallIsQuiet' BY <1>0, <1>3 DEF IdleIsCounted, StallIsQuiet
<1> QED BY <1>4, <1>5, <1>6, <1>7, <1>8 DEF IInv

\* A round in which a hart ran.
LEMMA BusyRoundStep == IInv /\ BusyRound => IInv'
<1> SUFFICES ASSUME IInv, BusyRound PROVE IInv' OBVIOUS
<1>1. Ticked(roundMax) \in [H -> 0 .. Never]
  BY TickedType, SchedulerAssumption DEF IInv, TypeOK
<1>2. 0 \in 0 .. IdleLimit BY SchedulerAssumption
<1> QED BY <1>1, <1>2, RoundStep DEF BusyRound

\* A round in which none did and the machine goes on.
LEMMA IdleRoundStep == IInv /\ (AwaitOutside \/ FastForward \/ IdleAgain) => IInv'
<1> SUFFICES ASSUME IInv PROVE AwaitOutside \/ FastForward \/ IdleAgain => IInv' OBVIOUS
<1>0. IdleLimit \in Nat /\ idle \in Nat /\ OutsideTick \in Nat /\ TypeOK
  BY SchedulerAssumption DEF IInv, TypeOK
<1>1. ASSUME AwaitOutside PROVE IInv'
  <2>1. Ticked(OutsideTick) \in [H -> 0 .. Never] BY <1>0, TickedType
  <2>2. 0 \in 0 .. IdleLimit BY <1>0
  <2> QED BY <1>1, <2>1, <2>2, RoundStep DEF AwaitOutside, Idle
<1>2. ASSUME FastForward PROVE IInv'
  <2>1. Ticked(Min(Deadlines)) \in [H -> 0 .. Never]
    BY <1>0, <1>2, TickedType, NearestDeadline DEF FastForward
  <2>2. idle \in 0 .. IdleLimit BY <1>0, <1>2 DEF FastForward, Idle, IInv, IdleIsCounted
  <2> QED BY <1>2, <2>1, <2>2, RoundStep DEF FastForward, Idle
<1>3. ASSUME IdleAgain PROVE IInv'
  <2>1. timer \in [H -> 0 .. Never] BY <1>0 DEF TypeOK
  <2>2. idle + 1 \in 0 .. IdleLimit BY <1>0, <1>3 DEF IdleAgain
  <2> QED BY <1>3, <2>1, <2>2, RoundStep DEF IdleAgain, Idle
<1> QED BY <1>1, <1>2, <1>3

\* The machine gives up.
LEMMA StallStep == IInv /\ Stall => IInv'
<1> SUFFICES ASSUME IInv, Stall PROVE IInv' OBVIOUS
<1>1. /\ turn = N /\ ~anyRan /\ ~Owed /\ Deadlines = {} /\ idle = IdleLimit
      /\ status' = "stalled" /\ idle' = idle + 1
      /\ UNCHANGED <<turn, running, anyRan, roundMax, budget, parked, mail, entry, waiting, pend,
                     sie, halted, timer, stale, line, expected, off>>
  BY DEF Stall, Idle, mailbox, world
<1>2. TypeOK' BY <1>1, SchedulerAssumption DEF IInv, TypeOK
<1>3. DeliveredBeforeRunning' BY <1>1 DEF IInv, DeliveredBeforeRunning, Running
<1>4. StartUnparks' /\ FencesAreMailed' BY <1>1 DEF IInv, StartUnparks, FencesAreMailed
<1>5. TurnIsRun' /\ IdleIsCounted' BY <1>1 DEF IInv, TurnIsRun, IdleIsCounted
<1>6. RoundIsQuiet' BY <1>1 DEF IInv, RoundIsQuiet, Resting
<1>7. StallIsQuiet' BY <1>1 DEF StallIsQuiet, Deadlines, Owed
<1> QED BY <1>2, <1>3, <1>4, <1>5, <1>6, <1>7 DEF IInv

-----------------------------------------------------------------------------
(* The turns. *)

\* A hart that is asked and cannot run is at rest afterwards.
LEMMA PickStep == IInv /\ Pick => IInv'
<1> SUFFICES ASSUME IInv, Pick PROVE IInv' OBVIOUS
<1>0. /\ N \in Nat \ {0} /\ Quantum \in Nat \ {0} /\ turn \in 0 .. N /\ turn < N
      /\ status = "on" /\ ~running /\ TypeOK
  BY SchedulerAssumption DEF IInv, TypeOK, Pick
<1>1. turn \in H BY <1>0 DEF H
<1> DEFINE started == "start" \in mail[turn]
           pend1 == pend[turn] \cup (IF "ipi" \in mail[turn] THEN {"ssip"} ELSE {})
           waits == waiting[turn] /\ ~started
           ready == (started \/ ~parked[turn]) /\ (waits => pend1 # {})
<1>2. /\ mail' = [mail EXCEPT ![turn] = {}]
      /\ pend' = [pend EXCEPT ![turn] = pend1]
      /\ stale' = [stale EXCEPT ![turn] = stale[turn] /\ ~started /\ "fence" \notin mail[turn]]
      /\ parked' = [parked EXCEPT ![turn] = parked[turn] /\ ~started]
      /\ sie' = [sie EXCEPT ![turn] = sie[turn] /\ ~started]
      /\ waiting' = [waiting EXCEPT ![turn] = waits /\ ~ready]
      /\ running' = ready
      /\ turn' = IF ready THEN turn ELSE turn + 1
      /\ anyRan' = (anyRan \/ ready)
      /\ budget' = IF ready THEN Quantum ELSE budget
      /\ UNCHANGED <<roundMax, idle, status, entry, halted, timer, line, expected, off>>
  BY DEF Pick, world
<1>3. TypeOK'
  <2>1. turn' \in 0 .. N /\ budget' \in 0 .. Quantum BY <1>0, <1>2 DEF TypeOK
  <2>2. mail' \in [H -> SUBSET {"ipi", "fence", "start"}] BY <1>0, <1>2, Zenon DEF TypeOK
  <2>3. pend' \in [H -> SUBSET {"ssip", "stip", "seip"}] BY <1>0, <1>1, <1>2 DEF TypeOK
  <2>4. /\ stale' \in [H -> BOOLEAN] /\ parked' \in [H -> BOOLEAN] /\ sie' \in [H -> BOOLEAN]
        /\ waiting' \in [H -> BOOLEAN] /\ running' \in BOOLEAN /\ anyRan' \in BOOLEAN
    BY <1>0, <1>2, Zenon DEF TypeOK
  <2> QED BY <1>0, <1>2, <2>1, <2>2, <2>3, <2>4 DEF TypeOK
<1>4. DeliveredBeforeRunning'
  <2> SUFFICES ASSUME NEW h \in H, running', turn' = h PROVE mail'[h] = {} /\ ~stale'[h]
    BY DEF DeliveredBeforeRunning, Running
  <2>1. stale[turn] => "fence" \in mail[turn] BY <1>1 DEF IInv, FencesAreMailed
  <2>2. h = turn BY <1>0, <1>2, Zenon
  <2> QED BY <1>0, <1>1, <1>2, <2>1, <2>2 DEF TypeOK
<1>5. StartUnparks' /\ FencesAreMailed'
  <2>1. StartUnparks' BY <1>0, <1>1, <1>2 DEF IInv, StartUnparks, TypeOK
  <2>2. FencesAreMailed' BY <1>0, <1>1, <1>2 DEF IInv, FencesAreMailed, TypeOK
  <2> QED BY <2>1, <2>2
<1>6. TurnIsRun' /\ IdleIsCounted' /\ StallIsQuiet'
  BY <1>0, <1>2, Zenon DEF IInv, TurnIsRun, IdleIsCounted, StallIsQuiet
<1>7. RoundIsQuiet'
  <2> SUFFICES ASSUME ~anyRan'
               PROVE  /\ \A h \in H : h < turn' => Resting(h)'
                      /\ \A h \in H : timer'[h] = 0 => "stip" \in pend'[h]
    BY DEF RoundIsQuiet
  <2>1. ~anyRan /\ ~ready BY <1>2, Zenon
  <2>2. ASSUME NEW h \in H, h < turn' PROVE Resting(h)'
    <3>1. CASE h = turn
      <4>1. mail'[h] = {} /\ pend'[h] = pend1 BY <1>0, <1>1, <1>2, <3>1 DEF TypeOK
      <4>2. parked'[h] = (parked[h] /\ ~started) /\ waiting'[h] = waits
        BY <1>0, <1>1, <1>2, <2>1, <3>1 DEF TypeOK
      <4>3. (parked[h] /\ ~started) \/ (waits /\ pend1 = {}) BY <2>1, <3>1
      <4> HIDE DEF started, waits, pend1, ready
      <4> QED BY <4>1, <4>2, <4>3, Zenon DEF Resting
    <3>2. CASE h # turn
      <4>1. h < turn BY <1>0, <1>2, <2>1, <2>2, <3>2 DEF H
      <4>2. Resting(h) BY <2>1, <4>1 DEF IInv, RoundIsQuiet
      <4>3. /\ mail'[h] = mail[h] /\ pend'[h] = pend[h]
            /\ parked'[h] = parked[h] /\ waiting'[h] = waiting[h]
        BY <1>0, <1>2, <3>2 DEF TypeOK
      <4> QED BY <4>2, <4>3 DEF Resting
    <3> QED BY <3>1, <3>2
  <2>3. ASSUME NEW h \in H, timer'[h] = 0 PROVE "stip" \in pend'[h]
    <3>1. "stip" \in pend[h] BY <1>2, <2>1, <2>3 DEF IInv, RoundIsQuiet
    <3>2. pend[h] \subseteq pend'[h]
      <4> HIDE DEF ready, started, waits
      <4> QED BY <1>0, <1>1, <1>2 DEF TypeOK
    <3> QED BY <3>1, <3>2
  <2> QED BY <2>2, <2>3
<1> QED BY <1>3, <1>4, <1>5, <1>6, <1>7 DEF IInv

\* A turn ends.
LEMMA EndTurnStep == IInv /\ EndTurn => IInv'
<1> SUFFICES ASSUME IInv, EndTurn PROVE IInv' OBVIOUS
<1>0. /\ N \in Nat \ {0} /\ Quantum \in Nat \ {0} /\ turn \in 0 .. N /\ turn < N
      /\ status = "on" /\ running /\ anyRan /\ budget \in 0 .. Quantum /\ roundMax \in 0 .. Quantum
  BY SchedulerAssumption DEF IInv, TypeOK, TurnIsRun, EndTurn
<1>1. /\ ~running' /\ running' = FALSE /\ budget' = 0 /\ turn' = turn + 1
      /\ roundMax' = Max({roundMax, Quantum - budget})
      /\ UNCHANGED <<anyRan, idle, status, parked, mail, entry, waiting, pend, sie, halted,
                     timer, stale, line, expected, off>>
  BY DEF EndTurn, mailbox, world
<1>2. roundMax' \in 0 .. Quantum
  <2> DEFINE S == {roundMax, Quantum - budget}
  <2>1. \E x \in S : \A y \in S : x >= y BY <1>0
  <2>2. Max(S) \in S
    <3> HIDE DEF S
    <3> QED BY <2>1 DEF Max
  <2> QED BY <1>0, <1>1, <2>2
<1>3. TypeOK'
  <2>1. turn' \in 0 .. N /\ budget' \in 0 .. Quantum BY <1>0, <1>1
  <2> QED BY <1>1, <1>2, <2>1, Zenon DEF IInv, TypeOK
<1>4. DeliveredBeforeRunning' BY <1>1 DEF DeliveredBeforeRunning, Running
<1>5. StartUnparks' /\ FencesAreMailed' BY <1>1 DEF IInv, StartUnparks, FencesAreMailed
<1>6. TurnIsRun' /\ IdleIsCounted' /\ StallIsQuiet' /\ RoundIsQuiet'
  BY <1>0, <1>1 DEF IInv, TurnIsRun, IdleIsCounted, StallIsQuiet, RoundIsQuiet
<1> QED BY <1>2, <1>3, <1>4, <1>5, <1>6 DEF IInv

-----------------------------------------------------------------------------
(* The instructions. *)

\* Every instruction is one of the hart whose turn it is, which has no mail.
LEMMA StepFrame ==
  ASSUME IInv, NEW h \in H, NEW w \in BOOLEAN, Step(h, w)
  PROVE  /\ status = "on" /\ running /\ turn = h /\ mail[h] = {} /\ ~stale[h] /\ ~parked[h]
         /\ UNCHANGED <<turn, running, anyRan, roundMax, idle, status>>
         /\ budget' \in 0 .. Quantum /\ waiting' \in [H -> BOOLEAN]
         /\ TurnIsRun' /\ RoundIsQuiet' /\ IdleIsCounted' /\ StallIsQuiet'
<1>1. /\ status = "on" /\ running /\ turn = h /\ ~parked[h]
      /\ budget > 0 /\ budget' = budget - 1
      /\ waiting' = [waiting EXCEPT ![h] = w]
      /\ UNCHANGED <<turn, running, anyRan, roundMax, idle, status>>
  BY DEF Step, CanStep, turns
<1>2. mail[h] = {} /\ ~stale[h] BY <1>1 DEF IInv, DeliveredBeforeRunning, Running
<1>3. budget' \in 0 .. Quantum BY <1>1, SchedulerAssumption DEF IInv, TypeOK
<1>4. waiting' \in [H -> BOOLEAN] BY <1>1 DEF IInv, TypeOK
<1>5. TurnIsRun' /\ RoundIsQuiet' /\ IdleIsCounted' /\ StallIsQuiet'
  BY <1>1 DEF IInv, TurnIsRun, RoundIsQuiet, IdleIsCounted, StallIsQuiet
<1> QED BY <1>1, <1>2, <1>3, <1>4, <1>5

\* What is left to show of an instruction: it keeps the types of what it may write, sends
\* its own hart nothing that has to wait, starts no hart without unparking it and fences
\* none without telling it.
LEMMA InstrStep ==
  ASSUME IInv, NEW h \in H, NEW w \in BOOLEAN, Step(h, w),
         pend' \in [H -> SUBSET {"ssip", "stip", "seip"}], timer' \in [H -> 0 .. Never],
         sie' \in [H -> BOOLEAN], halted' \in [H -> BOOLEAN], stale' \in [H -> BOOLEAN],
         parked' \in [H -> BOOLEAN], entry' \in [H -> Entries],
         mail' \in [H -> SUBSET {"ipi", "fence", "start"}],
         line' \in BOOLEAN, expected' \in SUBSET Outside, off' \in BOOLEAN,
         mail'[h] = {}, ~stale'[h], StartUnparks', FencesAreMailed'
  PROVE  IInv'
<1>1. /\ status = "on" /\ running /\ turn = h /\ mail[h] = {} /\ ~stale[h] /\ ~parked[h]
      /\ UNCHANGED <<turn, running, anyRan, roundMax, idle, status>>
      /\ budget' \in 0 .. Quantum /\ waiting' \in [H -> BOOLEAN]
      /\ TurnIsRun' /\ RoundIsQuiet' /\ IdleIsCounted' /\ StallIsQuiet'
  BY StepFrame
<1>2. TypeOK' BY <1>1 DEF IInv, TypeOK
<1>3. DeliveredBeforeRunning' BY <1>1 DEF DeliveredBeforeRunning, Running
<1> QED BY <1>1, <1>2, <1>3 DEF IInv

\* An instruction that leaves the mailboxes and the fences alone.
LEMMA LocalStep ==
  ASSUME IInv, NEW h \in H, NEW w \in BOOLEAN, Step(h, w),
         pend' \in [H -> SUBSET {"ssip", "stip", "seip"}], timer' \in [H -> 0 .. Never],
         sie' \in [H -> BOOLEAN], halted' \in [H -> BOOLEAN],
         line' \in BOOLEAN, expected' \in SUBSET Outside, off' \in BOOLEAN,
         UNCHANGED <<mailbox, stale>>
  PROVE  IInv'
<1>1. mail[h] = {} /\ ~stale[h] BY StepFrame
<1>2. /\ UNCHANGED <<parked, mail, entry, stale>>
      /\ stale' \in [H -> BOOLEAN] /\ parked' \in [H -> BOOLEAN] /\ entry' \in [H -> Entries]
      /\ mail' \in [H -> SUBSET {"ipi", "fence", "start"}]
  BY DEF IInv, TypeOK, mailbox
<1>3. StartUnparks' /\ FencesAreMailed' BY <1>2 DEF IInv, StartUnparks, FencesAreMailed
<1> QED BY <1>1, <1>2, <1>3, InstrStep

\* The instructions that only concern the hart itself.
LEMMA OwnStep ==
  ASSUME IInv, NEW h \in H,
         \/ TakeInterrupt(h) \/ Compute(h) \/ EnableInterrupts(h) \/ ClearSsip(h) \/ Wfi(h)
         \/ (\E t \in Delays : set_timer(h, t)) \/ system_reset(h)
  PROVE  IInv'
<1>0. /\ pend \in [H -> SUBSET {"ssip", "stip", "seip"}] /\ timer \in [H -> 0 .. Never]
      /\ sie \in [H -> BOOLEAN] /\ halted \in [H -> BOOLEAN]
      /\ line \in BOOLEAN /\ expected \in SUBSET Outside /\ off \in BOOLEAN
      /\ FALSE \in BOOLEAN /\ TRUE \in BOOLEAN
  BY DEF IInv, TypeOK
<1>1. CASE TakeInterrupt(h)
  <2>1. sie' \in [H -> BOOLEAN] BY <1>0, <1>1 DEF TakeInterrupt
  <2> QED BY <1>0, <1>1, <2>1, LocalStep, Zenon DEF TakeInterrupt, world
<1>2. CASE Compute(h)
  BY <1>0, <1>2, LocalStep, Zenon DEF Compute, Instr, world
<1>3. CASE EnableInterrupts(h)
  <2>1. sie' \in [H -> BOOLEAN] BY <1>0, <1>3 DEF EnableInterrupts
  <2> QED BY <1>0, <1>3, <2>1, LocalStep, Zenon DEF EnableInterrupts, Instr, world
<1>4. CASE ClearSsip(h)
  <2>1. pend' \in [H -> SUBSET {"ssip", "stip", "seip"}] BY <1>0, <1>4 DEF ClearSsip
  <2> QED BY <1>0, <1>4, <2>1, LocalStep, Zenon DEF ClearSsip, Instr, world
<1>5. CASE Wfi(h)
  BY <1>0, <1>5, LocalStep, Zenon DEF Wfi, world
<1>6. ASSUME NEW t \in Delays, set_timer(h, t) PROVE IInv'
  <2>1. t \in 0 .. Never BY SchedulerAssumption DEF Never
  <2>2. timer' \in [H -> 0 .. Never] BY <1>0, <1>6, <2>1 DEF set_timer
  <2>3. pend' \in [H -> SUBSET {"ssip", "stip", "seip"}] BY <1>0, <1>6 DEF set_timer
  <2> QED BY <1>0, <1>6, <2>2, <2>3, LocalStep, Zenon DEF set_timer, Instr, world
<1>7. CASE system_reset(h)
  <2>1. halted' \in [H -> BOOLEAN] BY <1>0, <1>7 DEF system_reset
  <2> QED BY <1>0, <1>7, <2>1, LocalStep, Zenon DEF system_reset, Instr, world
<1> QED BY <1>1, <1>2, <1>3, <1>4, <1>5, <1>6, <1>7

\* The SBI calls that write another hart's mailbox, and hart_stop, which parks its own.
LEMMA SbiStep ==
  ASSUME IInv, NEW h \in H,
         \/ \E T \in SUBSET H \ {{}} : send_ipi(h, T) \/ remote_fence(h, T)
         \/ \E t \in H, a \in Entries : hart_start(h, t, a)
         \/ hart_stop(h)
  PROVE  IInv'
<1>0. /\ pend \in [H -> SUBSET {"ssip", "stip", "seip"}] /\ timer \in [H -> 0 .. Never]
      /\ sie \in [H -> BOOLEAN] /\ halted \in [H -> BOOLEAN] /\ stale \in [H -> BOOLEAN]
      /\ line \in BOOLEAN /\ expected \in SUBSET Outside /\ off \in BOOLEAN
      /\ parked \in [H -> BOOLEAN] /\ entry \in [H -> Entries]
      /\ mail \in [H -> SUBSET {"ipi", "fence", "start"}] /\ FALSE \in BOOLEAN
      /\ StartUnparks /\ FencesAreMailed
  BY DEF IInv, TypeOK
<1>1. ASSUME NEW T \in SUBSET H, send_ipi(h, T) PROVE IInv'
  <2>1. /\ Step(h, FALSE) /\ mail' = Post(T \ {h}, "ipi")
        /\ pend' = IF h \in T THEN [pend EXCEPT ![h] = @ \cup {"ssip"}] ELSE pend
        /\ UNCHANGED <<parked, entry, sie, halted, timer, stale, line, expected, off>>
    BY <1>1, Zenon DEF send_ipi, Instr, world
  <2>2. mail[h] = {} /\ ~stale[h] BY <1>0, <2>1, StepFrame, Zenon
  <2>3. pend' \in [H -> SUBSET {"ssip", "stip", "seip"}] BY <1>0, <2>1
  <2>4. mail' \in [H -> SUBSET {"ipi", "fence", "start"}] /\ mail'[h] = {} BY <1>0, <2>1, <2>2 DEF Post
  <2>5. StartUnparks' /\ FencesAreMailed' BY <1>0, <2>1 DEF StartUnparks, FencesAreMailed, Post
  <2> QED BY <1>0, <2>1, <2>2, <2>3, <2>4, <2>5, InstrStep, Zenon
<1>2. ASSUME NEW T \in SUBSET H, remote_fence(h, T) PROVE IInv'
  <2>1. /\ Step(h, FALSE) /\ mail' = Post(T \ {h}, "fence")
        /\ stale' = [g \in H |-> IF g = h THEN stale[h] /\ h \notin T ELSE stale[g] \/ g \in T]
        /\ UNCHANGED <<parked, entry, pend, sie, halted, timer, line, expected, off>>
    BY <1>2, Zenon DEF remote_fence, Instr, world
  <2>2. mail[h] = {} /\ ~stale[h] BY <1>0, <2>1, StepFrame, Zenon
  <2>3. stale' \in [H -> BOOLEAN] /\ ~stale'[h] BY <1>0, <2>1, <2>2, Zenon
  <2>4. mail' \in [H -> SUBSET {"ipi", "fence", "start"}] /\ mail'[h] = {} BY <1>0, <2>1, <2>2 DEF Post
  <2>5. StartUnparks' BY <1>0, <2>1 DEF StartUnparks, Post
  <2>6. FencesAreMailed' BY <1>0, <2>1, <2>2 DEF FencesAreMailed, Post
  <2> QED BY <1>0, <2>1, <2>2, <2>3, <2>4, <2>5, <2>6, InstrStep, Zenon
<1>3. ASSUME NEW t \in H, NEW a \in Entries, hart_start(h, t, a) PROVE IInv'
  <2>1. Step(h, FALSE) /\ UNCHANGED <<pend, sie, halted, timer, stale, line, expected, off>>
    BY <1>3, Zenon DEF hart_start, Instr, world
  <2>2. mail[h] = {} /\ ~stale[h] /\ ~parked[h] BY <1>0, <2>1, StepFrame, Zenon
  <2>3. CASE parked[t]
    <3>1. /\ entry' = [entry EXCEPT ![t] = a] /\ mail' = Post({t}, "start")
          /\ parked' = [parked EXCEPT ![t] = FALSE]
      BY <1>3, <2>3 DEF hart_start
    <3>2. mail' \in [H -> SUBSET {"ipi", "fence", "start"}] /\ mail'[h] = {}
      BY <1>0, <2>2, <2>3, <3>1 DEF Post
    <3>3. parked' \in [H -> BOOLEAN] /\ entry' \in [H -> Entries] BY <1>0, <3>1
    <3>4. StartUnparks' BY <1>0, <3>1 DEF StartUnparks, Post
    <3>5. FencesAreMailed' BY <1>0, <2>1, <3>1 DEF FencesAreMailed, Post
    <3> QED BY <1>0, <2>1, <2>2, <3>2, <3>3, <3>4, <3>5, InstrStep, Zenon
  <2>4. CASE ~parked[t]
    BY <1>0, <1>3, <2>1, <2>4, LocalStep, Zenon DEF hart_start
  <2> QED BY <2>3, <2>4
<1>4. CASE hart_stop(h)
  <2>1. /\ Step(h, FALSE) /\ parked' = [parked EXCEPT ![h] = TRUE]
        /\ UNCHANGED <<mail, entry, pend, sie, halted, timer, stale, line, expected, off>>
    BY <1>4, Zenon DEF hart_stop, Instr, world
  <2>2. mail[h] = {} /\ ~stale[h] BY <1>0, <2>1, StepFrame, Zenon
  <2>3. parked' \in [H -> BOOLEAN] BY <1>0, <2>1
  <2>4. StartUnparks' /\ FencesAreMailed' BY <1>0, <2>1, <2>2 DEF StartUnparks, FencesAreMailed
  <2> QED BY <1>0, <2>1, <2>2, <2>3, <2>4, InstrStep, Zenon
<1> QED BY <1>1, <1>2, <1>3, <1>4

\* A hart reaches a device.
LEMMA DeviceStep ==
  ASSUME IInv, NEW h \in H, DeviceAccess(h)
  PROVE  IInv'
<1>0. /\ timer \in [H -> 0 .. Never] /\ sie \in [H -> BOOLEAN] /\ halted \in [H -> BOOLEAN]
      /\ line \in BOOLEAN /\ expected \in SUBSET Outside /\ off \in BOOLEAN
      /\ FALSE \in BOOLEAN /\ TRUE \in BOOLEAN /\ TypeOK
  BY DEF IInv, TypeOK
<1> DEFINE Typed == /\ line' \in BOOLEAN /\ expected' \in SUBSET Outside /\ off' \in BOOLEAN
                    /\ timer' \in [H -> 0 .. Never] /\ pend' \in [H -> SUBSET {"ssip", "stip", "seip"}]
<1>1. Typed
  <2>1. ASSUME NEW x \in Outside \ {"key"}, poll_devices(line, expected \cup {x}, timer, off) PROVE Typed
    <3>1. expected \cup {x} \in SUBSET Outside BY <1>0
    <3>2. PICK e \in SUBSET Outside : e = expected \cup {x} BY <3>1, Zenon
    <3>3. poll_devices(line, e, timer, off) BY <2>1, <3>2, Zenon
    <3> HIDE DEF Typed
    <3>4. /\ line' \in BOOLEAN /\ expected' \in SUBSET Outside /\ off' \in BOOLEAN
          /\ timer' \in [H -> 0 .. Never] /\ pend' \in [H -> SUBSET {"ssip", "stip", "seip"}]
      BY <1>0, <3>3, Polled
    <3> QED BY <3>4, Zenon DEF Typed
  <2>2. CASE line /\ poll_devices(FALSE, expected, timer, off) BY <1>0, <2>2, Polled, ZenonT(60)
  <2>3. CASE poll_devices(line, expected, timer, TRUE) BY <1>0, <2>3, Polled, Zenon
  <2> QED BY <2>1, <2>2, <2>3, Zenon DEF DeviceAccess
<1>2. Step(h, FALSE) /\ UNCHANGED <<mailbox, sie, halted, stale>> BY Zenon DEF DeviceAccess, Instr
<1> QED BY <1>0, <1>1, <1>2, LocalStep, Zenon

\* The invariant is inductive.
LEMMA StepHolds == IInv /\ [Next]_vars => IInv'
<1> SUFFICES ASSUME IInv, [Next]_vars PROVE IInv' OBVIOUS
<1>1. CASE Pick BY <1>1, PickStep
<1>2. CASE EndTurn BY <1>2, EndTurnStep
<1>3. CASE BusyRound BY <1>3, BusyRoundStep
<1>4. CASE AwaitOutside \/ FastForward \/ IdleAgain BY <1>4, IdleRoundStep
<1>5. CASE Stall BY <1>5, StallStep
<1>6. ASSUME NEW h \in H, Hart(h) PROVE IInv'
  BY <1>6, OwnStep, SbiStep, DeviceStep DEF Hart
<1>7. CASE UNCHANGED vars
  BY <1>7 DEF IInv, TypeOK, DeliveredBeforeRunning, Running, StartUnparks, FencesAreMailed, TurnIsRun,
     RoundIsQuiet, Resting, IdleIsCounted, StallIsQuiet, Deadlines, Owed, vars, turns, mailbox, world
<1> QED BY <1>1, <1>2, <1>3, <1>4, <1>5, <1>6, <1>7 DEF Next, Returned

-----------------------------------------------------------------------------
(* The theorems. *)

\* It holds of every behaviour.
LEMMA IInvAlways == Spec => []IInv
BY InitHolds, StepHolds, PTL DEF Spec

\* No hart executes before the fences, IPIs and starts aimed at it are delivered
\* (cpu/mod.rs:278, sbi.rs:195), for any number of harts in any order of calls.
THEOREM MailIsDelivered == Spec => []DeliveredBeforeRunning
<1>1. IInv => DeliveredBeforeRunning BY DEF IInv
<1> QED BY <1>1, IInvAlways, PTL

\* run() gives up only on a machine no hart of which can go on (platform.rs:161).
THEOREM StallsAreJustified == Spec => []StallIsJustified
<1>1. ASSUME IInv PROVE StallIsJustified
  <2> SUFFICES ASSUME status = "stalled"
               PROVE  /\ \A h \in H : Resting(h) /\ (parked[h] \/ timer[h] = Never)
                      /\ expected \cap {"key", "reply"} = {}
    BY DEF StallIsJustified, Resting
  <2>0. N \in Nat \ {0} /\ Horizon \in Nat /\ timer \in [H -> 0 .. Never]
    BY <1>1, SchedulerAssumption DEF IInv, TypeOK
  <2>1. turn = N /\ ~anyRan /\ Deadlines = {} /\ ~Owed BY <1>1 DEF IInv, StallIsQuiet
  <2>2. ASSUME NEW h \in H PROVE Resting(h) /\ (parked[h] \/ timer[h] = Never)
    <3>1. h < turn BY <2>0, <2>1 DEF H
    <3>2. Resting(h) /\ (timer[h] = 0 => "stip" \in pend[h])
      BY <1>1, <2>1, <3>1 DEF IInv, RoundIsQuiet
    <3>3. ~parked[h] => timer[h] \notin 1 .. Horizon BY <2>1 DEF Deadlines
    <3> QED BY <2>0, <3>2, <3>3 DEF Resting, Never
  <2>3. expected \cap {"key", "reply"} = {} BY <2>1 DEF Owed
  <2> QED BY <2>2, <2>3
<1> QED BY <1>1, IInvAlways, PTL

\* The start address a successful hart_start leaves stands until the started hart picks
\* it up (sbi.rs:227): the call unparks its target at once.
THEOREM StartsStand == Spec => StartStands
<1> DEFINE Stands == \A h \in H : "start" \in mail[h] /\ "start" \in mail'[h] => entry'[h] = entry[h]
<1>1. ASSUME IInv, [Next]_vars PROVE [Stands]_vars
  <2>1. CASE UNCHANGED entry BY <2>1
  <2>2. ASSUME NEW h \in H, NEW t \in H, NEW a \in Entries, hart_start(h, t, a) PROVE Stands
    <3>1. CASE parked[t]
      <4>1. "start" \notin mail[t] BY <1>1, <3>1 DEF IInv, StartUnparks
      <4>2. entry' = [entry EXCEPT ![t] = a] BY <2>2, <3>1 DEF hart_start
      <4>3. \A g \in H : g # t => entry'[g] = entry[g] BY <1>1, <4>2 DEF IInv, TypeOK
      <4> QED BY <4>1, <4>3
    <3>2. CASE ~parked[t] BY <2>2, <3>2, SMTT(60) DEF hart_start, mailbox
    <3> QED BY <3>1, <3>2
  <2>3. UNCHANGED entry \/ \E h \in H, t \in H, a \in Entries : hart_start(h, t, a)
    BY <1>1, Zenon DEF Next, Pick, EndTurn, BusyRound, AwaitOutside, FastForward, IdleAgain, Stall, Returned, NextRound,
       Hart, TakeInterrupt, Compute, EnableInterrupts, ClearSsip, Wfi, set_timer, send_ipi, remote_fence,
       hart_stop, system_reset, DeviceAccess, mailbox, vars
  <2> QED BY <2>1, <2>2, <2>3
<1>2. IInv /\ [Next]_vars => [Stands]_vars BY <1>1
<1> QED BY <1>2, IInvAlways, PTL DEF Spec, StartStands
=============================================================================
