----------------------------- MODULE ClockProofs -----------------------------
(***************************************************************************)
(* The clock's properties for every number of harts, quantum and rate.     *)
(***************************************************************************)
EXTENDS Clock, DivLemmas, TLAPS

LEMMA Distribute ==
  ASSUME NEW a \in Int, NEW b \in Int, NEW c \in Int
  PROVE  (a + b) * c = a * c + c * b
OBVIOUS

-----------------------------------------------------------------------------
(* Types and the accounting of ticks, with or without a debugger. *)

Shape ==
  /\ running => turn < N /\ anyRan
  /\ ~anyRan => roundMax = 0
Inv == TypeOK /\ KeepsRemainder /\ Shape

LEMMA RateType == Inv => ipt \in Nat \ {0} /\ hooked \in BOOLEAN
BY ClockAssumption DEF Inv, TypeOK

\* The rate and the hook are chosen before the run.
LEMMA SetupKept == [Next]_vars => UNCHANGED setup
<1> USE DEF clock
<1>1. ASSUME NEW h \in H, NEW touched \in BOOLEAN,
             Execute(h, touched) \/ TakeTrap(h, touched) \/ ReadTime(h, touched)
      PROVE  UNCHANGED setup
  BY <1>1, Zenon DEF Execute, TakeTrap, ReadTime, Step
<1>2. ASSUME NEW h \in H, Begin(h) \/ StepHart(h) PROVE UNCHANGED setup
  BY <1>2, Zenon DEF Begin, StepHart, tick
<1>3. ASSUME NEW h \in H, NEW t \in 0 .. MaxTime, StoreMtime(h, t) PROVE UNCHANGED setup
  BY <1>3 DEF StoreMtime, setup
<1>4. CASE Skip \/ EndTurn \/ BusyRound \/ IdleRound \/ HookStop
  BY <1>4, Zenon DEF Skip, EndTurn, BusyRound, IdleRound, HookStop, tick, advance_to
<1>5. CASE UNCHANGED vars BY <1>5, Zenon DEF vars
<1> QED BY <1>1, <1>2, <1>3, <1>4, <1>5, Zenon DEF Next

LEMMA TickFacts ==
  ASSUME Inv, NEW n \in Nat, tick(n)
  PROVE  /\ mtime' \in Nat /\ mtime' >= mtime + n \div ipt /\ n \div ipt \in Nat
         /\ subtick' \in 0 .. ipt - 1 /\ elapsed' \in Nat
         /\ KeepsRemainder'
<1>1. /\ mtime \in Nat /\ subtick \in Nat /\ elapsed \in Nat /\ ipt \in Nat \ {0}
      /\ mtime * ipt + subtick = elapsed
  BY ClockAssumption, RateType DEF Inv, TypeOK, KeepsRemainder
<1> DEFINE q == (subtick + n) \div ipt
           r == Remainder(subtick + n)
<1>2. q \in Nat /\ r \in 0 .. ipt - 1 /\ subtick + n = ipt * q + r
  <2>1. subtick + n \in Nat BY <1>1
  <2>2. q \in Nat /\ ipt * q <= subtick + n /\ subtick + n < ipt * q + ipt
    BY <1>1, <2>1, DivFacts
  <2>3. r = (subtick + n) - ipt * q BY Zenon DEF Remainder
  <2> HIDE DEF q, r
  <2>4. ipt * q \in Nat BY <1>1, <2>2
  <2> QED BY <1>1, <2>2, <2>3, <2>4
<1>3. n \div ipt \in Nat /\ n \div ipt <= q
  BY <1>1, DivFacts, DivMono
<1>4. mtime' = mtime + q /\ subtick' = r /\ elapsed' = elapsed + n /\ ipt' = ipt
  BY DEF tick, setup
<1> HIDE DEF q, r
<1>5. (mtime + q) * ipt + r = elapsed + n
  <2>1. (mtime + q) * ipt = mtime * ipt + ipt * q BY <1>1, <1>2, Distribute
  <2> QED BY <1>1, <1>2, <2>1
<1>6. n \div ipt <= q /\ mtime' >= mtime + n \div ipt
  <2> DEFINE d == n \div ipt
  <2> HIDE DEF d
  <2>1. mtime + q >= mtime + d BY <1>1, <1>2, <1>3 DEF d
  <2> QED BY <1>3, <1>4, <2>1 DEF d
<1> QED BY <1>1, <1>2, <1>3, <1>4, <1>5, <1>6 DEF KeepsRemainder

LEMMA AdvanceFacts ==
  ASSUME Inv, NEW t \in Nat, advance_to(t)
  PROVE  /\ mtime' \in Nat /\ mtime' >= mtime
         /\ subtick' \in 0 .. ipt - 1 /\ elapsed' \in Nat
         /\ KeepsRemainder'
<1>1. ipt \in Nat \ {0} /\ mtime \in Nat BY RateType, ClockAssumption DEF Inv, TypeOK
<1> QED BY <1>1 DEF advance_to, KeepsRemainder, setup

LEMMA InvStep == Inv /\ [Next]_vars => Inv'
<1> SUFFICES ASSUME Inv, [Next]_vars PROVE Inv' OBVIOUS
<1>0. /\ N \in Nat \ {0} /\ Quantum \in Nat \ {0} /\ ipt \in Nat \ {0} /\ MaxTime \in Nat
      /\ ipt' = ipt /\ hooked' = hooked
  BY ClockAssumption, RateType, SetupKept DEF setup
<1>s. ipt' \in Rates /\ hooked' \in Hooks BY <1>0 DEF Inv, TypeOK
<1>k. UNCHANGED clock => KeepsRemainder'
  BY DEF Inv, KeepsRemainder, clock, setup
<1> DEFINE Ticked == /\ mtime' \in Nat /\ subtick' \in 0 .. ipt - 1 /\ elapsed' \in Nat
                     /\ KeepsRemainder'
<1>t. ASSUME NEW n \in Nat, tick(n) PROVE Ticked BY <1>t, TickFacts
<1>a. ASSUME NEW t \in Nat, advance_to(t) PROVE Ticked BY <1>a, AdvanceFacts
<1> HIDE DEF Ticked
<1> USE DEF Inv, H, clock, round
<1>1. CASE Skip
  <2>1. TypeOK' BY <1>0, <1>s, <1>1 DEF Skip, TypeOK
  <2>2. Shape' BY <1>0, <1>1 DEF Skip, TypeOK, Shape
  <2> QED BY <1>k, <1>1, <2>1, <2>2 DEF Skip
<1>2. CASE EndTurn
  <2>1. TypeOK'
    <3>1. running' \in BOOLEAN /\ over' \in BOOLEAN /\ anyRan' \in BOOLEAN BY <1>2 DEF EndTurn, TypeOK
    <3>2. /\ turn' \in 0 .. N /\ used' \in 0 .. Quantum /\ roundMax' \in 0 .. Quantum
          /\ live' \in 0 .. used' /\ seen' \in [H -> Int]
      BY <1>0, <1>2 DEF EndTurn, TypeOK, Shape
    <3>3. mtime' \in 0 .. MaxTime /\ subtick' \in 0 .. ipt' - 1 /\ elapsed' \in Nat
      BY <1>0, <1>2 DEF EndTurn, TypeOK, Shape
    <3> QED BY <1>s, <3>1, <3>2, <3>3 DEF TypeOK
  <2>2. Shape' BY <1>0, <1>2 DEF EndTurn, TypeOK, Shape
  <2> QED BY <1>k, <1>2, <2>1, <2>2 DEF EndTurn
<1>3. CASE BusyRound
  <2>1. Ticked BY <1>0, <1>t, <1>3 DEF BusyRound, TypeOK
  <2>2. TypeOK'
    <3>1. running' \in BOOLEAN /\ over' \in BOOLEAN /\ anyRan' \in BOOLEAN BY <1>3 DEF BusyRound, NewRound, TypeOK
    <3>2. /\ turn' \in 0 .. N /\ used' \in 0 .. Quantum /\ roundMax' \in 0 .. Quantum
          /\ live' \in 0 .. used' /\ seen' \in [H -> Int]
      BY <1>0, <1>3, <2>1 DEF BusyRound, NewRound, TypeOK, Ticked
    <3>3. mtime' \in 0 .. MaxTime /\ subtick' \in 0 .. ipt' - 1 /\ elapsed' \in Nat
      BY <1>0, <1>3, <2>1 DEF BusyRound, NewRound, TypeOK, Ticked
    <3> QED BY <1>s, <3>1, <3>2, <3>3 DEF TypeOK
  <2>3. Shape' BY <1>0, <1>3 DEF BusyRound, NewRound, TypeOK, Shape
  <2> QED BY <2>1, <2>2, <2>3 DEF Ticked
<1>4. CASE IdleRound
  <2>1. Ticked
    <3>1. CASE UNCHANGED clock BY <1>0, <1>k, <3>1 DEF Ticked, TypeOK
    <3> QED BY <1>0, <1>t, <1>a, <1>4, <3>1, ClockAssumption DEF IdleRound
  <2>2. TypeOK'
    <3>1. running' \in BOOLEAN /\ over' \in BOOLEAN /\ anyRan' \in BOOLEAN BY <1>4 DEF IdleRound, NewRound, TypeOK
    <3>2. /\ turn' \in 0 .. N /\ used' \in 0 .. Quantum /\ roundMax' \in 0 .. Quantum
          /\ live' \in 0 .. used' /\ seen' \in [H -> Int]
      BY <1>0, <1>4, <2>1 DEF IdleRound, NewRound, TypeOK, Ticked
    <3>3. mtime' \in 0 .. MaxTime /\ subtick' \in 0 .. ipt' - 1 /\ elapsed' \in Nat
      BY <1>0, <1>4, <2>1 DEF IdleRound, NewRound, TypeOK, Ticked
    <3> QED BY <1>s, <3>1, <3>2, <3>3 DEF TypeOK
  <2>3. Shape' BY <1>0, <1>4 DEF IdleRound, NewRound, TypeOK, Shape
  <2> QED BY <2>1, <2>2, <2>3 DEF Ticked
<1>5. CASE HookStop
  <2>1. TypeOK'
    <3>1. running' \in BOOLEAN /\ over' \in BOOLEAN /\ anyRan' \in BOOLEAN BY <1>5 DEF HookStop, TypeOK
    <3>2. /\ turn' \in 0 .. N /\ used' \in 0 .. Quantum /\ roundMax' \in 0 .. Quantum
          /\ live' \in 0 .. used' /\ seen' \in [H -> Int]
      BY <1>0, <1>5 DEF HookStop, TypeOK
    <3>3. mtime' \in 0 .. MaxTime /\ subtick' \in 0 .. ipt' - 1 /\ elapsed' \in Nat
      BY <1>0, <1>5 DEF HookStop, TypeOK
    <3> QED BY <1>s, <3>1, <3>2, <3>3 DEF TypeOK
  <2>2. Shape' BY <1>0, <1>5 DEF HookStop, TypeOK, Shape
  <2> QED BY <1>k, <1>5, <2>1, <2>2 DEF HookStop
<1>6. ASSUME NEW h \in H, Begin(h) PROVE Inv'
  <2>1. TypeOK'
    <3>1. running' \in BOOLEAN /\ over' \in BOOLEAN /\ anyRan' \in BOOLEAN BY <1>6 DEF Begin, TypeOK
    <3>2. /\ turn' \in 0 .. N /\ used' \in 0 .. Quantum /\ roundMax' \in 0 .. Quantum
          /\ live' \in 0 .. used' /\ seen' \in [H -> Int]
      BY <1>0, <1>6 DEF Begin, TypeOK
    <3>3. mtime' \in 0 .. MaxTime /\ subtick' \in 0 .. ipt' - 1 /\ elapsed' \in Nat
      BY <1>0, <1>6 DEF Begin, TypeOK
    <3> QED BY <1>s, <3>1, <3>2, <3>3 DEF TypeOK
  <2>2. Shape' BY <1>0, <1>6 DEF Begin, TypeOK, Shape
  <2> QED BY <1>k, <1>6, <2>1, <2>2 DEF Begin
<1>7. ASSUME NEW h \in H, NEW n \in {0, 1}, NEW touched, Step(h, n, touched),
             seen' \in [H -> Int]
      PROVE Inv'
  <2>1. TypeOK' BY <1>0, <1>s, <1>7 DEF Step, CanStep, TypeOK
  <2>2. Shape' BY <1>0, <1>7 DEF Step, CanStep, TypeOK, Shape
  <2> QED BY <1>k, <1>7, <2>1, <2>2 DEF Step
<1>8. ASSUME NEW h \in H, NEW touched \in BOOLEAN, TakeTrap(h, touched) PROVE Inv'
  BY <1>7, <1>8 DEF TakeTrap, TypeOK
<1>9. ASSUME NEW h \in H, NEW touched \in BOOLEAN, Execute(h, touched) PROVE Inv'
  BY <1>7, <1>9 DEF Execute, TypeOK
<1>10. ASSUME NEW h \in H, NEW touched \in BOOLEAN, ReadTime(h, touched) PROVE Inv'
  <2>1. Now \in Int BY <1>0, DivFacts DEF Now, TypeOK
  <2>2. seen' \in [H -> Int] BY <1>10, <2>1 DEF ReadTime, TypeOK
  <2> QED BY <1>7, <1>10, <2>2 DEF ReadTime
<1>11. ASSUME NEW h \in H, NEW t \in 0 .. MaxTime, StoreMtime(h, t) PROVE Inv'
  <2>1. KeepsRemainder' /\ elapsed' \in Nat
    BY <1>0, <1>11 DEF StoreMtime, KeepsRemainder, TypeOK
  <2>2. TypeOK'
    <3>1. running' \in BOOLEAN /\ over' \in BOOLEAN /\ anyRan' \in BOOLEAN BY <1>11 DEF StoreMtime, CanStep, TypeOK
    <3>2. /\ turn' \in 0 .. N /\ used' \in 0 .. Quantum /\ roundMax' \in 0 .. Quantum
          /\ live' \in 0 .. used' /\ seen' \in [H -> Int]
      BY <1>0, <1>11, <2>1 DEF StoreMtime, CanStep, TypeOK
    <3>3. mtime' \in 0 .. MaxTime /\ subtick' \in 0 .. ipt' - 1 /\ elapsed' \in Nat
      BY <1>0, <1>11, <2>1 DEF StoreMtime, CanStep, TypeOK
    <3> QED BY <1>s, <3>1, <3>2, <3>3 DEF TypeOK
  <2>3. Shape' BY <1>0, <1>11 DEF StoreMtime, CanStep, TypeOK, Shape
  <2> QED BY <2>1, <2>2, <2>3
<1>12. ASSUME NEW h \in H, StepHart(h) PROVE Inv'
  <2>1. Ticked BY <1>t, <1>12 DEF StepHart
  <2>2. TypeOK'
    <3>1. running' \in BOOLEAN /\ over' \in BOOLEAN /\ anyRan' \in BOOLEAN BY <1>12 DEF StepHart, TypeOK
    <3>2. seen' \in [H -> Int]
      <4>1. mtime \in Int /\ seen \in [H -> Int] BY <1>0 DEF TypeOK
      <4> QED BY <1>12, <4>1 DEF StepHart
    <3>3. /\ turn' \in 0 .. N /\ used' \in 0 .. Quantum /\ roundMax' \in 0 .. Quantum
          /\ live' \in 0 .. used'
      BY <1>0, <1>12 DEF StepHart, TypeOK
    <3>4. mtime' \in 0 .. MaxTime /\ subtick' \in 0 .. ipt' - 1 /\ elapsed' \in Nat
      BY <1>0, <1>12, <2>1 DEF StepHart, Ticked
    <3> QED BY <1>s, <3>1, <3>2, <3>3, <3>4 DEF TypeOK
  <2>3. Shape' BY <1>0, <1>12 DEF StepHart, TypeOK, Shape
  <2> QED BY <2>1, <2>2, <2>3 DEF Ticked
<1>13. CASE UNCHANGED vars
  BY <1>k, <1>13 DEF vars, setup, TypeOK, Shape
<1> QED BY <1>1, <1>2, <1>3, <1>4, <1>5, <1>6, <1>8, <1>9, <1>10, <1>11, <1>12, <1>13 DEF Next

LEMMA InvInit == Init => Inv
<1> SUFFICES ASSUME Init PROVE Inv OBVIOUS
<1>1. TypeOK
  <2>1. running \in BOOLEAN /\ over \in BOOLEAN /\ anyRan \in BOOLEAN BY DEF Init
  <2>s. ipt \in Rates /\ hooked \in Hooks /\ ipt \in Nat \ {0} BY ClockAssumption DEF Init
  <2>2. /\ mtime \in 0 .. MaxTime /\ live \in 0 .. used /\ subtick \in 0 .. ipt - 1
        /\ turn \in 0 .. N /\ used \in 0 .. Quantum /\ roundMax \in 0 .. Quantum
        /\ elapsed \in Nat /\ seen \in [H -> Int]
    BY <2>s, ClockAssumption DEF Init
  <2> QED BY <2>s, <2>1, <2>2 DEF TypeOK
<1>2. KeepsRemainder
  <2>1. ipt \in Nat BY ClockAssumption DEF Init
  <2> QED BY <2>1 DEF Init, KeepsRemainder
<1> QED BY <1>1, <1>2 DEF Inv, Shape, Init

\* The fields keep their types and limits, and no instruction is lost by the divisions
\* of Clock::tick, for every grouping of instructions into rounds.
THEOREM ClockInvariant == Spec => [](TypeOK /\ KeepsRemainder)
<1>1. Inv => TypeOK /\ KeepsRemainder BY DEF Inv
<1> QED BY <1>1, InvInit, InvStep, PTL DEF Spec

\* No instruction is lost by the divisions of Clock::tick.
THEOREM RemainderKept == Spec => []KeepsRemainder
BY ClockInvariant, PTL

-----------------------------------------------------------------------------
(* How the clock moves. *)

\* Only the guest's own store moves the clock back.
LEMMA ClockForward ==
  ASSUME Inv, Next, \A h \in H : \A t \in 0 .. MaxTime : ~StoreMtime(h, t)
  PROVE  mtime' \in Nat /\ mtime' >= mtime
<1>0. ipt \in Nat \ {0} /\ mtime \in Nat /\ roundMax \in Nat /\ IdleTicks \subseteq Nat /\ MaxTime \in Nat
  BY ClockAssumption, RateType DEF Inv, TypeOK
<1>1. ASSUME NEW n \in Nat, tick(n) PROVE mtime' \in Nat /\ mtime' >= mtime
  <2> DEFINE d == n \div ipt
  <2>1. mtime' \in Nat /\ mtime' >= mtime + d /\ d \in Nat BY <1>1, TickFacts
  <2> HIDE DEF d
  <2> QED BY <1>0, <2>1
<1>2. ASSUME NEW t \in Nat, advance_to(t) PROVE mtime' \in Nat /\ mtime' >= mtime
  BY <1>2, AdvanceFacts
<1>3. UNCHANGED clock => mtime' \in Nat /\ mtime' >= mtime BY <1>0 DEF clock
<1>4. CASE BusyRound BY <1>0, <1>1, <1>4 DEF BusyRound
<1>5. CASE IdleRound BY <1>0, <1>1, <1>2, <1>3, <1>5 DEF IdleRound
<1>6. CASE Skip \/ EndTurn \/ HookStop
  BY <1>3, <1>6 DEF Skip, EndTurn, HookStop
<1>7. ASSUME NEW h \in H, Begin(h) \/ StepHart(h)
      PROVE mtime' \in Nat /\ mtime' >= mtime
  BY <1>1, <1>3, <1>7 DEF Begin, StepHart
<1>8. ASSUME NEW h \in H, NEW touched \in BOOLEAN,
             Execute(h, touched) \/ TakeTrap(h, touched) \/ ReadTime(h, touched)
      PROVE mtime' \in Nat /\ mtime' >= mtime
  BY <1>3, <1>8 DEF Execute, TakeTrap, ReadTime, Step
<1> QED BY <1>4, <1>5, <1>6, <1>7, <1>8 DEF Next

\* A store to mtime forgets what was read.
LEMMA StoreForgets ==
  ASSUME Inv, NEW g \in H, NEW t \in 0 .. MaxTime, StoreMtime(g, t)
  PROVE  \A h \in H : seen'[h] = -1
BY DEF StoreMtime

\* What a step leaves in seen: the reader's entry is the time it read.
LEMMA SeenStep ==
  ASSUME Inv, Next, NEW h \in H
  PROVE  \/ seen'[h] = -1
         \/ seen'[h] = seen[h]
         \/ \E touched \in BOOLEAN : ReadTime(h, touched) /\ seen'[h] = Now
         \/ StepHart(h) /\ seen'[h] = mtime
<1>1. seen \in [H -> Int] BY DEF Inv, TypeOK
<1>2. CASE UNCHANGED seen BY <1>2
<1>3. ASSUME NEW g \in H, StepHart(g) PROVE seen'[h] = seen[h] \/ (StepHart(h) /\ seen'[h] = mtime)
  BY <1>1, <1>3 DEF StepHart
<1>4. ASSUME NEW g \in H, NEW touched \in BOOLEAN, ReadTime(g, touched)
      PROVE  seen'[h] = seen[h] \/ (ReadTime(h, touched) /\ seen'[h] = Now)
  BY <1>1, <1>4 DEF ReadTime
<1>5. CASE Skip \/ EndTurn \/ BusyRound \/ IdleRound \/ HookStop
  BY <1>2, <1>5 DEF Skip, EndTurn, BusyRound, IdleRound, NewRound, HookStop
<1>6. ASSUME NEW g \in H, NEW touched \in BOOLEAN,
             Begin(g) \/ TakeTrap(g, touched) \/ Execute(g, touched)
      PROVE UNCHANGED seen
  BY <1>6 DEF Begin, TakeTrap, Execute
<1> QED BY <1>2, <1>3, <1>4, <1>5, <1>6, StoreForgets DEF Next

-----------------------------------------------------------------------------
(* With a debugger: reads are at most a quantum ahead of the clock. *)

LEMMA QuantumStep == Inv /\ BackAtMostAQuantum /\ [Next]_vars => BackAtMostAQuantum'
<1> SUFFICES ASSUME Inv, BackAtMostAQuantum, [Next]_vars PROVE BackAtMostAQuantum' OBVIOUS
<1> DEFINE Q == Quantum \div ipt
<1>0. /\ ipt \in Nat \ {0} /\ Quantum \in Nat /\ mtime \in Nat /\ seen \in [H -> Int]
      /\ live \in Nat /\ live <= Quantum /\ Q \in Nat
  BY ClockAssumption, RateType, DivFacts DEF Inv, TypeOK
<1>s. ipt' = ipt BY SetupKept DEF setup
<1>1. \A h \in H : seen[h] <= mtime + Q BY DEF BackAtMostAQuantum
<1>2. live \div ipt <= Q /\ live \div ipt \in Nat BY <1>0, DivMono, DivFacts
<1>3. CASE UNCHANGED vars BY <1>3, <1>s DEF vars, clock, BackAtMostAQuantum
<1>4. ASSUME Next, NEW h \in H PROVE seen'[h] <= mtime' + Q
  <2>1. CASE \E g \in H, t \in 0 .. MaxTime : StoreMtime(g, t)
    <3>1. mtime' \in Nat BY <1>0, <2>1, ClockAssumption DEF StoreMtime
    <3> HIDE DEF Q
    <3> QED BY <1>0, <2>1, <3>1, StoreForgets
  <2>2. CASE ~ \E g \in H, t \in 0 .. MaxTime : StoreMtime(g, t)
    <3>1. mtime' \in Nat /\ mtime' >= mtime BY <1>4, <2>2, ClockForward
    <3> DEFINE L == live \div ipt
    <3>2. L \in Nat /\ L <= Q BY <1>2
    <3>3. seen'[h] \in {-1, seen[h], mtime + L, mtime} BY <1>4, SeenStep DEF Now
    <3> HIDE DEF L, Q
    <3>4. seen[h] \in Int /\ seen[h] <= mtime + Q BY <1>0, <1>1
    <3> QED BY <1>0, <3>1, <3>2, <3>3, <3>4
  <2> QED BY <2>1, <2>2
<1> QED BY <1>s, <1>3, <1>4 DEF BackAtMostAQuantum

\* Even across the rounds a debugger stop abandons (platform.rs:396-414), no hart reads a
\* time more than a quantum before one it has read.
THEOREM BoundedBackstep == Spec => []BackAtMostAQuantum
<1>1. Init => BackAtMostAQuantum
  <2> SUFFICES ASSUME Init PROVE BackAtMostAQuantum OBVIOUS
  <2> DEFINE Q == Quantum \div ipt
  <2>1. Q \in Nat BY ClockAssumption, InvInit, RateType, DivFacts
  <2> HIDE DEF Q
  <2>2. \A h \in H : seen[h] <= mtime + Q BY <2>1 DEF Init
  <2> QED BY <2>2 DEF BackAtMostAQuantum, Q
<1> QED BY <1>1, InvInit, InvStep, QuantumStep, PTL DEF Spec

-----------------------------------------------------------------------------
(* Without a debugger: what each hart has read is within its own progress. *)

\* How far ahead of mtime a hart may have read at this point of the round.
Bound(h) == IF h = turn /\ running THEN live ELSE IF h < turn THEN roundMax ELSE 0
Caught == ~hooked => \A h \in H : seen[h] <= mtime + Bound(h) \div ipt

LEMMA BoundType ==
  ASSUME Inv, NEW h \in H
  PROVE  Bound(h) \in Nat /\ Bound(h) \div ipt \in Nat
<1>1. Bound(h) \in Nat BY ClockAssumption DEF Bound, Inv, TypeOK, H
<1> QED BY <1>1, RateType, DivFacts

LEMMA BoundTypeNext ==
  ASSUME Inv', NEW h \in H
  PROVE  Bound(h)' \in Nat /\ (Bound(h) \div ipt)' \in Nat
<1>1. Bound(h)' \in Nat BY ClockAssumption DEF Bound, Inv, TypeOK, H
<1>2. ipt' \in Nat \ {0} BY ClockAssumption DEF Inv, TypeOK
<1> QED BY <1>1, <1>2, DivFacts

\* Within a round a hart's allowance only grows.
LEMMA BoundGrows ==
  ASSUME Inv, Inv', NEW h \in H,
         \/ Skip \/ EndTurn
         \/ \E g \in H : Begin(g)
         \/ \E g \in H, touched \in BOOLEAN :
              Execute(g, touched) \/ TakeTrap(g, touched) \/ ReadTime(g, touched)
  PROVE  Bound(h) <= Bound(h)' /\ UNCHANGED mtime
<1>1. /\ N \in Nat /\ h \in 0 .. N - 1 /\ turn \in 0 .. N /\ live \in Nat /\ roundMax \in Nat
      /\ live <= used /\ used \in Nat
  BY ClockAssumption DEF Inv, TypeOK, H
<1>2. CASE Skip BY <1>1, <1>2 DEF Skip, Bound, clock
<1>3. CASE EndTurn BY <1>1, <1>3 DEF EndTurn, Bound, clock
<1>4. ASSUME NEW g \in H, Begin(g) PROVE Bound(h) <= Bound(h)' /\ UNCHANGED mtime
  BY <1>1, <1>4 DEF Begin, Bound, clock
<1>5. ASSUME NEW g \in H, NEW n \in {0, 1}, NEW touched, Step(g, n, touched)
      PROVE  Bound(h) <= Bound(h)' /\ UNCHANGED mtime
  BY <1>1, <1>5 DEF Step, CanStep, Bound, clock, round
<1> QED BY <1>2, <1>3, <1>4, <1>5 DEF TakeTrap, Execute, ReadTime

LEMMA CaughtStep == Inv /\ Caught /\ [Next]_vars => Caught'
<1> SUFFICES ASSUME Inv, Caught, [Next]_vars, ~hooked'
             PROVE  \A h \in H : seen'[h] <= mtime' + (Bound(h) \div ipt)'
  BY DEF Caught
<1>0. Inv' BY InvStep
<1>s. ~hooked /\ ipt' = ipt /\ ipt \in Nat \ {0} BY SetupKept, RateType DEF setup
<1>1. CASE UNCHANGED vars BY <1>s, <1>1 DEF vars, clock, round, Caught, Bound
<1>2. ASSUME Next, NEW h \in H PROVE seen'[h] <= mtime' + (Bound(h) \div ipt)'
  <2> DEFINE B == Bound(h) \div ipt
             C == (Bound(h) \div ipt)'
  <2>1. /\ B \in Nat /\ C \in Nat /\ mtime \in Nat /\ mtime' \in Nat
        /\ seen[h] \in Int /\ seen[h] <= mtime + B
    <3>1. B \in Nat BY BoundType
    <3>2. C \in Nat BY <1>0, BoundTypeNext
    <3>3. mtime \in Nat /\ mtime' \in Nat /\ seen[h] \in Int
      BY <1>0, ClockAssumption DEF Inv, TypeOK
    <3> QED BY <1>s, <3>1, <3>2, <3>3 DEF Caught
  <2>2. CASE \E g \in H, t \in 0 .. MaxTime : StoreMtime(g, t)
    <3>1. seen'[h] = -1 BY <2>2, StoreForgets
    <3> HIDE DEF B, C
    <3>2. seen'[h] <= mtime' + C BY <2>1, <3>1
    <3> QED BY <3>2 DEF C
  <2>3. CASE BusyRound
    <3> DEFINE R == roundMax \div ipt
    <3>1. mtime' >= mtime + R /\ R \in Nat
      BY <2>3, TickFacts, ClockAssumption DEF BusyRound, Inv, TypeOK
    <3>2. Bound(h) = roundMax /\ seen'[h] = seen[h]
      BY <2>3, ClockAssumption DEF BusyRound, NewRound, Bound, H
    <3>3. B = R BY <3>2
    <3> HIDE DEF B, C, R
    <3>4. seen'[h] <= mtime' + C BY <2>1, <3>1, <3>2, <3>3
    <3> QED BY <3>4 DEF C
  <2>4. CASE IdleRound
    <3>1. mtime' >= mtime
      <4>1. \A g \in H, t \in 0 .. MaxTime : ~StoreMtime(g, t)
        BY <2>4, ClockAssumption DEF IdleRound, StoreMtime, CanStep, Inv, TypeOK, H
      <4> QED BY <1>2, <4>1, ClockForward
    <3>2. Bound(h) = 0 /\ seen'[h] = seen[h]
      BY <2>4, ClockAssumption DEF IdleRound, NewRound, Bound, H, Inv, Shape
    <3>3. B = 0 BY <1>s, <3>2, DivFacts
    <3> HIDE DEF B, C
    <3>4. seen'[h] <= mtime' + C BY <2>1, <3>1, <3>2, <3>3
    <3> QED BY <3>4 DEF C
  <2>5. ASSUME \/ Skip \/ EndTurn
               \/ \E g \in H : Begin(g)
               \/ \E g \in H, touched \in BOOLEAN :
                    Execute(g, touched) \/ TakeTrap(g, touched) \/ ReadTime(g, touched)
        PROVE  seen'[h] <= mtime' + C
    <3>1. Bound(h) <= Bound(h)' /\ mtime' = mtime BY <1>0, <2>5, BoundGrows
    <3>2. B <= C
      <4>1. Bound(h) \in Nat /\ Bound(h)' \in Nat BY <1>0, BoundType, BoundTypeNext
      <4> QED BY <1>s, <3>1, <4>1, DivMono
    <3>3. seen'[h] \in {-1, seen[h], mtime + B}
      <4>1. ASSUME NEW touched \in BOOLEAN, ReadTime(h, touched) PROVE Now = mtime + B
        <5>1. Bound(h) = live BY <4>1 DEF ReadTime, Step, CanStep, Bound
        <5> QED BY <5>1 DEF Now
      <4> QED BY <1>s, <1>2, <4>1, SeenStep DEF StepHart
    <3> HIDE DEF B, C
    <3> QED BY <2>1, <3>1, <3>2, <3>3
  <2>6. ~HookStop /\ \A g \in H : ~StepHart(g) BY <1>s DEF HookStop, StepHart
  <2> QED BY <1>2, <2>2, <2>3, <2>4, <2>5, <2>6 DEF Next
<1> QED BY <1>1, <1>2

LEMMA CaughtAlways == Spec => [](Inv /\ Caught)
<1>1. Init => Caught
  <2> SUFFICES ASSUME Init, NEW h \in H PROVE seen[h] <= mtime + Bound(h) \div ipt BY DEF Caught
  <2> DEFINE B == Bound(h) \div ipt
  <2>1. B \in Nat BY InvInit, BoundType
  <2>2. seen[h] = -1 /\ mtime = 0 BY DEF Init
  <2> HIDE DEF B
  <2>3. seen[h] <= mtime + B BY <2>1, <2>2
  <2> QED BY <2>3 DEF B
<1>2. Inv /\ Caught /\ [Next]_vars => Caught' BY CaughtStep
<1> QED BY <1>1, <1>2, InvInit, InvStep, PTL DEF Spec

\* Without a debugger no hart ever reads a time before one it has read.
THEOREM ReadsMonotonic == Spec => []TimeNeverBack
<1>1. ASSUME Inv, Caught, ~hooked, NEW h \in H, CanStep(h) PROVE seen[h] <= Now
  <2>1. Bound(h) = live BY <1>1 DEF CanStep, Bound
  <2> QED BY <1>1, <2>1 DEF Caught, Now
<1>2. Inv /\ Caught => TimeNeverBack BY <1>1 DEF TimeNeverBack
<1> QED BY <1>2, CaughtAlways, PTL

\* Without a debugger every time a hart has read has been reached by mtime when the
\* round is over, so a deadline it saw pass has passed for Clint::update too.
THEOREM ReadsCaughtUp == Spec => []ReadsAreReached
<1>1. ASSUME Inv, Caught, ~hooked, turn = 0, ~running, NEW h \in H PROVE seen[h] <= mtime
  <2>1. Bound(h) = 0 BY <1>1, ClockAssumption DEF Bound, H
  <2>2. Bound(h) \div ipt = 0 BY <1>1, <2>1, RateType, DivFacts
  <2>3. mtime \in Nat BY <1>1, ClockAssumption DEF Inv, TypeOK
  <2>4. seen[h] <= mtime + Bound(h) \div ipt BY <1>1 DEF Caught
  <2> QED BY <2>2, <2>3, <2>4
<1>2. Inv /\ Caught => ReadsAreReached BY <1>1 DEF ReadsAreReached
<1> QED BY <1>2, CaughtAlways, PTL
=============================================================================
