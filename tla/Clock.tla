------------------------------- MODULE Clock -------------------------------
(***************************************************************************)
(* The machine-wide clock (Clock in src/clint.rs) as the run loop of       *)
(* src/platform.rs drives it: advanced once per round by the longest turn, *)
(* and read inside a turn as the round's base plus what the reading hart   *)
(* has retired since the turn began.                                       *)
(*                                                                         *)
(* `seen` is a history variable: the last time each hart read.             *)
(***************************************************************************)
EXTENDS Integers

CONSTANTS
  N,          \* number of harts
  Quantum,    \* steps in a turn
  Rates,      \* what --timer-divisor may set: retired instructions per tick
  IdleTicks,  \* instructions' worth of clock an idle round may pass
  Hooks,      \* whether a before_step hook may be installed: a subset of BOOLEAN
  MaxTime     \* bound on mtime

H == 0 .. N - 1

ASSUME ClockAssumption ==
  /\ N \in Nat \ {0} /\ Quantum \in Nat \ {0} /\ Rates \subseteq Nat \ {0}
  /\ IdleTicks \subseteq Nat /\ Hooks \subseteq BOOLEAN /\ MaxTime \in Nat

VARIABLES
  mtime, live, ipt, subtick, \* the Clock
  hooked,                    \* is a debugger's before_step hook installed?
  turn, running, over,       \* whose turn it is; a debugged hart has used it up
  used, anyRan, roundMax,    \* steps of this turn; this round so far
  elapsed,                   \* history: instructions the clock should stand for
  seen

setup == <<ipt, hooked>>     \* chosen before the run
clock == <<mtime, subtick, elapsed, setup>>
round == <<turn, running, anyRan, roundMax>>
vars == <<clock, live, round, over, used, seen>>

Init ==
  /\ ipt \in Rates /\ hooked \in Hooks
  /\ mtime = 0 /\ live = 0 /\ subtick = 0 /\ elapsed = 0
  /\ turn = 0 /\ running = FALSE /\ over = FALSE
  /\ used = 0 /\ anyRan = FALSE /\ roundMax = 0
  /\ seen = [h \in H |-> -1]

-----------------------------------------------------------------------------
(* The Clock's operations. *)

\* Mutant: an unfinished tick counted as one.
NowRoundedUp == mtime + (live + ipt - 1) \div ipt

\* now(): what the running hart reads.
Now == mtime + live \div ipt

\* n % ipt.
Remainder(n) == n - ipt * (n \div ipt)

\* Mutant: a tick that drops the remainder.
tickTruncating(n) ==
  /\ mtime' = mtime + n \div ipt
  /\ subtick' = 0
  /\ elapsed' = elapsed + n
  /\ UNCHANGED setup

tick(n) ==
  /\ mtime' = mtime + (subtick + n) \div ipt
  /\ subtick' = Remainder(subtick + n)
  /\ elapsed' = elapsed + n
  /\ UNCHANGED setup

advance_to(t) ==
  /\ t > mtime
  /\ mtime' = t /\ subtick' = 0 /\ elapsed' = t * ipt
  /\ UNCHANGED setup

-----------------------------------------------------------------------------
(* Turns and rounds. *)

\* Mutant: the turn begins without resetting what the previous hart retired.
BeginLive(h) ==
  /\ turn = h /\ ~running
  /\ running' = TRUE /\ anyRan' = TRUE /\ over' = FALSE
  /\ used' = 0
  /\ UNCHANGED <<clock, live, turn, roundMax, seen>>

Begin(h) ==
  /\ turn = h /\ ~running
  /\ running' = TRUE /\ anyRan' = TRUE /\ over' = FALSE
  /\ live' = 0 /\ used' = 0
  /\ UNCHANGED <<clock, turn, roundMax, seen>>

\* The hart whose turn it is is parked or asleep.
Skip ==
  /\ turn < N /\ ~running
  /\ turn' = turn + 1
  /\ UNCHANGED <<clock, live, running, anyRan, roundMax, over, used, seen>>

CanStep(h) == running /\ turn = h /\ ~over /\ used < Quantum

\* One step.  Under a debugger only a step that touched a device leaves the turn open.
Step(h, retired, touched) ==
  /\ CanStep(h)
  /\ used' = used + 1
  /\ live' = live + retired
  /\ over' = (hooked /\ ~touched)
  /\ UNCHANGED <<clock, round>>

Execute(h, touched) == Step(h, 1, touched) /\ UNCHANGED seen
TakeTrap(h, touched) == Step(h, 0, touched) /\ UNCHANGED seen
ReadTime(h, touched) == Step(h, 1, touched) /\ seen' = [seen EXCEPT ![h] = Now]

\* Mutant: the round moves the clock by its last turn, not its longest.
EndTurnLast ==
  /\ running /\ used > 0
  /\ running' = FALSE /\ turn' = turn + 1
  /\ roundMax' = used
  /\ UNCHANGED <<clock, live, anyRan, over, used, seen>>

\* The quantum is used up, or the hart parked or slept.
EndTurn ==
  /\ running /\ used > 0
  /\ running' = FALSE /\ turn' = turn + 1
  /\ roundMax' = IF used > roundMax THEN used ELSE roundMax
  /\ UNCHANGED <<clock, live, anyRan, over, used, seen>>

NewRound == turn' = 0 /\ anyRan' = FALSE /\ roundMax' = 0 /\ UNCHANGED <<running, over, used, seen>>

BusyRound ==
  /\ turn = N /\ anyRan
  /\ live' = 0
  /\ tick(roundMax) /\ mtime' <= MaxTime
  /\ NewRound

\* Nothing ran: real time passes, or the clock skips to a deadline, or neither.
IdleRound ==
  /\ turn = N /\ ~anyRan
  /\ \/ \E n \in IdleTicks : tick(n)
     \/ \E t \in 1 .. MaxTime : advance_to(t)
     \/ UNCHANGED clock
  /\ mtime' <= MaxTime
  /\ UNCHANGED live
  /\ NewRound

\* The guest stores to the mtime register; what was read before says nothing now.
StoreMtime(h, t) ==
  /\ CanStep(h) /\ used' = used + 1 /\ live' = live + 1 /\ over' = FALSE
  /\ mtime' = t /\ elapsed' = t * ipt + subtick
  /\ seen' = [g \in H |-> -1]
  /\ UNCHANGED <<subtick, setup, round>>

-----------------------------------------------------------------------------
(* A debugger. *)

\* The hook stops the run before a step, or a fatal trap does during it; the next
\* run() starts a round afresh.
HookStop ==
  /\ hooked /\ CanStep(turn)
  /\ turn' = 0 /\ running' = FALSE /\ anyRan' = FALSE /\ roundMax' = 0
  /\ UNCHANGED <<clock, live, over, used, seen>>

\* step_hart(): one instruction outside any round.
StepHart(h) ==
  /\ hooked /\ ~running /\ turn = 0
  /\ live' = 0
  /\ \/ UNCHANGED seen
     \/ seen' = [seen EXCEPT ![h] = mtime]
  /\ tick(1) /\ mtime' <= MaxTime
  /\ UNCHANGED <<round, over, used>>

Next ==
  \/ Skip \/ EndTurn \/ BusyRound \/ IdleRound \/ HookStop
  \/ \E h \in H : \/ Begin(h) \/ StepHart(h)
                  \/ \E touched \in BOOLEAN :
                       Execute(h, touched) \/ TakeTrap(h, touched) \/ ReadTime(h, touched)
                  \/ \E t \in 0 .. MaxTime : StoreMtime(h, t)

Spec == Init /\ [][Next]_vars

-----------------------------------------------------------------------------
(* Properties. *)

\* Every field holds a value of its type, the counters within their limits.
TypeOK ==
  /\ ipt \in Rates /\ hooked \in Hooks
  /\ mtime \in 0 .. MaxTime /\ live \in 0 .. used /\ subtick \in 0 .. ipt - 1
  /\ turn \in 0 .. N /\ running \in BOOLEAN /\ over \in BOOLEAN
  /\ used \in 0 .. Quantum /\ anyRan \in BOOLEAN /\ roundMax \in 0 .. Quantum
  /\ elapsed \in Nat /\ seen \in [H -> Int]

\* However instructions are grouped into rounds, one tick passes per ipt of them: the
\* divisions of tick() lose none (clint.rs:88-101).
KeepsRemainder == mtime * ipt + subtick = elapsed

\* Without a debugger a hart never reads a time before one it has read, within a turn or
\* across rounds in which its turn was not the longest.  now() and tick() divide by ipt
\* separately, the one without the remainder the other carries, and still agree.
TimeNeverBack == ~hooked => \A h \in H : CanStep(h) => seen[h] <= Now

\* Without a debugger every time any hart has read is reached by the clock when the round
\* ends, so the deadlines it saw pass are seen to have passed by the timer comparison.
ReadsAreReached == ~hooked /\ turn = 0 /\ ~running => \A h \in H : seen[h] <= mtime

\* With one instruction per tick no two reads of a hart return the same value, if there is
\* no debugger: what `live` is there for (clint.rs:46-48).
ReadsDiffer == ipt = 1 /\ ~hooked => \A h \in H : CanStep(h) => seen[h] < Now

\* Two reads that return the same value are what "no real clock does" (clint.rs:46-48),
\* with no exception for a debugger.
ReadsAlwaysDiffer == ipt = 1 => \A h \in H : CanStep(h) => seen[h] < Now

\* Even across debugger stops no hart reads a time more than a quantum older than one
\* it has read.
BackAtMostAQuantum == \A h \in H : seen[h] <= mtime + Quantum \div ipt
=============================================================================
