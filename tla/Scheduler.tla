----------------------------- MODULE Scheduler -----------------------------
(***************************************************************************)
(* The machine's run loop (src/platform.rs), the mailboxes harts leave     *)
(* messages in (src/cpu/mod.rs) and the SBI calls that use them            *)
(* (src/sbi.rs), for a supervisor-mode guest as enter_supervisor() leaves  *)
(* it: SBI answering, WFI idling, supervisor interrupts enabled in mie.    *)
(*                                                                         *)
(* Harts take turns on one host thread, one instruction per action.  Time  *)
(* is relative: timer[h] is what is left of hart h's deadline, 0 once it   *)
(* has passed.  `expected` is what the outside world may still do: type a  *)
(* key, answer a network request, reach a real-time-clock alarm.  The      *)
(* device lines of all of them are one line, enabled for every hart.       *)
(***************************************************************************)
EXTENDS Integers, FiniteSets, FiniteSetsExt

CONSTANTS
  N,           \* number of harts
  Quantum,     \* instructions a hart runs in one turn
  Horizon,     \* the furthest deadline idling may skip to
  IdleLimit,   \* idle rounds before the machine is declared stalled (4)
  Delays,      \* deadlines guests set, relative to the clock
  OutsideTick, \* clock ticks of an idle round that waits for the outside world
  Entries,     \* start addresses guests pass to hart_start
  Outside      \* what the host side can do: a subset of {"key", "reply", "alarm"}

H == 0 .. N - 1
Never == Horizon + 1          \* a deadline beyond the horizon: disarmed

ASSUME SchedulerAssumption ==
  /\ N \in Nat \ {0} /\ Quantum \in Nat \ {0} /\ Horizon \in Nat
  /\ IdleLimit \in Nat /\ OutsideTick \in Nat \ {0}
  /\ Delays \subseteq 0 .. Horizon + 1 /\ Entries # {} /\ Outside \subseteq {"key", "reply", "alarm"}

VARIABLES
  turn, running, budget,       \* whose turn it is, and what is left of its quantum
  anyRan, roundMax, idle,      \* of this round; consecutive idle rounds
  status,                      \* "on", or why the run ended
  parked, mail, entry,         \* the mailboxes
  waiting, pend, sie, halted,  \* per hart: in WFI, mip bits, interrupts on, shut down
  timer,                       \* per hart: the SBI timer deadline
  stale,                       \* per hart: a fence aimed at it is not yet performed
  line, expected,              \* a device interrupts; the outside world
  off                          \* poweroff written to syscon, or Ctrl-A X typed

turns == <<turn, running, anyRan, roundMax, idle, status>>
mailbox == <<parked, mail, entry>>
world == <<line, expected, off>>
vars == <<turns, budget, mailbox, waiting, pend, sie, halted, timer, stale, world>>

Init ==
  /\ turn = 0 /\ running = FALSE /\ budget = 0
  /\ anyRan = FALSE /\ roundMax = 0 /\ idle = 0 /\ status = "on"
  /\ parked = [h \in H |-> h # 0]
  /\ mail = [h \in H |-> {}]
  /\ entry \in [H -> {CHOOSE a \in Entries : TRUE}]
  /\ waiting = [h \in H |-> FALSE]
  /\ pend = [h \in H |-> {}]
  /\ sie = [h \in H |-> FALSE]
  /\ halted = [h \in H |-> FALSE]
  /\ timer = [h \in H |-> Never]
  /\ stale = [h \in H |-> FALSE]
  /\ line = FALSE /\ expected = Outside \cap {"key"} /\ off = FALSE

-----------------------------------------------------------------------------
(* Time and devices. *)

\* Mutant: the remaining time not clamped at zero.
LeftUnclamped(t, n) == IF t = Never THEN Never ELSE t - n

Left(t, n) == IF t = Never THEN Never ELSE IF t > n THEN t - n ELSE 0
Ticked(n) == [h \in H |-> Left(timer[h], n)]

\* Mutant: the interrupt lines of a sleeping hart not refreshed.
poll_devicesAwake(line0, expected0, timer0, off0) ==
  \E came \in SUBSET expected0, gone \in SUBSET (expected0 \ {"alarm"}) :
    /\ line' = (line0 \/ came # {})
    /\ off' \in {off0} \cup (IF "key" \in came THEN {TRUE} ELSE {})
    /\ expected' = (expected0 \ (came \ {"key"})) \ gone
    /\ timer' = timer0
    /\ pend' = [h \in H |-> IF waiting[h] THEN pend[h]
                            ELSE (pend[h] \cap {"ssip"})
                                 \cup (IF timer0[h] = 0 THEN {"stip"} ELSE {})
                                 \cup (IF line' THEN {"seip"} ELSE {})]

\* poll_devices(): the outside world may act on anything expected of it, or give up;
\* then every hart's STIP and SEIP follow its deadline and the device line.
poll_devices(line0, expected0, timer0, off0) ==
  \E came \in SUBSET expected0, gone \in SUBSET (expected0 \ {"alarm"}) :
    /\ line' = (line0 \/ came # {})
    /\ off' \in {off0} \cup (IF "key" \in came THEN {TRUE} ELSE {})
    /\ expected' = (expected0 \ (came \ {"key"})) \ gone
    /\ timer' = timer0
    /\ pend' = [h \in H |-> (pend[h] \cap {"ssip"})
                            \cup (IF timer0[h] = 0 THEN {"stip"} ELSE {})
                            \cup (IF line' THEN {"seip"} ELSE {})]

-----------------------------------------------------------------------------
(* Turns. *)

\* runnable(): apply the mailbox, then see whether the hart can execute.
Pick ==
  LET h == turn
      started == "start" \in mail[h]
      pend1 == pend[h] \cup (IF "ipi" \in mail[h] THEN {"ssip"} ELSE {})
      waits == waiting[h] /\ ~started
      ready == (started \/ ~parked[h]) /\ (waits => pend1 # {})
  IN
  /\ status = "on" /\ ~running /\ turn < N
  /\ mail' = [mail EXCEPT ![h] = {}]
  /\ pend' = [pend EXCEPT ![h] = pend1]
  /\ stale' = [stale EXCEPT ![h] = @ /\ ~started /\ "fence" \notin mail[h]]
  /\ parked' = [parked EXCEPT ![h] = @ /\ ~started]
  /\ sie' = [sie EXCEPT ![h] = @ /\ ~started]
  /\ waiting' = [waiting EXCEPT ![h] = waits /\ ~ready]
  /\ running' = ready
  /\ turn' = IF ready THEN turn ELSE turn + 1
  /\ anyRan' = (anyRan \/ ready)
  /\ budget' = IF ready THEN Quantum ELSE budget
  /\ UNCHANGED <<roundMax, idle, status, entry, halted, timer, world>>

CanStep(h) ==
  /\ status = "on" /\ running /\ turn = h
  /\ budget > 0 /\ ~parked[h] /\ ~halted[h]
  /\ waiting[h] => pend[h] # {}

\* Mutant: every turn is followed by the first hart's.
EndTurnFirst ==
  /\ status = "on" /\ running /\ ~CanStep(turn)
  /\ running' = FALSE /\ budget' = 0
  /\ turn' = 0
  /\ roundMax' = Max({roundMax, Quantum - budget})
  /\ UNCHANGED <<anyRan, idle, status, mailbox, waiting, pend, sie, halted,
                 timer, stale, world>>

\* The hart's quantum is used up, or it parked, halted or sleeps.
EndTurn ==
  /\ status = "on" /\ running /\ ~CanStep(turn)
  /\ running' = FALSE /\ budget' = 0
  /\ turn' = turn + 1
  /\ roundMax' = Max({roundMax, Quantum - budget})
  /\ UNCHANGED <<anyRan, idle, status, mailbox, waiting, pend, sie, halted,
                 timer, stale, world>>

\* Mutant: only the harts asked whether to stop.
NextRoundHartsOnly(idle1) ==
  /\ turn' = 0 /\ anyRan' = FALSE /\ roundMax' = 0 /\ idle' = idle1
  /\ status' = IF \E h \in H : halted[h] THEN "halted" ELSE "on"
  /\ UNCHANGED <<running, budget, mailbox, waiting, sie, halted, stale>>

\* check_stop() and the start of the next round.
NextRound(idle1) ==
  /\ turn' = 0 /\ anyRan' = FALSE /\ roundMax' = 0 /\ idle' = idle1
  /\ status' = IF off' \/ \E h \in H : halted[h] THEN "halted" ELSE "on"
  /\ UNCHANGED <<running, budget, mailbox, waiting, sie, halted, stale>>

BusyRound ==
  /\ status = "on" /\ turn = N /\ anyRan
  /\ poll_devices(line, expected, Ticked(roundMax), off)
  /\ NextRound(0)

\* Mutant: only the boot hart's deadline looked at.
DeadlinesBoot == {timer[0]} \cap 1 .. Horizon

\* What fast_forward_idle() may skip to: deadlines of harts that are not parked.
Deadlines == {timer[h] : h \in {g \in H : ~parked[g]}} \cap 1 .. Horizon

\* Nothing ran this round.
Idle == status = "on" /\ turn = N /\ ~anyRan
Owed == expected \cap {"reply", "key"} # {}

\* io_pending() or a live console: let real time pass.
AwaitOutside ==
  /\ Idle /\ Owed
  /\ poll_devices(line, expected, Ticked(OutsideTick), off)
  /\ NextRound(0)

FastForward ==
  /\ Idle /\ ~Owed /\ Deadlines # {}
  /\ poll_devices(line, expected, Ticked(Min(Deadlines)), off)
  /\ NextRound(idle)

IdleAgain ==
  /\ Idle /\ ~Owed /\ Deadlines = {} /\ idle < IdleLimit
  /\ poll_devices(line, expected, timer, off)
  /\ NextRound(idle + 1)

Stall ==
  /\ Idle /\ ~Owed /\ Deadlines = {} /\ idle = IdleLimit
  /\ status' = "stalled" /\ idle' = idle + 1
  /\ UNCHANGED <<turn, running, anyRan, roundMax, budget, mailbox, waiting, pend,
                 sie, halted, timer, stale, world>>

\* run() has returned.
Returned == status # "on" /\ UNCHANGED vars

-----------------------------------------------------------------------------
(* Instructions.  A hart's step uses one unit of its budget and ends any wait; *)
(* an interrupt that is pending and allowed is taken in place of the step.     *)

Interrupted(h) == sie[h] /\ pend[h] # {}

Step(h, waits) ==
  /\ CanStep(h)
  /\ budget' = budget - 1
  /\ waiting' = [waiting EXCEPT ![h] = waits]
  /\ UNCHANGED turns

Instr(h) == Step(h, FALSE) /\ ~Interrupted(h)

TakeInterrupt(h) ==
  /\ Step(h, FALSE) /\ Interrupted(h)
  /\ sie' = [sie EXCEPT ![h] = FALSE]
  /\ UNCHANGED <<mailbox, pend, halted, timer, stale, world>>

\* Any instruction that touches nothing modelled here.
Compute(h) ==
  /\ Instr(h)
  /\ UNCHANGED <<mailbox, pend, sie, halted, timer, stale, world>>

EnableInterrupts(h) ==
  /\ Instr(h)
  /\ sie' = [sie EXCEPT ![h] = TRUE]
  /\ UNCHANGED <<mailbox, pend, halted, timer, stale, world>>

ClearSsip(h) ==
  /\ Instr(h)
  /\ pend' = [pend EXCEPT ![h] = @ \ {"ssip"}]
  /\ UNCHANGED <<mailbox, sie, halted, timer, stale, world>>

\* WFI, and the retentive hart_suspend.
Wfi(h) ==
  /\ Step(h, TRUE) /\ ~Interrupted(h)
  /\ UNCHANGED <<mailbox, pend, sie, halted, timer, stale, world>>

set_timer(h, t) ==
  /\ Instr(h)
  /\ timer' = [timer EXCEPT ![h] = t]
  /\ pend' = [pend EXCEPT ![h] = @ \ {"stip"}]
  /\ UNCHANGED <<mailbox, sie, halted, stale, world>>

\* Mutant: a message replaces the ones already in the mailbox.
PostReplace(T, m) == [h \in H |-> IF h \in T THEN {m} ELSE mail[h]]

Post(T, m) == [h \in H |-> IF h \in T THEN mail[h] \cup {m} ELSE mail[h]]

send_ipi(h, T) ==
  /\ Instr(h)
  /\ mail' = Post(T \ {h}, "ipi")
  /\ pend' = IF h \in T THEN [pend EXCEPT ![h] = @ \cup {"ssip"}] ELSE pend
  /\ UNCHANGED <<parked, entry, sie, halted, timer, stale, world>>

\* Mutant: sleeping harts are not sent the fence.
remote_fenceAwake(h, T) ==
  /\ Instr(h)
  /\ mail' = Post({g \in T \ {h} : ~waiting[g]}, "fence")
  /\ stale' = [g \in H |-> IF g = h THEN stale[h] /\ h \notin T ELSE stale[g] \/ g \in T]
  /\ UNCHANGED <<parked, entry, pend, sie, halted, timer, world>>

remote_fence(h, T) ==
  /\ Instr(h)
  /\ mail' = Post(T \ {h}, "fence")
  /\ stale' = [g \in H |-> IF g = h THEN stale[h] /\ h \notin T ELSE stale[g] \/ g \in T]
  /\ UNCHANGED <<parked, entry, pend, sie, halted, timer, world>>

\* Mutant: the target stays parked until it picks the message up.
hart_startLate(h, t, a) ==
  /\ Instr(h)
  /\ IF parked[t]
       THEN /\ entry' = [entry EXCEPT ![t] = a]
            /\ mail' = Post({t}, "start")
            /\ UNCHANGED parked
       ELSE UNCHANGED mailbox
  /\ UNCHANGED <<pend, sie, halted, timer, stale, world>>

\* hart_start answers ALREADY_AVAILABLE, and does nothing, if t is not parked.
hart_start(h, t, a) ==
  /\ Instr(h)
  /\ IF parked[t]
       THEN /\ entry' = [entry EXCEPT ![t] = a]
            /\ mail' = Post({t}, "start")
            /\ parked' = [parked EXCEPT ![t] = FALSE]
       ELSE UNCHANGED mailbox
  /\ UNCHANGED <<pend, sie, halted, timer, stale, world>>

hart_stop(h) ==
  /\ Instr(h)
  /\ parked' = [parked EXCEPT ![h] = TRUE]
  /\ UNCHANGED <<mail, entry, pend, sie, halted, timer, stale, world>>

system_reset(h) ==
  /\ Instr(h)
  /\ halted' = [halted EXCEPT ![h] = TRUE]
  /\ UNCHANGED <<mailbox, pend, sie, timer, stale, world>>

\* A device register access: ask the network, arm the alarm, acknowledge the
\* interrupt or power off.  The devices are polled before the next instruction.
DeviceAccess(h) ==
  /\ Instr(h)
  /\ \/ \E x \in Outside \ {"key"} : poll_devices(line, expected \cup {x}, timer, off)
     \/ line /\ poll_devices(FALSE, expected, timer, off)
     \/ poll_devices(line, expected, timer, TRUE)
  /\ UNCHANGED <<mailbox, sie, halted, stale>>

Hart(h) ==
  \/ TakeInterrupt(h) \/ Compute(h) \/ EnableInterrupts(h) \/ ClearSsip(h) \/ Wfi(h)
  \/ \E t \in Delays : set_timer(h, t)
  \/ \E T \in SUBSET H \ {{}} : send_ipi(h, T) \/ remote_fence(h, T)
  \/ \E t \in H, a \in Entries : hart_start(h, t, a)
  \/ hart_stop(h) \/ system_reset(h) \/ DeviceAccess(h)

Next ==
  \/ Pick \/ EndTurn \/ BusyRound
  \/ AwaitOutside \/ FastForward \/ IdleAgain \/ Stall \/ Returned
  \/ \E h \in H : Hart(h)

\* The host thread keeps running the loop.
Spec == Init /\ [][Next]_vars /\ WF_vars(Next)

-----------------------------------------------------------------------------
(* Properties. *)

\* Every field holds a value of its Rust type.
TypeOK ==
  /\ turn \in 0 .. N /\ running \in BOOLEAN /\ budget \in 0 .. Quantum
  /\ anyRan \in BOOLEAN /\ roundMax \in 0 .. Quantum /\ idle \in 0 .. IdleLimit + 1
  /\ status \in {"on", "halted", "stalled"}
  /\ parked \in [H -> BOOLEAN] /\ entry \in [H -> Entries]
  /\ mail \in [H -> SUBSET {"ipi", "fence", "start"}]
  /\ waiting \in [H -> BOOLEAN] /\ sie \in [H -> BOOLEAN] /\ halted \in [H -> BOOLEAN]
  /\ pend \in [H -> SUBSET {"ssip", "stip", "seip"}]
  /\ timer \in [H -> 0 .. Never] /\ stale \in [H -> BOOLEAN]
  /\ line \in BOOLEAN /\ expected \in SUBSET Outside /\ off \in BOOLEAN

\* "The target does it before it next runs" (sbi.rs:195): no hart executes while a
\* fence, an IPI or a start aimed at it is still undelivered.
Running(h) == running /\ turn = h
DeliveredBeforeRunning == \A h \in H : Running(h) => mail[h] = {} /\ ~stale[h]

\* Two harts that race to start a third do not both win: from the call that
\* succeeds until the started hart picks it up, its start address stands.
StartStands ==
  [][\A h \in H : "start" \in mail[h] /\ "start" \in mail'[h] => entry'[h] = entry[h]]_vars

\* The machine is declared stalled only when every hart is parked or asleep with no
\* message, no interrupt and no deadline, no console and no answer outstanding.
StallIsJustified ==
  status = "stalled" =>
    /\ \A h \in H : /\ mail[h] = {}
                    /\ parked[h] \/ (waiting[h] /\ pend[h] = {} /\ timer[h] = Never)
    /\ expected \cap {"key", "reply"} = {}

\* "the run ended because nothing could ever execute again" (platform.rs:161).
NothingCanWake == status = "stalled" => expected = {}

\* No wake-up is lost: an IPI reaches its target, and finds it awake or wakes it.
NoLostWakeup ==
  \A h \in H : "ipi" \in mail[h] ~>
    status # "on" \/ parked[h] \/ ("ssip" \in pend[h] /\ ~waiting[h])

\* A started hart runs.
StartedRuns == \A h \in H : "start" \in mail[h] ~> status # "on" \/ Running(h)

\* A sleeping hart with a deadline is woken, whether the others compute, sleep too,
\* or wait for the outside world; the clock cannot stop short of it.
DeadlineWakes ==
  \A h \in H : waiting[h] /\ timer[h] # Never ~> status # "on" \/ ~waiting[h]

\* A request to stop ends the run whatever the harts do: "the one request a running
\* guest must not be able to refuse" (platform.rs:292).
StopIsHonoured == off \/ (\E h \in H : halted[h]) ~> status = "halted"
=============================================================================
