# TLA+ models of the RISC-V emulator

The repository is a deterministic RV64 machine emulator: harts taking turns on one
host thread, an Sv39 MMU, CLINT, PLIC, UART, RTC, syscon and virtio devices, SBI
firmware calls, a user-mode network and a GDB stub. This directory models the parts
whose correctness depends on the order in which things happen. Paths below are
relative to the crate's `src/`.

## The system and what can go wrong in it

| Part | State | Operations | What is hard about it |
|---|---|---|---|
| PLIC (`plic.rs`) | priorities, enables, thresholds, line/pending/claimed bitmaps, cached arbitration | `set_pending`, `claim`, `complete`, register writes, `update` | level triggering across a service; six inputs that must each invalidate the cache |
| Scheduler (`platform.rs`) | whose turn, budget, idle rounds | rounds, device polls, fast-forward, stop checks | lost wake-ups, time that stops short of a deadline, false stalls |
| Mailboxes, SBI (`cpu/mod.rs`, `sbi.rs`) | parked, pending messages, start address | IPI, remote fence, hart start/stop/suspend | messages racing the target's own sleep, stop and start |
| Clock, CLINT (`clint.rs`) | mtime, live, subtick, mtimecmp, msip | tick, advance, register access | time as several harts read it inside one round |
| LR/SC (`cpu/exec.rs`, `cpu/mod.rs`) | reservation per hart | LR, SC, stores, traps | another hart's or a device's store between LR and SC |
| Decode cache (`cpu/mod.rs`, `dram.rs`) | cached instructions, code pages, epoch | fill, store, flush | code changed by another hart, by DMA, or by remapping |
| MMU (`mmu.rs`) | TLB, page tables | translate, flush, A/D updates | stale entries, a dirty-bit update writing back a stale entry |
| Traps, CSRs (`cpu/mod.rs`, `csr.rs`) | privilege, mstatus, delegation | trap entry, xRET, CSR access | nesting, delegation, masks |
| Virtio (`virtio/`) | rings, interrupt status, backlog | notify, service, poll, reset | index wrap, interrupt suppression, reset in flight |
| User-mode network (`net/`) | flows, sequence numbers, queues | frames, socket pump | loss, duplicates, reordering, windows, close |
| UART, RTC, syscon | FIFOs, line, alarm | register access, host input | level interrupts, escape sequences, alarm races |
| GDB stub (`gdb.rs`) | breakpoints, watches, stop reason | packets, resume | a stop in the middle of a round |
| Decoder, ALU, soft float, bit manipulation, ELF loader, device tree | none | pure functions | arithmetic corner cases |

`PROJECT.json` lists every part, the hazards with their source lines and the
properties that cover them.

## Modules

| Module | Models | Checked by | Proved in |
|---|---|---|---|
| `Plic` | the interrupt controller, one action per operation and register write | `MCPlic` | `PlicProofs` |
| `PlicLevel` | what the controller promises: level-triggered arbitration without a cache | as a property of `Plic` | `PlicProofs` |
| `Scheduler` | `Platform::run`, `poll_devices`, `check_stop`, mailboxes, WFI and the SBI calls | `MCScheduler` | `SchedulerProofs` |
| `Clock` | the machine-wide clock as rounds, turns and a debugger drive it | `MCClock` | `ClockProofs` |
| `Atomics` | stores, LR/SC and reservations of several harts | `MCAtomics` | `AtomicsProofs` |
| `CodeCache` | decode caches, code-page marks and RAM's code epoch | `MCCodeCache` | `CodeCacheProofs` |
| `DivLemmas` | facts about integer division | — | itself |

Each module is an abstraction of its own part; they are not composed with one another
yet. They meet in contracts: `Scheduler` sees the PLIC as a line that is up or down,
`CodeCache` sees the TLB as "a frame the page table has named since the last flush", and
`Scheduler`'s `stale` stands for the caches that `CodeCache` details.

**Plic.** `line`, `pending` and `claimed` are the bitmaps as sets, the cached winner per
context and `dirty` are variables of their own. A claim answers from the cache, as
`best_irq` does. `ScanLoop` in `MCPlic` is the loop of `scan`, compared with the
declarative definition the model uses.

**Scheduler.** One step is one instruction, one poll or one decision of the run loop.
`mail` holds the flags of a mailbox, `pend` the enabled pending interrupts, `timer` the
ticks left to a hart's deadline (so time itself is not a variable), `expected` what the
outside world may still do. The step budget, the debugger's hook and the fatal-trap exit
are left out here; the last two are in `Clock`.

**Clock.** `mtime`, `live`, `ipt` and `subtick` are the fields of `Clock`. The rate `ipt` and
whether a debugger's hook is installed (`hooked`) are chosen before the run; `turn`, `used`,
`roundMax` and `anyRan` the locals of `run`. `seen` records what each hart last read and
`elapsed` the instructions the clock should stand for. A trap uses budget but retires
nothing, so `live` may lag `used`. Under a debugger the run loop executes one instruction
at a time, and a turn goes on only after an instruction that touched a device.

**Atomics.** `valid` and `raddr` are the hart's own half of a reservation, `res` the
granule in its mailbox. Values are left out; `lr` and `since` record which LR is
outstanding and who wrote its granule since. A store across pages writes byte by byte until
the bus refuses one. An access that faults in translation changes nothing but what the trap does (`enter_trap`).

**CodeCache.** Memory is a sequence of halfwords; a `Long` one begins a 32-bit
instruction. An empty entry is an empty set, so the sentinel address `!0` that marks one
in the code is not represented (listed as a hazard). A page-table walk that sets an
accessed bit during a fetch can bump the epoch between the check and the fill.

## Runs

| Run | Question | Result |
|---|---|---|
| `plic` | is level triggering kept across services, is the cache ever stale, does it implement `PlicLevel`? | holds |
| `scheduler` | are messages delivered before their target runs, is a stall justified? | holds |
| `scheduler_starts` | can a second hart's start overwrite the first one's before a third picks it up? | no |
| `scheduler_live` | is any wake-up, start, deadline or stop lost? | none is |
| `scheduler_stall` | can anything wake a machine declared stalled? | yes, the RTC alarm (finding) |
| `clock` | at several rates: is an instruction lost, does time go back, do two reads differ, is what was read reached, how far can a debugger's stops set time back? | none is, no, they do, it is, a quantum at most |
| `clock_debug_reads` | do two reads still differ under a debugger? | no (finding) |
| `atomics` | can an SC succeed over another hart's store, or without its LR? | no |
| `atomics_any_write` | does *any* write break a reservation? | no: devices and walks do not (finding) |
| `atomics_physical` | does an SC write the granule that was reserved? | not after a satp switch (finding) |
| `code_cache`, `code_cache_wide` | is a cached instruction always one a fetch could return? | holds |

### Bounds

- `plic`: one hart (two contexts), two words of enables, priorities up to 2. Two contexts
  and ties in priority are what arbitration distinguishes.
- `scheduler`, `scheduler_live`: two harts, a quantum of two, deadlines up to three ticks
  away, so a deadline can fall inside, at and beyond a round. `IdleLimit` is the code's
  own 4.
- `scheduler_starts`: three harts and two start addresses, so that two running harts can
  ask for different addresses while the third is parked. With a quantum of one a
  hart makes one call in a turn, and the third hart's turn comes before the caller's next,
  so a second request always comes from the other hart. Timers and the outside world, which
  play no part in starting a hart, are left out.
- `scheduler_stall`: two harts and an alarm are enough for the counterexample.
- `clock`: two harts, a quantum of three, one, two or three instructions per tick, so a
  round can leave a remainder or none. At one per tick `ReadsDiffer` is the stronger claim;
  at two and three reads may repeat, and `TimeNeverBack` is what remains. There are
  initial states with a debugger and without. `MaxTime` bounds the clock. A round that would
  pass it cannot end, so these runs do not check for deadlock; the code has no such state.
- `atomics*`: two harts, two pages of two granules of two bytes. One mapping exchanges the
  frames, so harts reach one frame by two addresses; the other puts the second page where
  the bus does not answer.
- `code_cache`: two harts with pages of one halfword, where every 32-bit instruction
  straddles. `code_cache_wide`: one hart, pages of two halfwords, two slots, machine and
  supervisor mode. `MaxEpoch` allows two invalidations after the initial epoch of 1.

### Fairness

Only `Scheduler` states fairness: `WF_vars(Next)`, that the run loop keeps taking steps.
`run` is a loop on one thread with no blocking call but bounded sleeps, so it does. No
hart, message or device is assumed to get its share: that is what the properties show.

## Proofs

The theorems hold for every value of the constants that satisfies the modules' named
assumptions (positive sizes, well-typed sets). Each is an invariance argument: `InvInit`,
`InvStep` with a step per action (`InitHolds` and `StepHolds` for `Scheduler`), and the
property from the invariant.

- **PlicProofs.** The invariant is `TypeOK`, `PendingFollowsLine` and `CacheCoherent`
  together. It gives `LevelTriggered`, `CacheNeverStale`, the action property
  `ClaimsAreCurrent` and, step by step, the refinement `PlicRefinesLevel`.
- **SchedulerProofs.** `StartsStand`, an action property, needs that a start on its way has
  already unparked its hart (`StartUnparks`), which is what refuses a second one.
  `MailIsDelivered` needs what a mailbox stands for: a fence that is not yet performed is in
  its hart's mailbox (`FencesAreMailed`), and a hart runs only in a round that counts as
  busy (`TurnIsRun`). For `StallsAreJustified` the state in which the machine gives up says
  too little: in a round in which nothing has run yet, the harts already asked are at rest
  and the deadlines that have passed are pending (`RoundIsQuiet`), and a stalled machine
  went through a whole such round with no deadline ahead and no answer owed
  (`StallIsQuiet`).
- **ClockProofs.** `RemainderKept` needs only the types. `BoundedBackstep` carries the
  bound itself. For `ReadsMonotonic` and `ReadsCaughtUp` the invariant must say how far
  ahead of `mtime` each hart may have read *at this point of the round*: the larger of the
  longest turn so far and, for the running hart, its own progress (`Caught`). Without it
  the end of a round has nothing to compare with. Both speak of machines
  without a debugger, and `clock_debug_reads` shows why.
- **AtomicsProofs.** `Coupled` relates the two halves of a reservation to the history: a
  reservation that would let an SC succeed has its LR outstanding, on that granule, with
  no hart's store since. The two theorems are its two conclusions.
- **CodeCacheProofs.** `HitIsFetch` is not inductive: an entry must also lie in a *marked*
  page, or a later write there would go unnoticed, and only caches whose epoch is current
  say anything (`Coherent`). `CacheIsTransparent` follows.

Only model-checked: `Scheduler`'s four liveness properties (fairness is out of this prover's
reach), `ReadsDiffer`, and `ScanLoopIsHighest` (what a
fold over a sequence computes needs induction over data).

## Findings

Each is a run that TLC refutes, with the sentence it refutes quoted in `PROJECT.json`.
All four are disagreements between a comment or a document and the code, in corners that
ordinary guests seldom reach: the RTC alarm and stalls; repeated times under a debugger;
reservations that survive device and page-table writes; an SC after an address-space
switch.

## Plan

Built: the modules above. Next, in this order:

1. `Tlb`: walk, tags, flushes, write-back of A and D from a cached entry; shown to meet the
   contract `CodeCache` assumes.
2. `Trap`: entry, delegation, nesting, xRET, masks of `mstatus`, `mip` and `mie`.
3. `Virtq` with the block and network service loops, composed with `Plic`: no completion
   is lost across suppression, ring wrap and reset.
4. `TcpFlow`: one connection with loss, duplication and reordering, against an abstract
   byte stream. `CowDisk`: the snapshot overlay against a plain disk.
5. `Uart`, `Rtc`, `Syscon`, `Gdb`, and the CLINT's register lanes.
6. Pure algorithms over bounded inputs: sequence-number comparison, checksums, bit
   manipulation.
7. Proofs for `Tlb` and `Virtq`.

Not planned: soft-float and decoding of whole words (bit-exact functions on 64 bits, out
of TLC's reach and covered by the repository's vectors), the ELF loader and device-tree
writer (sequential set-up), and the command line (I/O).
