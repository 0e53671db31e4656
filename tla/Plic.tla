-------------------------------- MODULE Plic --------------------------------
(***************************************************************************)
(* The platform-level interrupt controller (src/plic.rs).                  *)
(*                                                                         *)
(* Bitmaps are sets of source numbers.  Contexts 2h and 2h+1 are hart h's  *)
(* machine and supervisor contexts.  A register access that the code       *)
(* ignores (source 0 or out of range, a context or word that does not      *)
(* exist, a width other than 4) changes nothing and is a stuttering step.  *)
(***************************************************************************)
EXTENDS Integers

CONSTANTS
  Harts,           \* number of harts
  WordBits,        \* sources per 32-bit bitmap register
  MaxLevel,        \* largest value of a priority or threshold register
  PriorityWrites,  \* <<irq, level>>         the guest may store
  EnableWrites,    \* <<context, word, set>> the guest may store
  ThresholdWrites  \* <<context, level>>     the guest may store

MaxIrqs == 2 * WordBits
Levels == 0 .. MaxLevel
Bits == 0 .. MaxIrqs - 1
Irqs == 1 .. MaxIrqs - 1
Contexts == 0 .. 2 * Harts - 1
Word(w) == (w * WordBits) .. (w * WordBits + WordBits - 1)

ASSUME PlicAssumption ==
  /\ Harts \in Nat \ {0}
  /\ WordBits \in Nat \ {0}
  /\ MaxLevel \in Nat
  /\ PriorityWrites \subseteq Bits \X Levels
  /\ \A e \in EnableWrites : /\ e \in Contexts \X {0, 1} \X SUBSET Bits
                             /\ e[3] \subseteq Word(e[2])
  /\ ThresholdWrites \subseteq Contexts \X Levels

VARIABLES
  priority, line, pending, claimed,
  enabled, threshold,      \* per context
  best, dirty,             \* the cached arbitration, per context
  eip                      \* MEIP (even contexts) and SEIP (odd) in the harts' mip

vars == <<priority, line, pending, claimed, enabled, threshold, best, dirty, eip>>
config == <<priority, enabled, threshold>>

Init ==
  /\ priority = [i \in Bits |-> 0]
  /\ line = {} /\ pending = {} /\ claimed = {}
  /\ enabled = [c \in Contexts |-> {}]
  /\ threshold = [c \in Contexts |-> 0]
  /\ best = [c \in Contexts |-> 0]
  /\ dirty = TRUE
  /\ eip = [c \in Contexts |-> FALSE]

-----------------------------------------------------------------------------
(* Arbitration. *)

Outranks(i, j) == priority[i] > priority[j] \/ (priority[i] = priority[j] /\ i < j)

Highest(S) ==
  IF S = {} THEN 0
            ELSE CHOOSE i \in S : \A j \in S \ {i} : Outranks(i, j)

\* Mutants: the threshold met rather than exceeded; sources in service not masked.
CandidatesMeetThreshold(c) ==
  {i \in Irqs : /\ i \in (pending \cap enabled[c]) \ claimed
                /\ priority[i] # 0
                /\ priority[i] >= threshold[c]}

CandidatesInService(c) ==
  {i \in Irqs : i \in pending \cap enabled[c] /\ priority[i] > threshold[c]}

Candidates(c) ==
  {i \in Irqs : /\ i \in (pending \cap enabled[c]) \ claimed
                /\ priority[i] # 0
                /\ priority[i] > threshold[c]}

scan(c) == Highest(Candidates(c))

\* best_irq() answers from the cache, rescanning every context if it is dirty.
Cached == IF dirty THEN [c \in Contexts |-> scan(c)] ELSE best

-----------------------------------------------------------------------------
(* What devices, the platform and the guest do to the controller. *)

set_pending(irq, asserted) ==
  /\ line' = IF asserted THEN line \cup {irq} ELSE line \ {irq}
  /\ pending' = IF asserted THEN pending \cup {irq} ELSE pending \ {irq}
  /\ dirty' = (dirty \/ line' # line \/ pending' # pending)
  /\ UNCHANGED <<config, claimed, best, eip>>

update(h) ==
  /\ best' = Cached
  /\ dirty' = FALSE
  /\ eip' = [c \in Contexts |->
               IF c \in {2 * h, 2 * h + 1} THEN best'[c] # 0 ELSE eip[c]]
  /\ UNCHANGED <<config, line, pending, claimed>>

\* Mutant: the test for "nothing to claim" dropped.
claimUnguarded(c) ==
  /\ best' = Cached
  /\ claimed' = claimed \cup {Cached[c]}
  /\ pending' = pending \ {Cached[c]}
  /\ dirty' = TRUE
  /\ UNCHANGED <<config, line, eip>>

claim(c) ==
  LET irq == Cached[c] IN
  /\ best' = Cached
  /\ IF irq # 0
       THEN /\ claimed' = claimed \cup {irq}
            /\ pending' = pending \ {irq}
            /\ dirty' = TRUE
       ELSE /\ dirty' = FALSE
            /\ UNCHANGED <<claimed, pending>>
  /\ UNCHANGED <<config, line, eip>>

\* Mutant: "modelling only the clear" (plic.rs:173).
completeClearOnly(irq) ==
  /\ claimed' = claimed \ {irq}
  /\ dirty' = TRUE
  /\ UNCHANGED <<config, line, pending, best, eip>>

complete(irq) ==
  /\ claimed' = claimed \ {irq}
  /\ pending' = IF irq \in line THEN pending \cup {irq} ELSE pending
  /\ dirty' = TRUE
  /\ UNCHANGED <<config, line, best, eip>>

StorePriority(irq, level) ==
  /\ priority' = [priority EXCEPT ![irq] = level]
  /\ dirty' = TRUE
  /\ UNCHANGED <<line, pending, claimed, enabled, threshold, best, eip>>

StoreEnable(c, w, set) ==
  /\ enabled' = [enabled EXCEPT ![c] = (@ \ Word(w)) \cup set]
  /\ dirty' = TRUE
  /\ UNCHANGED <<priority, line, pending, claimed, threshold, best, eip>>

\* Mutant: a register write that forgets to invalidate the cache.
StoreThresholdClean(c, level) ==
  /\ threshold' = [threshold EXCEPT ![c] = level]
  /\ UNCHANGED <<priority, line, pending, claimed, enabled, best, dirty, eip>>

StoreThreshold(c, level) ==
  /\ threshold' = [threshold EXCEPT ![c] = level]
  /\ dirty' = TRUE
  /\ UNCHANGED <<priority, line, pending, claimed, enabled, best, eip>>

Next ==
  \/ \E irq \in Irqs, asserted \in BOOLEAN : set_pending(irq, asserted)
  \/ \E h \in 0 .. Harts - 1 : update(h)
  \/ \E c \in Contexts : claim(c)
  \/ \E irq \in Irqs : complete(irq)
  \/ \E w \in PriorityWrites : StorePriority(w[1], w[2])
  \/ \E w \in EnableWrites : StoreEnable(w[1], w[2], w[3])
  \/ \E w \in ThresholdWrites : StoreThreshold(w[1], w[2])

Spec == Init /\ [][Next]_vars

-----------------------------------------------------------------------------
(* Properties. *)

\* Every field holds a value of its Rust type.
TypeOK ==
  /\ priority \in [Bits -> Levels]
  /\ line \subseteq Irqs /\ pending \subseteq Irqs /\ claimed \subseteq Irqs
  /\ enabled \in [Contexts -> SUBSET Bits]
  /\ threshold \in [Contexts -> Levels]
  /\ best \in [Contexts -> Bits]
  /\ dirty \in BOOLEAN
  /\ eip \in [Contexts -> BOOLEAN]

\* Level triggering survives the claim/complete handshake: outside a service the
\* pending bit is exactly the device's line, so an interrupt asserted before,
\* during or after a handler is neither dropped nor invented (plic.rs:46-49, 171-178).
PendingFollowsLine ==
  /\ pending \subseteq line
  /\ line \ claimed \subseteq pending

\* A clean cache is the answer a scan would give now: no write to any of the six
\* inputs of arbitration forgets to invalidate it (plic.rs:55-59).
CacheCoherent == ~dirty => \A c \in Contexts : best[c] = scan(c)

\* A claim never hands out a source that is in service, deasserted, disabled,
\* masked by its priority or outranked: what enters service in a step is what the
\* lines and registers of that very moment say, although the claim read a cache.
Eligible(c, i) ==
  /\ i \in line \ claimed
  /\ i \in enabled[c]
  /\ priority[i] > threshold[c]
ClaimIsCurrent ==
  [][\A i \in claimed' \ claimed :
       \E c \in Contexts : /\ Eligible(c, i)
                           /\ \A j \in Irqs \ {i} : Eligible(c, j) => Outranks(i, j)]_vars

\* Seen from outside the controller has no pending bits and no cache: it offers what
\* the lines assert and no handler is servicing (module PlicLevel).
Level == INSTANCE PlicLevel
ImplementsLevel == Level!Spec
=============================================================================
