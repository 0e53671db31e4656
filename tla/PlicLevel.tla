------------------------------ MODULE PlicLevel ------------------------------
(***************************************************************************)
(* What the interrupt controller promises: level-triggered arbitration.    *)
(* The only interrupt state is which lines are asserted and which sources  *)
(* a handler is servicing; a source is offered to a context while its line *)
(* is asserted, no handler has it, and its priority exceeds the threshold. *)
(* Module Plic implements this with pending bits and a cached scan.        *)
(***************************************************************************)
EXTENDS Integers

CONSTANTS Harts, WordBits, MaxLevel, PriorityWrites, EnableWrites, ThresholdWrites

VARIABLES priority, line, claimed, enabled, threshold, eip

vars == <<priority, line, claimed, enabled, threshold, eip>>

Irqs == 1 .. 2 * WordBits - 1
Contexts == 0 .. 2 * Harts - 1
Word(w) == (w * WordBits) .. (w * WordBits + WordBits - 1)

Init ==
  /\ priority = [i \in 0 .. 2 * WordBits - 1 |-> 0]
  /\ line = {} /\ claimed = {}
  /\ enabled = [c \in Contexts |-> {}]
  /\ threshold = [c \in Contexts |-> 0]
  /\ eip = [c \in Contexts |-> FALSE]

Offered(c) ==
  {i \in Irqs : i \in (line \cap enabled[c]) \ claimed /\ priority[i] > threshold[c]}

First(c, i) ==
  /\ i \in Offered(c)
  /\ \A j \in Offered(c) \ {i} :
       priority[i] > priority[j] \/ (priority[i] = priority[j] /\ i < j)

Drive(irq, asserted) ==
  /\ line' = IF asserted THEN line \cup {irq} ELSE line \ {irq}
  /\ UNCHANGED <<priority, claimed, enabled, threshold, eip>>

Signal(h) ==
  /\ eip' = [c \in Contexts |-> IF c \in {2 * h, 2 * h + 1} THEN Offered(c) # {} ELSE eip[c]]
  /\ UNCHANGED <<priority, line, claimed, enabled, threshold>>

Take(c) ==
  /\ \E i \in Irqs : First(c, i) /\ claimed' = claimed \cup {i}
  /\ UNCHANGED <<priority, line, enabled, threshold, eip>>

Finish(irq) ==
  /\ claimed' = claimed \ {irq}
  /\ UNCHANGED <<priority, line, enabled, threshold, eip>>

Configure ==
  /\ \/ \E w \in PriorityWrites : /\ priority' = [priority EXCEPT ![w[1]] = w[2]]
                                  /\ UNCHANGED <<enabled, threshold>>
     \/ \E w \in EnableWrites : /\ enabled' = [enabled EXCEPT ![w[1]] = (@ \ Word(w[2])) \cup w[3]]
                                /\ UNCHANGED <<priority, threshold>>
     \/ \E w \in ThresholdWrites : /\ threshold' = [threshold EXCEPT ![w[1]] = w[2]]
                                   /\ UNCHANGED <<priority, enabled>>
  /\ UNCHANGED <<line, claimed, eip>>

Next ==
  \/ \E irq \in Irqs, asserted \in BOOLEAN : Drive(irq, asserted)
  \/ \E h \in 0 .. Harts - 1 : Signal(h)
  \/ \E c \in Contexts : Take(c)
  \/ \E irq \in Irqs : Finish(irq)
  \/ Configure

Spec == Init /\ [][Next]_vars
=============================================================================
