------------------------------- MODULE MCPlic -------------------------------
(* One hart (an M and an S context), sources 1..3 in two register words.     *)
EXTENDS Plic, SequencesExt

MCPriorityWrites == {<<1, 1>>, <<2, 0>>, <<2, 2>>, <<3, 1>>}
MCEnableWrites == {<<0, 0, {0, 1}>>, <<0, 0, {}>>, <<0, 1, {2, 3}>>, <<1, 1, {2, 3}>>}
MCThresholdWrites == {<<0, 0>>, <<0, 1>>}

\* Mutant: a later source of equal priority displaces an earlier one.
ScanLoopLast(c) ==
  LET Visit(acc, irq) ==
        IF /\ irq \in (pending \cap enabled[c]) \ claimed
           /\ priority[irq] > threshold[c]
           /\ priority[irq] >= acc.best_priority
        THEN [best |-> irq, best_priority |-> priority[irq]]
        ELSE acc
  IN FoldLeft(Visit, [best |-> 0, best_priority |-> 0], [i \in Irqs |-> i]).best

\* The loop of scan() as the code runs it.
ScanLoop(c) ==
  LET Visit(acc, irq) ==
        IF /\ irq \in (pending \cap enabled[c]) \ claimed
           /\ ~(priority[irq] = 0 \/ priority[irq] <= threshold[c])
           /\ priority[irq] > acc.best_priority
        THEN [best |-> irq, best_priority |-> priority[irq]]
        ELSE acc
  IN FoldLeft(Visit, [best |-> 0, best_priority |-> 0], [i \in Irqs |-> i]).best

\* The loop of scan() finds the highest-priority candidate, the lowest-numbered on
\* a tie, whatever the register contents the machine reaches (plic.rs:134-150).
ScanLoopIsHighest == \A c \in Contexts : ScanLoop(c) = scan(c)
=============================================================================
