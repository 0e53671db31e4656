----------------------------- MODULE PlicProofs -----------------------------
(***************************************************************************)
(* The controller's invariants and its refinement of PlicLevel, for every  *)
(* number of harts and sources and every register write the guest makes.   *)
(***************************************************************************)
EXTENDS Plic, WellFoundedInduction, TLAPS

\* Every non-empty set of naturals has a least element.
LEMMA LeastNat ==
  ASSUME NEW T, T \subseteq Nat, T # {}
  PROVE  \E x \in T : \A y \in T : x <= y
<1> DEFINE R == OpToRel(<, Nat)
<1>1. IsWellFoundedOn(R, Nat)
  BY NatLessThanWellFounded
<1>2. \E x \in T : \A y \in T : ~(<<y, x>> \in R)
  <2> HIDE DEF R
  <2> QED BY <1>1, WFMin
<1>3. ASSUME NEW x \in T, NEW y \in T, ~(<<y, x>> \in R)
      PROVE  x <= y
  BY <1>3 DEF OpToRel
<1> QED BY <1>2, <1>3

\* Arbitration over a non-empty set of sources picks a member that outranks all
\* the others: the highest priority, the lowest number among equals.
LEMMA HighestIsMember ==
  ASSUME priority \in [Bits -> Levels], NEW S, S \subseteq Irqs, S # {}
  PROVE  /\ Highest(S) \in S
         /\ \A j \in S \ {Highest(S)} : Outranks(Highest(S), j)
<1>0. /\ MaxLevel \in Nat /\ WordBits \in Nat
      /\ \A i \in S : i \in Nat /\ i \in Bits /\ priority[i] \in 0 .. MaxLevel
  BY PlicAssumption DEF Bits, Irqs, MaxIrqs, Levels
<1> DEFINE Gap(i) == MaxLevel - priority[i]
           G == {Gap(i) : i \in S}
<1>1. PICK g \in G : \A y \in G : g <= y
  <2>1. G \subseteq Nat /\ G # {} BY <1>0
  <2> HIDE DEF G
  <2> QED BY <2>1, LeastNat
<1> DEFINE Top == {i \in S : Gap(i) = g}
<1>2. PICK i \in Top : \A y \in Top : i <= y
  <2>1. Top \subseteq Nat BY <1>0
  <2>2. PICK k \in S : g = Gap(k) OBVIOUS
  <2>3. Top # {} BY <2>2
  <2> HIDE DEF Top
  <2> QED BY <2>1, <2>3, LeastNat
<1>3. \A j \in S \ {i} : Outranks(i, j)
  <2> SUFFICES ASSUME NEW j \in S, j # i PROVE Outranks(i, j) OBVIOUS
  <2>1. Gap(i) <= Gap(j) BY <1>0, <1>1, <1>2
  <2>2. CASE Gap(i) = Gap(j) BY <1>0, <1>2, <2>2 DEF Outranks
  <2>3. CASE Gap(i) < Gap(j) BY <1>0, <2>3 DEF Outranks
  <2> QED BY <1>0, <2>1, <2>2, <2>3
<1> QED BY <1>2, <1>3 DEF Highest

\* A context's scan is a source on offer to it, or 0 exactly when there is none.
LEMMA ScanIsCandidate ==
  ASSUME TypeOK, NEW c \in Contexts
  PROVE  /\ scan(c) \in Bits
         /\ scan(c) = 0 <=> Candidates(c) = {}
         /\ scan(c) # 0 => /\ scan(c) \in Candidates(c)
                           /\ \A j \in Candidates(c) \ {scan(c)} : Outranks(scan(c), j)
<1>1. Candidates(c) \subseteq Irqs BY DEF Candidates
<1>2. 0 \in Bits /\ Irqs \subseteq Bits /\ 0 \notin Irqs
  BY PlicAssumption DEF Bits, Irqs, MaxIrqs
<1>3. CASE Candidates(c) = {} BY <1>2, <1>3 DEF scan, Highest
<1>4. CASE Candidates(c) # {}
  <2> DEFINE S == Candidates(c)
  <2>1. /\ Highest(S) \in S
        /\ \A j \in S \ {Highest(S)} : Outranks(Highest(S), j)
    <3> HIDE DEF S
    <3> QED BY <1>1, <1>4, HighestIsMember DEF TypeOK, S
  <2> QED BY <1>1, <1>2, <1>4, <2>1 DEF scan
<1> QED BY <1>3, <1>4

-----------------------------------------------------------------------------
(* The inductive invariant: the cache is coherent only because every write    *)
(* marks it dirty, and pending follows the lines independently of it.         *)
Inv == TypeOK /\ PendingFollowsLine /\ CacheCoherent

LEMMA CachedIsScan ==
  ASSUME Inv
  PROVE  /\ Cached \in [Contexts -> Bits]
         /\ \A c \in Contexts : Cached[c] = scan(c)
BY ScanIsCandidate DEF Inv, Cached, CacheCoherent, TypeOK

LEMMA TypeStep == Inv /\ [Next]_vars => TypeOK'
<1> SUFFICES ASSUME Inv, [Next]_vars PROVE TypeOK' OBVIOUS
<1> USE DEF TypeOK, Inv, config
<1>1. ASSUME NEW irq \in Irqs, NEW asserted \in BOOLEAN, set_pending(irq, asserted)
      PROVE TypeOK'
  BY <1>1 DEF set_pending
<1>2. ASSUME NEW h \in 0 .. Harts - 1, update(h) PROVE TypeOK'
  BY <1>2, CachedIsScan DEF update
<1>3. ASSUME NEW c \in Contexts, claim(c) PROVE TypeOK'
  <2>1. Cached[c] # 0 => Cached[c] \in Irqs
    BY CachedIsScan, ScanIsCandidate DEF Candidates
  <2> QED BY <1>3, <2>1, CachedIsScan DEF claim
<1>4. ASSUME NEW irq \in Irqs, complete(irq) PROVE TypeOK'
  BY <1>4 DEF complete
<1>5. ASSUME NEW w \in PriorityWrites, StorePriority(w[1], w[2]) PROVE TypeOK'
  BY <1>5, PlicAssumption DEF StorePriority
<1>6. ASSUME NEW w \in EnableWrites, StoreEnable(w[1], w[2], w[3]) PROVE TypeOK'
  <2>1. w[1] \in Contexts /\ w[3] \subseteq Bits BY PlicAssumption
  <2> QED BY <1>6, <2>1 DEF StoreEnable
<1>7. ASSUME NEW w \in ThresholdWrites, StoreThreshold(w[1], w[2]) PROVE TypeOK'
  BY <1>7, PlicAssumption DEF StoreThreshold
<1>8. CASE UNCHANGED vars BY <1>8 DEF vars
<1> QED BY <1>1, <1>2, <1>3, <1>4, <1>5, <1>6, <1>7, <1>8 DEF Next

\* pending and claimed change together with line so that neither drops an interrupt.
LEMMA PendingStep == Inv /\ [Next]_vars => PendingFollowsLine'
<1> SUFFICES ASSUME Inv, [Next]_vars PROVE PendingFollowsLine' OBVIOUS
<1> USE DEF Inv, PendingFollowsLine, config
<1>1. ASSUME NEW irq \in Irqs, NEW asserted \in BOOLEAN, set_pending(irq, asserted)
      PROVE PendingFollowsLine'
  BY <1>1 DEF set_pending
<1>2. ASSUME NEW h \in 0 .. Harts - 1, update(h) PROVE PendingFollowsLine'
  BY <1>2 DEF update
<1>3. ASSUME NEW c \in Contexts, claim(c) PROVE PendingFollowsLine'
  BY <1>3 DEF claim
<1>4. ASSUME NEW irq \in Irqs, complete(irq) PROVE PendingFollowsLine'
  BY <1>4 DEF complete
<1>5. CASE UNCHANGED <<line, pending, claimed>>
  BY <1>5
<1> QED BY <1>1, <1>2, <1>3, <1>4, <1>5
        DEF Next, StorePriority, StoreEnable, StoreThreshold, vars

\* What arbitration reads; while it stands still, so does every scan.
inputs == <<priority, pending, claimed, enabled, threshold>>

LEMMA ScanStable ==
  ASSUME inputs' = inputs, NEW c \in Contexts
  PROVE  scan(c)' = scan(c)
<1>1. (\A S : Highest(S)' = Highest(S)) /\ Candidates(c)' = Candidates(c)
  BY DEF inputs, Highest, Candidates, Outranks
<1> QED BY <1>1 DEF scan

\* Whatever leaves the cache clean has either just scanned or changed no input.
LEMMA CacheStep == Inv /\ [Next]_vars => CacheCoherent'
<1> SUFFICES ASSUME Inv, [Next]_vars, ~dirty' PROVE CacheCoherent' BY DEF CacheCoherent
<1>1. inputs' = inputs /\ best' = Cached => CacheCoherent'
  BY CachedIsScan, ScanStable DEF CacheCoherent
<1>2. inputs' = inputs /\ best' = best /\ dirty' = dirty => CacheCoherent'
  BY ScanStable DEF Inv, CacheCoherent
<1>3. ASSUME NEW irq \in Irqs, NEW asserted \in BOOLEAN, set_pending(irq, asserted)
      PROVE CacheCoherent'
  BY <1>2, <1>3 DEF set_pending, config, inputs, Inv, TypeOK
<1>4. ASSUME NEW h \in 0 .. Harts - 1, update(h) PROVE CacheCoherent'
  BY <1>1, <1>4 DEF update, config, inputs
<1>5. ASSUME NEW c \in Contexts, claim(c) PROVE CacheCoherent'
  BY <1>1, <1>5 DEF claim, config, inputs
<1>6. CASE UNCHANGED vars BY <1>2, <1>6 DEF vars, inputs
<1> QED BY <1>3, <1>4, <1>5, <1>6
        DEF Next, complete, StorePriority, StoreEnable, StoreThreshold

\* TypeOK, PendingFollowsLine and CacheCoherent hold together in every behaviour.
THEOREM PlicInvariant == Spec => []Inv
<1>1. Init => Inv
  <2> SUFFICES ASSUME Init PROVE Inv OBVIOUS
  <2>1. TypeOK BY PlicAssumption DEF Init, TypeOK, Bits, Irqs, MaxIrqs, Levels, Contexts
  <2> QED BY <2>1 DEF Init, Inv, PendingFollowsLine, CacheCoherent
<1>2. Inv /\ [Next]_vars => Inv'
  BY TypeStep, PendingStep, CacheStep DEF Inv
<1> QED BY <1>1, <1>2, PTL DEF Spec

\* No interrupt is dropped or invented: outside a service the pending bits are the
\* device lines, for any mix of set_pending, claim and complete.
THEOREM LevelTriggered == Spec => []PendingFollowsLine
BY PlicInvariant, PTL DEF Inv

\* The cached arbitration is never stale when best_irq() trusts it.
THEOREM CacheNeverStale == Spec => []CacheCoherent
BY PlicInvariant, PTL DEF Inv

\* With the invariant, the candidates are the sources whose line is asserted.
LEMMA CandidatesAreEligible ==
  ASSUME Inv, NEW c \in Contexts, NEW i \in Irqs
  PROVE  i \in Candidates(c) <=> Eligible(c, i)
<1>1. priority[i] \in Nat /\ threshold[c] \in Nat
  BY PlicAssumption DEF Inv, TypeOK, Levels, Bits, Irqs, MaxIrqs
<1>2. i \in pending \ claimed <=> i \in line \ claimed
  BY DEF Inv, PendingFollowsLine
<1> QED BY <1>1, <1>2 DEF Candidates, Eligible

\* claim() hands out the best eligible source of its context, or nothing.
LEMMA ClaimStep ==
  ASSUME Inv, NEW c \in Contexts, claim(c)
  PROVE  \/ claimed' = claimed
         \/ \E i \in Irqs : /\ claimed' = claimed \cup {i}
                            /\ Eligible(c, i)
                            /\ \A j \in Irqs \ {i} : Eligible(c, j) => Outranks(i, j)
<1>1. Cached[c] = scan(c) BY CachedIsScan
<1>2. CASE scan(c) = 0 BY <1>1, <1>2 DEF claim
<1>3. CASE scan(c) # 0
  <2>1. /\ scan(c) \in Candidates(c)
        /\ \A j \in Candidates(c) \ {scan(c)} : Outranks(scan(c), j)
    BY <1>3, ScanIsCandidate DEF Inv
  <2>2. scan(c) \in Irqs BY <2>1 DEF Candidates
  <2>3. claimed' = claimed \cup {scan(c)} BY <1>1, <1>3 DEF claim
  <2> QED BY <2>1, <2>2, <2>3, CandidatesAreEligible
<1> QED BY <1>2, <1>3

\* What enters service is the best source its context has at that moment, although
\* claim() answered from the cache.
THEOREM ClaimsAreCurrent == Spec => ClaimIsCurrent
<1> DEFINE Fresh == \A i \in claimed' \ claimed :
             \E c \in Contexts :
               /\ Eligible(c, i)
               /\ \A j \in Irqs \ {i} : Eligible(c, j) => Outranks(i, j)
<1>1. Inv /\ [Next]_vars => [Fresh]_vars
  <2> SUFFICES ASSUME Inv, Next PROVE Fresh OBVIOUS
  <2>1. ASSUME NEW c \in Contexts, claim(c) PROVE Fresh BY <2>1, ClaimStep
  <2>2. CASE claimed' \subseteq claimed BY <2>2
  <2> QED BY <2>1, <2>2 DEF Next, set_pending, update, complete, config,
                            StorePriority, StoreEnable, StoreThreshold
<1> QED BY <1>1, PlicInvariant, PTL DEF Spec, ClaimIsCurrent

-----------------------------------------------------------------------------
(* Refinement: forget the pending bits and the cache. *)

\* The abstract controller offers exactly the concrete candidates.
LEMMA OfferedAreCandidates ==
  ASSUME Inv, NEW c \in Contexts
  PROVE  Level!Offered(c) = Candidates(c)
<1>1. Level!Irqs = Irqs BY DEF Level!Irqs, Irqs, MaxIrqs
<1>2. \A i \in Irqs : i \in Level!Offered(c) <=> Eligible(c, i)
  BY <1>1 DEF Level!Offered, Eligible
<1> QED BY <1>1, <1>2, CandidatesAreEligible DEF Level!Offered, Candidates

LEMMA NextRefines == Inv /\ [Next]_vars => [Level!Next]_(Level!vars)
<1> SUFFICES ASSUME Inv, [Next]_vars PROVE [Level!Next]_(Level!vars) OBVIOUS
<1>0. Level!Irqs = Irqs /\ Level!Contexts = Contexts
  BY DEF Level!Irqs, Irqs, MaxIrqs, Level!Contexts, Contexts
<1> USE DEF config
<1>1. ASSUME NEW irq \in Irqs, NEW asserted \in BOOLEAN, set_pending(irq, asserted)
      PROVE Level!Next
  BY <1>0, <1>1 DEF set_pending, Level!Next, Level!Drive
<1>2. ASSUME NEW h \in 0 .. Harts - 1, update(h) PROVE Level!Next
  <2>1. \A c \in Contexts : best'[c] # 0 <=> Level!Offered(c) # {}
    BY <1>2, CachedIsScan, ScanIsCandidate, OfferedAreCandidates DEF update, Inv
  <2>2. eip' = [c \in Contexts |->
                 IF c \in {2 * h, 2 * h + 1} THEN Level!Offered(c) # {} ELSE eip[c]]
    BY <1>2, <2>1, Zenon DEF update
  <2> QED BY <1>0, <1>2, <2>2 DEF update, Level!Next, Level!Signal
<1>3. ASSUME NEW c \in Contexts, claim(c) PROVE [Level!Next]_(Level!vars)
  <2>1. CASE claimed' = claimed
    BY <1>3, <2>1 DEF claim, Level!vars
  <2>2. ASSUME NEW i \in Irqs, claimed' = claimed \cup {i}, Eligible(c, i),
               \A j \in Irqs \ {i} : Eligible(c, j) => Outranks(i, j)
        PROVE Level!Take(c)
    <3>1. \A j \in Level!Offered(c) : j \in Irqs /\ Eligible(c, j)
      BY <1>0 DEF Level!Offered, Eligible
    <3>2. i \in Level!Offered(c)
      BY <1>0, <2>2 DEF Level!Offered, Eligible
    <3>3. Level!First(c, i)
      BY <2>2, <3>1, <3>2 DEF Level!First, Outranks
    <3> QED BY <1>0, <1>3, <2>2, <3>3 DEF claim, Level!Take
  <2> QED BY <1>0, <1>3, <2>1, <2>2, ClaimStep DEF Level!Next
<1>4. ASSUME NEW irq \in Irqs, complete(irq) PROVE Level!Next
  BY <1>0, <1>4 DEF complete, Level!Next, Level!Finish
<1>5. ASSUME NEW w \in PriorityWrites, StorePriority(w[1], w[2]) PROVE Level!Next
  BY <1>5 DEF StorePriority, Level!Next, Level!Configure
<1>6. ASSUME NEW w \in EnableWrites, StoreEnable(w[1], w[2], w[3]) PROVE Level!Next
  BY <1>6 DEF StoreEnable, Level!Next, Level!Configure, Word, Level!Word
<1>7. ASSUME NEW w \in ThresholdWrites, StoreThreshold(w[1], w[2]) PROVE Level!Next
  BY <1>7 DEF StoreThreshold, Level!Next, Level!Configure
<1>8. CASE UNCHANGED vars BY <1>8 DEF vars, Level!vars
<1> QED BY <1>1, <1>2, <1>3, <1>4, <1>5, <1>6, <1>7, <1>8 DEF Next

\* The controller implements level-triggered arbitration: every step is a step of
\* PlicLevel or invisible to it.
THEOREM PlicRefinesLevel == Spec => ImplementsLevel
<1>1. Init => Level!Init
  BY DEF Init, Level!Init, Bits, MaxIrqs, Contexts, Level!Contexts
<1> QED BY <1>1, NextRefines, PlicInvariant, PTL DEF Spec, ImplementsLevel, Level!Spec
=============================================================================
