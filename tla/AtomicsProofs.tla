---------------------------- MODULE AtomicsProofs ----------------------------
(***************************************************************************)
(* Reservations for any number of harts, granule, page size and mapping.   *)
(***************************************************************************)
EXTENDS Atomics, DivLemmas, TLAPS

\* What a reservation that would still succeed knows about the LR behind it.
Sound(h) == \E x \in [va : VAddr, g : Nat] :
              /\ lr[h] = {x} /\ x.va = raddr[h] /\ x.g = res[h]
              /\ "hart" \notin since[h]
Coupled == \A h \in Hart : valid[h] /\ res[h] # NoRes => Sound(h)
Inv == TypeOK /\ Coupled

-----------------------------------------------------------------------------
(* Addresses. *)

LEMMA TranslateNat ==
  ASSUME TypeOK, NEW h \in Hart, NEW va \in VAddr
  PROVE  translate(h, va) \in Nat /\ translate(h, va) \div G \in Nat
<1>0. N \in Nat /\ P \in Nat \ {0} /\ Pages \in Nat \ {0} /\ G \in Nat \ {0} BY AtomicsAssumption
<1> DEFINE q == va \div P
<1>1. va \in Nat /\ va < Pages * P BY <1>0 DEF VAddr
<1>2. q \in Nat /\ q < Pages /\ P * q <= va BY <1>0, <1>1, DivFacts, DivBound
<1>3. space[h][q] \in Nat
  <2>1. space[h] \in [0 .. Pages - 1 -> Nat] BY AtomicsAssumption DEF TypeOK
  <2>2. q \in 0 .. Pages - 1 BY <1>0, <1>2
  <2> HIDE DEF q
  <2> QED BY <2>1, <2>2
<1> DEFINE f == space[h][q]
<1>4. translate(h, va) = f * P + (va - P * q) BY DEF translate, Frame, Offset
<1> HIDE DEF q, f
<1>5. f * P \in Nat /\ va - P * q \in Nat
  <2>1. f \in Nat BY <1>3 DEF f
  <2>2. P * q \in Nat BY <1>0, <1>2
  <2> QED BY <1>0, <1>1, <1>2, <2>1, <2>2
<1>6. translate(h, va) \in Nat BY <1>4, <1>5
<1> QED BY <1>0, <1>6, DivFacts

\* Every granule a store writes a byte of lies between its first and its last.
LEMMA TouchedAreGranules ==
  ASSUME NEW pa \in Nat, NEW size \in Size
  PROVE  Touched(pa .. pa + size - 1) \subseteq Granules(pa, size)
<1>0. G \in Nat \ {0} /\ size \in Nat /\ size >= 1 BY AtomicsAssumption DEF Size
<1> SUFFICES ASSUME NEW b \in pa .. pa + size - 1
             PROVE  b \div G \in (pa \div G) .. ((pa + size - 1) \div G)
  BY DEF Touched, Granules
<1>1. b \in Nat /\ pa <= b /\ b <= pa + size - 1 /\ pa + size - 1 \in Nat BY <1>0
<1>2. pa \div G <= b \div G BY <1>0, <1>1, DivMono
<1>3. b \div G <= (pa + size - 1) \div G BY <1>0, <1>1, DivMono
<1>4. pa \div G \in Nat /\ b \div G \in Nat /\ (pa + size - 1) \div G \in Nat
  BY <1>0, <1>1, DivFacts
<1> QED BY <1>2, <1>3, <1>4

-----------------------------------------------------------------------------
(* What a write does to the reservations of the harts other than the writer. *)

LEMMA OthersStaySound ==
  ASSUME Inv, NEW h \in Hart, NEW gs, NEW ws, ws \subseteq gs, Wrote("hart", h, ws),
         NEW k \in Hart, k # h, valid'[k] = valid[k], raddr'[k] = raddr[k], lr'[k] = lr[k],
         res'[k] = note_store(h, gs)[k], valid'[k], res'[k] # NoRes
  PROVE  Sound(k)'
<1>1. res[k] \notin gs /\ res'[k] = res[k] /\ res[k] # NoRes BY DEF note_store
<1>2. PICK x \in [va : VAddr, g : Nat] :
        lr[k] = {x} /\ x.va = raddr[k] /\ x.g = res[k] /\ "hart" \notin since[k]
  BY <1>1 DEF Inv, Coupled, Sound
<1>3. x.g \notin ws BY <1>1, <1>2
<1>4. since'[k] = since[k] BY <1>2, <1>3 DEF Wrote
<1> QED BY <1>1, <1>2, <1>4 DEF Sound

LEMMA WriteTypes ==
  ASSUME TypeOK, NEW h, NEW gs, NEW ws, NEW who \in {"hart", "mmu", "device"}
  PROVE  /\ note_store(h, gs) \in [Hart -> Nat \cup {NoRes}]
         /\ Wrote(who, h, ws) => since' \in [Hart -> SUBSET {"hart", "mmu", "device"}]
BY DEF TypeOK, note_store, Wrote

LEMMA InvInit == Init => Inv
<1> SUFFICES ASSUME Init PROVE Inv OBVIOUS
<1>1. 0 \in VAddr
  <2>1. Pages * P \in Nat \ {0} BY AtomicsAssumption
  <2> QED BY <2>1 DEF VAddr
<1>2. TypeOK BY <1>1 DEF Init, TypeOK, NoRes
<1> QED BY <1>2 DEF Inv, Coupled, Init

LEMMA TypeStep == TypeOK /\ [Next]_vars => TypeOK'
<1> SUFFICES ASSUME TypeOK, [Next]_vars PROVE TypeOK' OBVIOUS
<1>1. ASSUME NEW h \in Hart, enter_trap(h) PROVE TypeOK'
  BY <1>1 DEF enter_trap, clear_reservation, TypeOK
<1>2. ASSUME NEW h \in Hart, NEW s \in Spaces, SwitchSpace(h, s) PROVE TypeOK'
  BY <1>2 DEF SwitchSpace, TypeOK
<1>3. ASSUME NEW h \in Hart, NEW va \in VAddr, NEW size \in Size, LR(h, va, size) PROVE TypeOK'
  <2>1. translate(h, va) \div G \in Nat BY TranslateNat
  <2> QED BY <1>3, <2>1 DEF LR, TypeOK
<1>4. ASSUME NEW h \in Hart, NEW va \in VAddr, NEW size \in Size, SC(h, va, size) PROVE TypeOK'
  BY <1>4, WriteTypes DEF SC, TypeOK
<1>5. ASSUME NEW h \in Hart, NEW va \in VAddr, NEW size \in Size, ScFail(h, va, size) PROVE TypeOK'
  BY <1>5 DEF ScFail, TypeOK
<1>6. ASSUME NEW h \in Hart, NEW va \in VAddr, NEW size \in Size, mem_store(h, va, size) PROVE TypeOK'
  BY <1>6, WriteTypes DEF mem_store, TypeOK
<1>7. ASSUME NEW h \in Hart, NEW va \in VAddr, NEW size \in Size, store_across_pages(h, va, size)
      PROVE  TypeOK'
  <2>1. PICK gs : /\ Wrote("hart", h, gs) /\ UNCHANGED <<raddr, space>>
                  /\ \/ clear_reservation(h, note_store(h, gs))
                     \/ res' = note_store(h, gs) /\ UNCHANGED <<valid, lr>>
    BY <1>7 DEF store_across_pages
  <2>2. since' \in [Hart -> SUBSET {"hart", "mmu", "device"}] BY <2>1, WriteTypes
  <2>3. /\ res' \in [Hart -> Nat \cup {NoRes}] /\ valid' \in [Hart -> BOOLEAN]
        /\ lr' \in [Hart -> SUBSET [va : VAddr, g : Nat]]
    <3>1. note_store(h, gs) \in [Hart -> Nat \cup {NoRes}] BY WriteTypes
    <3>2. CASE clear_reservation(h, note_store(h, gs)) BY <3>1, <3>2 DEF clear_reservation, TypeOK
    <3>3. CASE res' = note_store(h, gs) /\ UNCHANGED <<valid, lr>> BY <3>1, <3>3 DEF TypeOK
    <3> QED BY <2>1, <3>2, <3>3
  <2> QED BY <2>1, <2>2, <2>3 DEF TypeOK
<1>8. ASSUME NEW h \in Hart, NEW g, SetAccessed(h, g) PROVE TypeOK'
  BY <1>8, WriteTypes DEF SetAccessed, TypeOK
<1>9. ASSUME NEW g, write_bytes(g) PROVE TypeOK'
  BY <1>9, WriteTypes DEF write_bytes, TypeOK
<1>10. CASE UNCHANGED vars BY <1>10 DEF vars, TypeOK
<1> QED BY <1>1, <1>2, <1>3, <1>4, <1>5, <1>6, <1>7, <1>8, <1>9, <1>10 DEF Next

LEMMA CoupledStep == Inv /\ [Next]_vars => Coupled'
<1> SUFFICES ASSUME Inv, [Next]_vars, NEW k \in Hart, valid'[k], res'[k] # NoRes
             PROVE  Sound(k)'
  BY DEF Coupled
<1>0. TypeOK BY DEF Inv
<1>u. ASSUME UNCHANGED <<valid[k], raddr[k], res[k], lr[k]>>, "hart" \in since'[k] => "hart" \in since[k]
      PROVE  Sound(k)'
  BY <1>u DEF Inv, Coupled, Sound
<1>1. ASSUME NEW h \in Hart, enter_trap(h) PROVE Sound(k)'
  <2>1. k # h BY <1>0, <1>1 DEF enter_trap, clear_reservation, TypeOK
  <2> QED BY <1>0, <1>1, <1>u, <2>1 DEF enter_trap, clear_reservation, TypeOK
<1>2. ASSUME NEW h \in Hart, NEW s \in Spaces, SwitchSpace(h, s) PROVE Sound(k)'
  BY <1>2, <1>u DEF SwitchSpace
<1>3. ASSUME NEW h \in Hart, NEW va \in VAddr, NEW size \in Size, LR(h, va, size) PROVE Sound(k)'
  <2>1. CASE k = h
    <3> DEFINE x == [va |-> va, g |-> translate(h, va) \div G]
    <3>1. translate(h, va) \div G \in Nat BY <1>0, TranslateNat
    <3>2. x \in [va : VAddr, g : Nat] BY <3>1
    <3>3. /\ lr'[k] = {x} /\ raddr'[k] = va /\ res'[k] = translate(h, va) \div G
          /\ since'[k] = {}
      BY <1>0, <1>3, <2>1 DEF LR, TypeOK
    <3> QED BY <3>2, <3>3 DEF Sound
  <2>2. CASE k # h BY <1>0, <1>3, <1>u, <2>2 DEF LR, TypeOK
  <2> QED BY <2>1, <2>2
<1>4. ASSUME NEW h \in Hart, NEW va \in VAddr, NEW size \in Size, SC(h, va, size) PROVE Sound(k)'
  <2> DEFINE pa == translate(h, va)
  <2>1. k # h BY <1>0, <1>4, WriteTypes DEF SC, TypeOK
  <2>2. Touched(pa .. pa + size - 1) \subseteq Granules(pa, size)
    BY <1>0, TranslateNat, TouchedAreGranules
  <2>3. /\ Wrote("hart", h, Touched(pa .. pa + size - 1))
        /\ valid'[k] = valid[k] /\ raddr'[k] = raddr[k] /\ lr'[k] = lr[k]
        /\ res'[k] = note_store(h, Granules(pa, size))[k]
    BY <1>0, <1>4, <2>1, WriteTypes DEF SC, TypeOK
  <2> HIDE DEF pa
  <2> QED BY <2>1, <2>2, <2>3, OthersStaySound
<1>5. ASSUME NEW h \in Hart, NEW va \in VAddr, NEW size \in Size, ScFail(h, va, size) PROVE Sound(k)'
  <2>1. k # h BY <1>0, <1>5 DEF ScFail, TypeOK
  <2> QED BY <1>0, <1>5, <1>u, <2>1 DEF ScFail, TypeOK
<1>6. ASSUME NEW h \in Hart, NEW va \in VAddr, NEW size \in Size, mem_store(h, va, size) PROVE Sound(k)'
  <2> DEFINE pa == translate(h, va)
  <2>1. CASE k = h
    BY <1>0, <1>6, <1>u, <2>1 DEF mem_store, note_store, Wrote, TypeOK
  <2>2. CASE k # h
    <3>1. Touched(pa .. pa + size - 1) \subseteq Granules(pa, size)
      BY <1>0, TranslateNat, TouchedAreGranules
    <3>2. /\ Wrote("hart", h, Touched(pa .. pa + size - 1))
          /\ valid'[k] = valid[k] /\ raddr'[k] = raddr[k] /\ lr'[k] = lr[k]
          /\ res'[k] = note_store(h, Granules(pa, size))[k]
      BY <1>6 DEF mem_store
    <3> HIDE DEF pa
    <3> QED BY <2>2, <3>1, <3>2, OthersStaySound
  <2> QED BY <2>1, <2>2
<1>7. ASSUME NEW h \in Hart, NEW va \in VAddr, NEW size \in Size, store_across_pages(h, va, size)
      PROVE  Sound(k)'
  <2>1. PICK gs : /\ Wrote("hart", h, gs) /\ UNCHANGED <<raddr, space>>
                  /\ \/ clear_reservation(h, note_store(h, gs))
                     \/ res' = note_store(h, gs) /\ UNCHANGED <<valid, lr>>
    BY <1>7 DEF store_across_pages
  <2>2. CASE k = h
    <3>1. res' = note_store(h, gs) /\ UNCHANGED <<valid, lr>>
      BY <1>0, <2>1, <2>2 DEF clear_reservation, TypeOK
    <3> QED BY <1>0, <1>u, <2>1, <2>2, <3>1 DEF note_store, Wrote, TypeOK
  <2>3. CASE k # h
    <3>1. valid'[k] = valid[k] /\ lr'[k] = lr[k] /\ res'[k] = note_store(h, gs)[k]
      BY <1>0, <2>1, <2>3, WriteTypes DEF clear_reservation, TypeOK
    <3> QED BY <2>1, <2>3, <3>1, OthersStaySound
  <2> QED BY <2>2, <2>3
<1>8. ASSUME NEW h \in Hart, NEW g, SetAccessed(h, g) PROVE Sound(k)'
  <2>1. "hart" \in since'[k] => "hart" \in since[k] BY <1>8 DEF SetAccessed, Wrote
  <2> QED BY <1>8, <1>u, <2>1 DEF SetAccessed
<1>9. ASSUME NEW g, write_bytes(g) PROVE Sound(k)'
  <2>1. "hart" \in since'[k] => "hart" \in since[k] BY <1>9 DEF write_bytes, Wrote
  <2> QED BY <1>9, <1>u, <2>1 DEF write_bytes
<1>10. CASE UNCHANGED vars BY <1>10, <1>u DEF vars
<1> QED BY <1>1, <1>2, <1>3, <1>4, <1>5, <1>6, <1>7, <1>8, <1>9, <1>10 DEF Next

-----------------------------------------------------------------------------
(* The theorems. *)

LEMMA Invariant == Spec => []Inv
<1>1. Inv /\ [Next]_vars => Inv' BY TypeStep, CoupledStep DEF Inv
<1> QED BY <1>1, InvInit, PTL DEF Spec

\* Reservations, addresses and granules keep their types.
THEOREM AtomicsTypes == Spec => []TypeOK
<1>1. Inv => TypeOK BY DEF Inv
<1> QED BY <1>1, Invariant, PTL

\* No SC succeeds over another hart's store to its granule, whatever the alignment, size
\* and virtual address of that store, and whether or not it crosses a page.
THEOREM NoScOverAStore == Spec => []HeldIsUntouched
<1>1. Inv => HeldIsUntouched BY DEF Inv, Coupled, Sound, HeldIsUntouched
<1> QED BY <1>1, Invariant, PTL

\* No SC succeeds without an LR of the same context to the same address.
THEOREM NoScWithoutLr == Spec => []ScIsPaired
<1>1. Inv => ScIsPaired BY DEF Inv, Coupled, Sound, ScIsPaired
<1> QED BY <1>1, Invariant, PTL
=============================================================================
