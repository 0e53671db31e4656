------------------------------ MODULE Atomics ------------------------------
(***************************************************************************)
(* Stores, LR/SC and the reservations of several harts (mem_store,         *)
(* note_store and store_across_pages in src/cpu/mod.rs, execute_amo in     *)
(* src/cpu/exec.rs).  A hart keeps the virtual address it reserved; the    *)
(* physical granule is in its mailbox, where another hart's store finds    *)
(* and cancels it.                                                         *)
(*                                                                         *)
(* Values are left out: a property only asks who wrote where, and when.    *)
(* An access whose translation faults changes nothing and is enter_trap.   *)
(***************************************************************************)
EXTENDS Integers

CONSTANTS
  N,        \* number of harts
  G,        \* bytes in a reservation granule (8 in the code)
  P,        \* bytes in a page
  Pages,    \* virtual pages
  Spaces,   \* address spaces: functions from virtual pages to frames
  Answers   \* frames where the bus finds RAM or a device that accepts the store

Hart == 0 .. N - 1
VAddr == 0 .. Pages * P - 1
Size == 1 .. G
NoRes == -1

ASSUME AtomicsAssumption ==
  /\ N \in Nat \ {0} /\ G \in Nat \ {0} /\ P \in Nat \ {0} /\ Pages \in Nat \ {0}
  /\ Spaces \subseteq [0 .. Pages - 1 -> Nat] /\ Spaces # {}

VARIABLES
  valid, raddr,   \* reservation_valid, reservation_addr: each hart's own
  res,            \* mb.reservation: the granule, or NoRes
  space,          \* what the hart's satp names
  lr,             \* history: the LR this context has outstanding, or {}
  since           \* history: who else has written that granule since

vars == <<valid, raddr, res, space, lr, since>>

Init ==
  /\ valid = [h \in Hart |-> FALSE] /\ raddr = [h \in Hart |-> 0]
  /\ res = [h \in Hart |-> NoRes]
  /\ space \in [Hart -> Spaces]
  /\ lr = [h \in Hart |-> {}] /\ since = [h \in Hart |-> {}]

-----------------------------------------------------------------------------
(* Addresses. *)

\* Mutant: the offset is taken from the next page boundary.
OffsetNext(va) == va - P * (va \div P + 1)

Offset(va) == va - P * (va \div P)
Frame(h, va) == space[h][va \div P]
translate(h, va) == Frame(h, va) * P + Offset(va)
crosses_page(va, size) == Offset(va) + size > P
Aligned(va, size) == \E k \in 0 .. va : va = k * size

\* The granules a run of physical bytes lies in.
Touched(bytes) == {b \div G : b \in bytes}

\* Mutant: only the granule the store begins in.
GranulesFirst(paddr, size) == {paddr \div G}

\* What note_store() looks for, from the first and the last byte.
Granules(paddr, size) == (paddr \div G) .. ((paddr + size - 1) \div G)

\* The other harts' reservations after a store of hart h.
note_store(h, gs) == [k \in Hart |-> IF k # h /\ res[k] \in gs THEN NoRes ELSE res[k]]

\* History: hart h, a page-table walk or a device wrote these granules.
Wrote(who, h, gs) ==
  since' = [k \in Hart |-> IF k # h /\ \E x \in lr[k] : x.g \in gs
                           THEN since[k] \cup {who} ELSE since[k]]

-----------------------------------------------------------------------------
(* Instructions. *)

LR(h, va, size) ==
  /\ Aligned(va, size) /\ ~crosses_page(va, size) /\ Frame(h, va) \in Answers
  /\ valid' = [valid EXCEPT ![h] = TRUE]
  /\ raddr' = [raddr EXCEPT ![h] = va]
  /\ res' = [res EXCEPT ![h] = translate(h, va) \div G]
  /\ lr' = [lr EXCEPT ![h] = {[va |-> va, g |-> translate(h, va) \div G]}]
  /\ since' = [since EXCEPT ![h] = {}]
  /\ UNCHANGED space

Holds(h, va) == valid[h] /\ raddr[h] = va /\ res[h] # NoRes

ScFail(h, va, size) ==
  /\ Aligned(va, size) /\ ~Holds(h, va)
  /\ valid' = [valid EXCEPT ![h] = FALSE]
  /\ res' = [res EXCEPT ![h] = NoRes]
  /\ lr' = [lr EXCEPT ![h] = {}]
  /\ UNCHANGED <<raddr, space, since>>

SC(h, va, size) ==
  LET pa == translate(h, va) IN
  /\ Aligned(va, size) /\ ~crosses_page(va, size) /\ Holds(h, va)
  /\ Frame(h, va) \in Answers
  /\ valid' = [valid EXCEPT ![h] = FALSE]
  /\ res' = [note_store(h, Granules(pa, size)) EXCEPT ![h] = NoRes]
  /\ lr' = [lr EXCEPT ![h] = {}]
  /\ Wrote("hart", h, Touched(pa .. pa + size - 1))
  /\ UNCHANGED <<raddr, space>>

\* A store or a read-modify-write AMO within a page.
mem_store(h, va, size) ==
  LET pa == translate(h, va) IN
  /\ ~crosses_page(va, size) /\ Frame(h, va) \in Answers
  /\ res' = note_store(h, Granules(pa, size))
  /\ Wrote("hart", h, Touched(pa .. pa + size - 1))
  /\ UNCHANGED <<valid, raddr, space, lr>>

\* Mutant: the trap leaves the reservation.
clear_reservationNot(h, r) ==
  /\ valid' = valid /\ res' = r
  /\ lr' = [lr EXCEPT ![h] = {}]

\* The reservation goes, and the context that made it with it; r is what is left of the
\* others' reservations.
clear_reservation(h, r) ==
  /\ valid' = [valid EXCEPT ![h] = FALSE] /\ res' = [r EXCEPT ![h] = NoRes]
  /\ lr' = [lr EXCEPT ![h] = {}]

\* Both pages translate; the bytes are then written one by one until the bus refuses
\* one, which traps.
store_across_pages(h, va, size) ==
  LET done == {i \in 0 .. size - 1 : \A j \in 0 .. i : Frame(h, va + j) \in Answers}
      gs == Touched({translate(h, va + i) : i \in done})
      trapped == done # 0 .. size - 1
  IN
  /\ crosses_page(va, size) /\ va + size - 1 \in VAddr
  /\ Wrote("hart", h, gs)
  /\ IF trapped
     THEN clear_reservation(h, note_store(h, gs))
     ELSE res' = note_store(h, gs) /\ UNCHANGED <<valid, lr>>
  /\ UNCHANGED <<raddr, space>>

\* A trap, or the start of a parked hart, ends the context that reserved.
enter_trap(h) ==
  /\ clear_reservation(h, res)
  /\ UNCHANGED <<raddr, space, since>>

\* A write to satp, or to the page tables followed by SFENCE.VMA.
SwitchSpace(h, s) ==
  /\ space' = [space EXCEPT ![h] = s]
  /\ UNCHANGED <<valid, raddr, res, lr, since>>

-----------------------------------------------------------------------------
(* Writes that are not instructions of a hart: they cancel nothing. *)

\* A walk on hart h sets the accessed or dirty bit of an entry in granule g.
SetAccessed(h, g) ==
  /\ Wrote("mmu", h, {g})
  /\ UNCHANGED <<valid, raddr, res, space, lr>>

\* A device writes guest memory.
write_bytes(g) ==
  /\ Wrote("device", -1, {g})
  /\ UNCHANGED <<valid, raddr, res, space, lr>>

GranuleSet == {translate(h, va) \div G : h \in Hart, va \in VAddr}

Next ==
  \/ \E h \in Hart : \/ enter_trap(h)
                     \/ \E s \in Spaces : SwitchSpace(h, s)
                     \/ \E va \in VAddr, size \in Size :
                          \/ LR(h, va, size) \/ SC(h, va, size) \/ ScFail(h, va, size)
                          \/ mem_store(h, va, size) \/ store_across_pages(h, va, size)
                     \/ \E g \in GranuleSet : SetAccessed(h, g)
  \/ \E g \in GranuleSet : write_bytes(g)

Spec == Init /\ [][Next]_vars

-----------------------------------------------------------------------------
(* Properties. *)

\* Each field has its type; a granule, once reserved, is a natural number.
TypeOK ==
  /\ valid \in [Hart -> BOOLEAN] /\ raddr \in [Hart -> VAddr]
  /\ res \in [Hart -> Nat \cup {NoRes}] /\ space \in [Hart -> Spaces]
  /\ lr \in [Hart -> SUBSET [va : VAddr, g : Nat]]
  /\ since \in [Hart -> SUBSET {"hart", "mmu", "device"}]

\* An SC that would succeed finds its granule untouched by any other hart's store since
\* the LR, however the store was aligned and through whatever address it was made:
\* two harts never both win a lock (docs/10-multiple-harts.md:81-83).
HeldIsUntouched == \A h \in Hart : valid[h] /\ res[h] # NoRes => "hart" \notin since[h]

\* An SC that would succeed belongs to an LR of the same context to the same address,
\* with no trap and no other SC in between (exec.rs:499-501, cpu/mod.rs:324-326).
ScIsPaired == \A h \in Hart : valid[h] /\ res[h] # NoRes => \E x \in lr[h] : x.va = raddr[h]

\* "A reservation is broken by any intervening write" (docs/03-m-and-a.md:85).
AnyWriteBreaks == \A h \in Hart : valid[h] /\ res[h] # NoRes => since[h] = {}

\* "The reservation is tracked by physical address" (docs/10-multiple-harts.md:88-89): an
\* SC that would succeed writes the granule that is reserved.
ReservedIsWritten ==
  \A h \in Hart : valid[h] /\ res[h] # NoRes => translate(h, raddr[h]) \div G = res[h]
=============================================================================
