----------------------------- MODULE CodeCache -----------------------------
(***************************************************************************)
(* The decoded-instruction caches of the harts (step_core, cache_fill and  *)
(* flush_decode_cache in src/cpu/mod.rs) and the code-page marks and the   *)
(* epoch by which RAM invalidates them (src/dram.rs).                      *)
(*                                                                         *)
(* Memory is a sequence of halfwords, W to a page.  A halfword of Long     *)
(* begins an instruction of two halfwords, any other one is an instruction *)
(* of its own.  What the TLB may answer is given by its contract: a frame  *)
(* the page table has named since the hart last flushed it.                *)
(***************************************************************************)
EXTENDS Integers

CONSTANTS
  N,         \* number of harts
  W,         \* halfwords in a page
  Pages,     \* virtual pages, and frames of RAM
  Slots,     \* entries of a decode cache
  Half,      \* values of a halfword
  Long,      \* those that begin a 32-bit instruction
  Priv,      \* privileges the harts run at: "M" does not translate
  MaxEpoch   \* bound on the code epoch

Hart == 0 .. N - 1
Page == 0 .. Pages - 1
Pc == 0 .. Pages * W - 1
Inst == Half \X Half

ASSUME CodeCacheAssumption ==
  /\ N \in Nat \ {0} /\ W \in Nat \ {0} /\ Pages \in Nat \ {0} /\ Slots \in Nat \ {0}
  /\ Half # {} /\ Long \subseteq Half /\ Priv # {} /\ MaxEpoch \in Nat

VARIABLES
  mem,             \* RAM
  epoch, marked,   \* Dram: the code epoch and the pages some hart cached code from
  table, legal,    \* each hart's page table; the frames its TLB may still answer
  priv,            \* each hart's privilege
  dcache, depoch   \* each hart's decode cache and the epoch it is good for

vars == <<mem, epoch, marked, table, legal, priv, dcache, depoch>>
ram == <<mem, epoch, marked>>

Flushed == [s \in 0 .. Slots - 1 |-> {}]

Init ==
  /\ mem \in [Pc -> Half] /\ epoch = 1 /\ marked = {}
  /\ table \in [Hart -> [Page -> Page]]
  /\ legal = [h \in Hart |-> [p \in Page |-> {table[h][p]}]]
  /\ priv \in [Hart -> Priv]
  /\ dcache = [h \in Hart |-> Flushed] /\ depoch = [h \in Hart |-> 0]

-----------------------------------------------------------------------------
(* Fetching. *)

PageOf(pc) == pc \div W
OffsetOf(pc) == pc - W * (pc \div W)
Slot(pc) == pc - Slots * (pc \div Slots)

\* Machine mode does not translate.
Frames(h, pc) == IF priv[h] = "M" THEN {PageOf(pc)} ELSE legal[h][PageOf(pc)]

Straddles(pc, low) == low \in Long /\ OffsetOf(pc) = W - 1

\* The instruction whose first halfword is at offset o of frame f, if it ends in it.
Decoded(f, o) ==
  LET low == mem[f * W + o] IN <<low, IF low \in Long THEN mem[f * W + o + 1] ELSE low>>

Hits(e, pc, p) == e.pc = pc /\ e.priv = p

\* The cache as a step finds it.
Synced(h) == IF depoch[h] = epoch THEN dcache[h] ELSE Flushed

\* Mutant: the page after is marked.
mark_code_pageNext(ms, f) == ms \cup {f + 1}

mark_code_page(ms, f) == ms \cup {f}

\* The hart's cache and RAM's marks and epoch after a fetch at pc from frame f.  A walk on
\* the way may have set the accessed bit of an entry in a page somebody cached code from;
\* an instruction that straddles two pages is not cached.
Fetched(h, pc, f, walked) ==
  LET o == OffsetOf(pc)
      new == [pc |-> pc, priv |-> priv[h], inst |-> Decoded(f, o)]
      ms == IF walked THEN {} ELSE marked
      cached == ~Straddles(pc, mem[f * W + o])
  IN [d |-> IF cached THEN [Synced(h) EXCEPT ![Slot(pc)] = {new}] ELSE Synced(h),
      m |-> IF cached THEN mark_code_page(ms, f) ELSE ms,
      e |-> IF walked THEN epoch + 1 ELSE epoch]

Walks == IF marked = {} THEN {FALSE} ELSE BOOLEAN

Fetches(h, pc) ==
  IF \E e \in Synced(h)[Slot(pc)] : Hits(e, pc, priv[h])
  THEN {[d |-> Synced(h), m |-> marked, e |-> epoch]}
  ELSE {Fetched(h, pc, x[1], x[2]) : x \in Frames(h, pc) \X Walks}

-----------------------------------------------------------------------------
(* Writing. *)

\* Mutant: only the first page of a long write is looked up.
DirtiesFirst(first, last, ms) == first \in ms

\* note_write: does a write of these pages touch code somebody cached?
Dirties(first, last, ms) == (first .. last) \cap ms # {}

\* A write to the halfwords of mem from a to b, given the marks and the epoch before it.
Write(a, b, v, ms, ep) ==
  /\ mem' = [i \in Pc |-> IF i \in a .. b THEN v ELSE mem[i]]
  /\ IF Dirties(PageOf(a), PageOf(b), ms)
     THEN epoch' = ep + 1 /\ marked' = {}
     ELSE epoch' = ep /\ marked' = ms

-----------------------------------------------------------------------------
(* Steps of a hart: the fetch, then what the instruction does. *)

Step(h) ==
  /\ epoch < MaxEpoch
  /\ depoch' = [depoch EXCEPT ![h] = epoch]

Keep(r) == epoch' = r.e /\ marked' = r.m

Compute(h, pc) ==
  \E r \in Fetches(h, pc) :
    /\ Step(h) /\ Keep(r)
    /\ dcache' = [dcache EXCEPT ![h] = r.d]
    /\ UNCHANGED <<mem, table, legal, priv>>

Store(h, pc, a, b, v) ==
  \E r \in Fetches(h, pc) :
    /\ Step(h) /\ Write(a, b, v, r.m, r.e)
    /\ dcache' = [dcache EXCEPT ![h] = r.d]
    /\ UNCHANGED <<table, legal, priv>>

\* FENCE.I
FenceI(h, pc) ==
  \E r \in Fetches(h, pc) :
    /\ Step(h) /\ Keep(r)
    /\ dcache' = [dcache EXCEPT ![h] = Flushed]
    /\ UNCHANGED <<mem, table, legal, priv>>

Exact(t) == [p \in Page |-> {t[p]}]

\* Mutant: the TLB is flushed but the decoded instructions stay.
csr_writeTlbOnly(h, pc, t) ==
  \E r \in Fetches(h, pc) :
    /\ Step(h) /\ Keep(r)
    /\ table' = [table EXCEPT ![h] = t] /\ legal' = [legal EXCEPT ![h] = Exact(t)]
    /\ dcache' = [dcache EXCEPT ![h] = r.d]
    /\ UNCHANGED <<mem, priv>>

\* A write to satp: another page table.
csr_write(h, pc, t) ==
  \E r \in Fetches(h, pc) :
    /\ Step(h) /\ Keep(r)
    /\ table' = [table EXCEPT ![h] = t] /\ legal' = [legal EXCEPT ![h] = Exact(t)]
    /\ dcache' = [dcache EXCEPT ![h] = Flushed]
    /\ UNCHANGED <<mem, priv>>

\* SFENCE.VMA and a remote fence.
remote_fence(h) ==
  /\ legal' = [legal EXCEPT ![h] = Exact(table[h])]
  /\ dcache' = [dcache EXCEPT ![h] = Flushed]
  /\ UNCHANGED <<ram, table, priv, depoch>>

\* A parked hart is released: supervisor mode, translation off.
start_at(h) ==
  /\ "S" \in Priv
  /\ priv' = [priv EXCEPT ![h] = "S"]
  /\ table' = [table EXCEPT ![h] = [p \in Page |-> p]]
  /\ legal' = [legal EXCEPT ![h] = Exact([p \in Page |-> p])]
  /\ dcache' = [dcache EXCEPT ![h] = Flushed]
  /\ UNCHANGED <<ram, depoch>>

\* A trap before or after the cache was brought up to date, or MRET or SRET.
SetPriv(h, p) ==
  /\ \/ UNCHANGED <<dcache, depoch>>
     \/ dcache' = [dcache EXCEPT ![h] = Synced(h)] /\ depoch' = [depoch EXCEPT ![h] = epoch]
  /\ priv' = [priv EXCEPT ![h] = p]
  /\ UNCHANGED <<ram, table, legal>>

\* A page-table entry changes, in the tables of the harts hs; nobody is told.
SetPte(hs, p, f) ==
  /\ table' = [h \in Hart |-> IF h \in hs THEN [table[h] EXCEPT ![p] = f] ELSE table[h]]
  /\ legal' = [h \in Hart |-> IF h \in hs THEN [legal[h] EXCEPT ![p] = @ \cup {f}] ELSE legal[h]]
  /\ UNCHANGED <<ram, priv, dcache, depoch>>

\* A device or the debugger writes RAM.
write_bytes(a, b, v) ==
  /\ epoch < MaxEpoch
  /\ Write(a, b, v, marked, epoch)
  /\ UNCHANGED <<table, legal, priv, dcache, depoch>>

Next ==
  \/ \E h \in Hart : \/ remote_fence(h) \/ start_at(h)
                     \/ \E p \in Priv : SetPriv(h, p)
  \/ \E h \in Hart, pc \in Pc : \/ Compute(h, pc) \/ FenceI(h, pc)
                                \/ \E t \in [Page -> Page] : csr_write(h, pc, t)
                                \/ \E a \in Pc, v \in Half : Store(h, pc, a, a, v)
  \/ \E hs \in {Hart} \cup {{h} : h \in Hart}, p \in Page, f \in Page : SetPte(hs, p, f)
  \/ \E a \in Pc, b \in Pc, v \in Half : a <= b /\ write_bytes(a, b, v)

Spec == Init /\ [][Next]_vars

-----------------------------------------------------------------------------
(* Properties. *)

\* Memory, tables and caches have their types.
TypeOK ==
  /\ mem \in [Pc -> Half] /\ epoch \in Nat /\ marked \subseteq Page
  /\ table \in [Hart -> [Page -> Page]] /\ legal \in [Hart -> [Page -> SUBSET Page]]
  /\ priv \in [Hart -> Priv]
  /\ dcache \in [Hart -> [0 .. Slots - 1 -> SUBSET [pc : Pc, priv : Priv, inst : Inst]]]
  /\ depoch \in [Hart -> Nat]

\* An instruction a step takes from the cache is one a fetch at its pc and privilege
\* could return at that moment: the bytes memory holds now, whoever wrote them and by
\* whatever address, in a frame the page table has named since the hart's last fence
\* (cpu/mod.rs:315-317, dram.rs:152-153).  Changed code is seen even without FENCE.I.
HitIsFetch ==
  \A h \in Hart : \A pc \in Pc : \A e \in Synced(h)[Slot(pc)] :
    Hits(e, pc, priv[h]) =>
      \E f \in Frames(h, pc) : /\ ~Straddles(pc, mem[f * W + OffsetOf(pc)])
                               /\ e.inst = Decoded(f, OffsetOf(pc))
=============================================================================
