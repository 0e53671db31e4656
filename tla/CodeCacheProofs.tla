--------------------------- MODULE CodeCacheProofs ---------------------------
(***************************************************************************)
(* The decode caches for any number of harts, pages, slots and mappings.   *)
(***************************************************************************)
EXTENDS CodeCache, DivLemmas, TLAPS

Entry == [pc : Pc, priv : Priv, inst : Inst]

\* The entry repeats what memory holds in a page of ms that a fetch of the hart may use.
GoodIn(h, e, ms) ==
  \E f \in IF e.priv = "M" THEN {PageOf(e.pc)} ELSE legal[h][PageOf(e.pc)] :
    /\ f \in ms
    /\ ~Straddles(e.pc, mem[f * W + OffsetOf(e.pc)])
    /\ e.inst = Decoded(f, OffsetOf(e.pc))

Coherent ==
  \A h \in Hart : /\ depoch[h] <= epoch
                  /\ depoch[h] = epoch =>
                       \A s \in 0 .. Slots - 1 : \A e \in dcache[h][s] : GoodIn(h, e, marked)

Inv == TypeOK /\ Coherent

-----------------------------------------------------------------------------
(* Addresses. *)

LEMMA PcParts ==
  ASSUME NEW pc \in Pc
  PROVE  /\ pc \in Nat /\ PageOf(pc) \in Page /\ OffsetOf(pc) \in 0 .. W - 1
         /\ Slot(pc) \in 0 .. Slots - 1
<1>0. W \in Nat \ {0} /\ Pages \in Nat \ {0} /\ Slots \in Nat \ {0} BY CodeCacheAssumption
<1>1. Pages * W \in Nat BY <1>0
<1>2. pc \in Nat /\ pc < Pages * W BY <1>1 DEF Pc
<1> DEFINE q == pc \div W
           r == pc \div Slots
<1>3. q \in Nat /\ W * q <= pc /\ pc < W * q + W /\ q < Pages BY <1>0, <1>2, DivFacts, DivBound
<1>4. r \in Nat /\ Slots * r <= pc /\ pc < Slots * r + Slots BY <1>0, <1>2, DivFacts
<1>5. OffsetOf(pc) = pc - W * q /\ Slot(pc) = pc - Slots * r /\ PageOf(pc) = q
  BY DEF OffsetOf, Slot, PageOf
<1> HIDE DEF q, r
<1>6. W * q \in Nat /\ Slots * r \in Nat BY <1>0, <1>3, <1>4
<1>7. pc - W * q \in 0 .. W - 1 /\ pc - Slots * r \in 0 .. Slots - 1 BY <1>0, <1>2, <1>3, <1>4, <1>6
<1>8. q \in Page BY <1>0, <1>3 DEF Page
<1> QED BY <1>2, <1>5, <1>7, <1>8

LEMMA InFrame ==
  ASSUME NEW f \in Page, NEW o \in 0 .. W - 1
  PROVE  f * W + o \in Pc /\ PageOf(f * W + o) = f
<1>0. W \in Nat \ {0} /\ Pages \in Nat \ {0} /\ f \in Nat /\ f < Pages /\ o \in Nat /\ o < W
  BY CodeCacheAssumption DEF Page
<1>1. f * W + o \in Nat /\ f * W + o < Pages * W BY <1>0, BlockBound
<1>2. Pages * W \in Nat BY <1>0
<1>3. f * W + o \in Pc BY <1>1, <1>2 DEF Pc
<1> QED BY <1>0, <1>3, DivExact DEF PageOf

\* Both halfwords of an instruction that does not straddle are in its frame.
LEMMA InstInFrame ==
  ASSUME NEW f \in Page, NEW pc \in Pc
  PROVE  LET o == OffsetOf(pc) IN
         /\ f * W + o \in Pc /\ PageOf(f * W + o) = f
         /\ o # W - 1 => f * W + o + 1 \in Pc /\ PageOf(f * W + o + 1) = f
<1> DEFINE o == OffsetOf(pc)
<1>0. W \in Nat \ {0} /\ f \in Nat /\ o \in 0 .. W - 1 BY CodeCacheAssumption, PcParts DEF Page
<1>1. f * W + o \in Pc /\ PageOf(f * W + o) = f BY <1>0, InFrame
<1>2. ASSUME o # W - 1 PROVE f * W + o + 1 \in Pc /\ PageOf(f * W + o + 1) = f
  <2> HIDE DEF o
  <2>1. o + 1 \in 0 .. W - 1 BY <1>0, <1>2
  <2>2. f * W + (o + 1) \in Pc /\ PageOf(f * W + (o + 1)) = f BY <2>1, InFrame
  <2>3. f * W + (o + 1) = f * W + o + 1
    <3>1. f * W \in Nat BY <1>0
    <3> QED BY <1>0, <3>1
  <2> QED BY <2>2, <2>3
<1> QED BY <1>1, <1>2

LEMMA DecodedType ==
  ASSUME TypeOK, NEW f \in Page, NEW pc \in Pc, ~Straddles(pc, mem[f * W + OffsetOf(pc)])
  PROVE  Decoded(f, OffsetOf(pc)) \in Inst
BY InstInFrame DEF Decoded, Straddles, TypeOK, Inst

-----------------------------------------------------------------------------
(* Entries stay good while the marked pages keep their contents. *)

Untouched(ms) == \A i \in Pc : PageOf(i) \in ms => mem'[i] = mem[i]

LEMMA KeepGood ==
  ASSUME TypeOK, NEW h \in Hart, NEW e \in Entry, NEW ms \in SUBSET Page, GoodIn(h, e, ms),
         Untouched(ms), ms \subseteq marked',
         \A p \in Page : legal[h][p] \subseteq legal'[h][p]
  PROVE  GoodIn(h, e, marked)'
<1> DEFINE o == OffsetOf(e.pc)
           p == PageOf(e.pc)
<1>1. e.pc \in Pc BY DEF Entry
<1>2. PICK f \in IF e.priv = "M" THEN {p} ELSE legal[h][p] :
        f \in ms /\ ~Straddles(e.pc, mem[f * W + o]) /\ e.inst = Decoded(f, o)
  BY DEF GoodIn
<1>3. f \in Page /\ p \in Page BY <1>1, <1>2, PcParts
<1>4. mem'[f * W + o] = mem[f * W + o] BY <1>1, <1>2, <1>3, InstInFrame DEF Untouched
<1>5. mem[f * W + o] \in Long => mem'[f * W + o + 1] = mem[f * W + o + 1]
  BY <1>1, <1>2, <1>3, InstInFrame DEF Untouched, Straddles
<1>6. Decoded(f, o)' = Decoded(f, o) BY <1>4, <1>5 DEF Decoded
<1>7. ~Straddles(e.pc, mem'[f * W + o]) BY <1>2, <1>4
<1>8. f \in IF e.priv = "M" THEN {p} ELSE legal'[h][p] BY <1>2, <1>3
<1>9. f \in marked' BY <1>2
<1> HIDE DEF o, p
<1> QED BY <1>2, <1>6, <1>7, <1>8, <1>9 DEF GoodIn, o, p

\* A write that bumps no epoch touches no marked page.
LEMMA WriteFacts ==
  ASSUME TypeOK, NEW a \in Pc, NEW b \in Pc, NEW v \in Half, NEW ms \in SUBSET Page,
         NEW ep \in Nat, Write(a, b, v, ms, ep)
  PROVE  /\ mem' \in [Pc -> Half] /\ marked' \in SUBSET Page
         /\ \/ epoch' = ep /\ marked' = ms /\ Untouched(ms)
            \/ epoch' = ep + 1
<1>1. mem' \in [Pc -> Half] BY DEF Write, TypeOK
<1>2. marked' \in SUBSET Page BY DEF Write
<1>3. CASE Dirties(PageOf(a), PageOf(b), ms) BY <1>1, <1>2, <1>3 DEF Write
<1>4. CASE ~Dirties(PageOf(a), PageOf(b), ms)
  <2>1. epoch' = ep /\ marked' = ms BY <1>4 DEF Write
  <2>2. ASSUME NEW i \in Pc, PageOf(i) \in ms PROVE i \notin a .. b
    <3> SUFFICES ASSUME i \in a .. b PROVE FALSE OBVIOUS
    <3>1. W \in Nat \ {0} /\ a \in Nat /\ b \in Nat /\ i \in Nat /\ a <= i /\ i <= b
      BY CodeCacheAssumption, PcParts
    <3>2. PageOf(a) <= PageOf(i) /\ PageOf(i) <= PageOf(b) BY <3>1, DivMono DEF PageOf
    <3>3. PageOf(a) \in Nat /\ PageOf(i) \in Nat /\ PageOf(b) \in Nat
      BY <3>1, DivFacts DEF PageOf
    <3>4. PageOf(i) \in PageOf(a) .. PageOf(b) BY <3>2, <3>3
    <3> QED BY <1>4, <2>2, <3>4 DEF Dirties
  <2>3. Untouched(ms) BY <2>2 DEF Write, Untouched
  <2> QED BY <1>1, <1>2, <2>1, <2>3
<1> QED BY <1>3, <1>4

-----------------------------------------------------------------------------
(* What a fetch leaves. *)

LEMMA SyncedGood ==
  ASSUME Inv, NEW h \in Hart
  PROVE  /\ Synced(h) \in [0 .. Slots - 1 -> SUBSET Entry]
         /\ \A s \in 0 .. Slots - 1 : \A e \in Synced(h)[s] : GoodIn(h, e, marked)
BY DEF Inv, TypeOK, Coherent, Synced, Flushed, Entry

LEMMA FetchFacts ==
  ASSUME Inv, NEW h \in Hart, NEW pc \in Pc, NEW r \in Fetches(h, pc)
  PROVE  /\ r.d \in [0 .. Slots - 1 -> SUBSET Entry] /\ r.m \in SUBSET Page /\ r.e \in Nat
         /\ \/ /\ r.e = epoch /\ marked \subseteq r.m
               /\ \A s \in 0 .. Slots - 1 : \A e \in r.d[s] : GoodIn(h, e, r.m)
            \/ r.e = epoch + 1
<1>0. epoch \in Nat /\ marked \in SUBSET Page /\ priv[h] \in Priv BY DEF Inv, TypeOK
<1> DEFINE d == Synced(h)
           o == OffsetOf(pc)
           new(f) == [pc |-> pc, priv |-> priv[h], inst |-> Decoded(f, o)]
           ms(walked) == IF walked THEN {} ELSE marked
           cached(f) == ~Straddles(pc, mem[f * W + o])
<1>1. /\ d \in [0 .. Slots - 1 -> SUBSET Entry] /\ Slot(pc) \in 0 .. Slots - 1
      /\ \A s \in 0 .. Slots - 1 : \A e \in d[s] : GoodIn(h, e, marked)
  BY SyncedGood, PcParts
<1>2. \/ r = [d |-> d, m |-> marked, e |-> epoch]
      \/ \E f \in Frames(h, pc), walked \in BOOLEAN : r = Fetched(h, pc, f, walked)
  <2>1. Walks \subseteq BOOLEAN BY DEF Walks
  <2> QED BY <2>1 DEF Fetches
<1>3. CASE r = [d |-> d, m |-> marked, e |-> epoch] BY <1>0, <1>1, <1>3
<1>4. ASSUME NEW f \in Frames(h, pc), NEW walked \in BOOLEAN, r = Fetched(h, pc, f, walked)
      PROVE  /\ r.d \in [0 .. Slots - 1 -> SUBSET Entry] /\ r.m \in SUBSET Page /\ r.e \in Nat
             /\ \/ /\ r.e = epoch /\ marked \subseteq r.m
                   /\ \A s \in 0 .. Slots - 1 : \A e \in r.d[s] : GoodIn(h, e, r.m)
                \/ r.e = epoch + 1
  <2>1. f \in Page BY PcParts DEF Frames, Inv, TypeOK
  <2>2. /\ r.d = IF cached(f) THEN [d EXCEPT ![Slot(pc)] = {new(f)}] ELSE d
        /\ r.m = IF cached(f) THEN mark_code_page(ms(walked), f) ELSE ms(walked)
        /\ r.e = IF walked THEN epoch + 1 ELSE epoch
    BY <1>4 DEF Fetched
  <2>3. r.m \in SUBSET Page /\ r.e \in Nat BY <1>0, <2>1, <2>2 DEF mark_code_page
  <2>4. cached(f) => new(f) \in Entry BY <1>0, <2>1, DecodedType DEF Entry, Inv
  <2>5. r.d \in [0 .. Slots - 1 -> SUBSET Entry] BY <1>1, <2>2, <2>4
  <2>6. ASSUME ~walked, NEW s \in 0 .. Slots - 1, NEW e \in r.d[s] PROVE GoodIn(h, e, r.m)
    <3>1. CASE e \in d[s]
      <4>1. marked \subseteq r.m BY <2>2, <2>6 DEF mark_code_page
      <4> QED BY <1>1, <3>1, <4>1 DEF GoodIn
    <3>2. CASE cached(f) /\ e = new(f)
      <4>1. f \in r.m BY <2>2, <3>2 DEF mark_code_page
      <4>2. f \in IF e.priv = "M" THEN {PageOf(e.pc)} ELSE legal[h][PageOf(e.pc)]
        BY <3>2 DEF Frames
      <4>3. e.pc = pc /\ e.inst = Decoded(f, o) BY <3>2
      <4> QED BY <3>2, <4>1, <4>2, <4>3 DEF GoodIn
    <3> QED BY <1>1, <2>2, <3>1, <3>2
  <2>7. ~walked => marked \subseteq r.m BY <2>2 DEF mark_code_page
  <2> HIDE DEF cached, ms, new, d
  <2> QED BY <2>2, <2>3, <2>5, <2>6, <2>7
<1> QED BY <1>2, <1>3, <1>4

-----------------------------------------------------------------------------
(* Steps. *)

\* The caches of harts whose epoch is current stay good when nothing marked is touched.
LEMMA OthersStayGood ==
  ASSUME Inv, NEW k \in Hart, depoch[k] = epoch, marked \subseteq marked', Untouched(marked),
         \A p \in Page : legal[k][p] \subseteq legal'[k][p]
  PROVE  \A s \in 0 .. Slots - 1 : \A e \in dcache[k][s] : GoodIn(k, e, marked)'
<1> SUFFICES ASSUME NEW s \in 0 .. Slots - 1, NEW e \in dcache[k][s] PROVE GoodIn(k, e, marked)'
  OBVIOUS
<1>1. e \in Entry /\ marked \in SUBSET Page /\ TypeOK BY DEF Inv, TypeOK, Entry
<1>2. GoodIn(k, e, marked) BY DEF Inv, Coherent
<1> QED BY <1>1, <1>2, KeepGood

LEMMA HartStep ==
  ASSUME Inv, NEW h \in Hart, NEW pc \in Pc, NEW r \in Fetches(h, pc),
         depoch' = [depoch EXCEPT ![h] = epoch],
         \/ epoch' = r.e /\ marked' = r.m /\ Untouched(r.m)
         \/ epoch' = r.e + 1,
         NEW D, dcache' = [dcache EXCEPT ![h] = D],
         D = Flushed \/ (D = r.d /\ legal'[h] = legal[h]),
         \A k \in Hart : k # h => legal'[k] = legal[k]
  PROVE  Coherent' /\ epoch' \in Nat
<1>0. /\ epoch \in Nat /\ depoch \in [Hart -> Nat] /\ \A k \in Hart : depoch[k] <= epoch
      /\ DOMAIN dcache = Hart /\ TypeOK
  BY DEF Inv, TypeOK, Coherent
<1>1. /\ r.d \in [0 .. Slots - 1 -> SUBSET Entry] /\ r.m \in SUBSET Page /\ r.e \in Nat
      /\ \/ /\ r.e = epoch /\ marked \subseteq r.m
            /\ \A s \in 0 .. Slots - 1 : \A e \in r.d[s] : GoodIn(h, e, r.m)
         \/ r.e = epoch + 1
  BY FetchFacts
<1>2. epoch' \in Nat /\ epoch' >= epoch
  <2>1. epoch' \in {r.e, r.e + 1} /\ r.e \in {epoch, epoch + 1} BY <1>1
  <2> QED BY <1>0, <2>1
<1> SUFFICES ASSUME NEW k \in Hart
             PROVE  /\ depoch'[k] <= epoch'
                    /\ depoch'[k] = epoch' =>
                         \A s \in 0 .. Slots - 1 : \A e \in dcache'[k][s] : GoodIn(k, e, marked)'
  BY <1>2 DEF Coherent
<1>3. depoch'[k] = IF k = h THEN epoch ELSE depoch[k] BY <1>0
<1>4. depoch'[k] <= epoch' BY <1>0, <1>2, <1>3
<1>5. ASSUME depoch'[k] = epoch', NEW s \in 0 .. Slots - 1, NEW e \in dcache'[k][s]
      PROVE  GoodIn(k, e, marked)'
  <2>1. epoch' = epoch /\ (k # h => depoch[k] = epoch) BY <1>0, <1>2, <1>3, <1>5
  <2>2. r.e = epoch BY <1>0, <1>1, <2>1
  <2>3. marked' = r.m /\ Untouched(r.m) /\ marked \subseteq r.m
    BY <1>0, <1>1, <2>1, <2>2
  <2>4. CASE k = h
    <3>1. e \in D[s] BY <1>0, <1>5, <2>4
    <3>2. D = r.d /\ legal'[h] = legal[h] BY <3>1 DEF Flushed
    <3>3. e \in Entry /\ GoodIn(h, e, r.m)
      <4>1. r.e # epoch + 1 BY <1>0, <2>2
      <4>2. \A x \in r.d[s] : GoodIn(h, x, r.m) BY <1>1, <4>1
      <4> QED BY <1>1, <3>1, <3>2, <4>2
    <3> QED BY <1>0, <1>1, <2>3, <2>4, <3>2, <3>3, KeepGood
  <2>5. CASE k # h
    <3>1. dcache'[k] = dcache[k] BY <1>0, <2>5
    <3>2. Untouched(marked) BY <2>3 DEF Untouched
    <3> QED BY <1>5, <2>1, <2>3, <2>5, <3>1, <3>2, OthersStayGood
  <2> QED BY <2>4, <2>5
<1> QED BY <1>4, <1>5

\* A step that leaves RAM alone and shrinks no translation.
LEMMA QuietStep ==
  ASSUME Inv, UNCHANGED ram,
         \A k \in Hart : \/ dcache'[k] = Flushed /\ depoch'[k] \in {depoch[k], epoch}
                         \/ /\ dcache'[k] = dcache[k] /\ depoch'[k] = depoch[k]
                            /\ \A p \in Page : legal[k][p] \subseteq legal'[k][p]
  PROVE  Coherent'
<1>0. /\ epoch \in Nat /\ depoch \in [Hart -> Nat] /\ \A k \in Hart : depoch[k] <= epoch
      /\ epoch' = epoch /\ marked' = marked /\ Untouched(marked)
  BY DEF Inv, TypeOK, Coherent, ram, Untouched
<1> SUFFICES ASSUME NEW k \in Hart
             PROVE  /\ depoch'[k] <= epoch'
                    /\ depoch'[k] = epoch' =>
                         \A s \in 0 .. Slots - 1 : \A e \in dcache'[k][s] : GoodIn(k, e, marked)'
  BY DEF Coherent
<1>1. depoch'[k] <= epoch' BY <1>0
<1>2. CASE dcache'[k] = Flushed BY <1>1, <1>2 DEF Flushed
<1>3. CASE /\ dcache'[k] = dcache[k] /\ depoch'[k] = depoch[k]
           /\ \A p \in Page : legal[k][p] \subseteq legal'[k][p]
  BY <1>0, <1>1, <1>3, OthersStayGood
<1> QED BY <1>2, <1>3

LEMMA InvInit == Init => Inv
<1> SUFFICES ASSUME Init PROVE Inv OBVIOUS
<1>1. TypeOK BY DEF Init, TypeOK, Flushed
<1>2. Coherent BY DEF Init, Coherent, Flushed
<1> QED BY <1>1, <1>2 DEF Inv

\* An instruction keeps memory, marks and caches well typed.
LEMMA HartTypes ==
  ASSUME Inv, NEW h \in Hart, NEW D \in [0 .. Slots - 1 -> SUBSET Entry],
         depoch' = [depoch EXCEPT ![h] = epoch], dcache' = [dcache EXCEPT ![h] = D],
         mem' \in [Pc -> Half], epoch' \in Nat, marked' \in SUBSET Page,
         priv' = priv, table' \in [Hart -> [Page -> Page]],
         legal' \in [Hart -> [Page -> SUBSET Page]]
  PROVE  TypeOK'
BY DEF Inv, TypeOK, Entry

LEMMA InvStep == Inv /\ [Next]_vars => Inv'
<1> SUFFICES ASSUME Inv, [Next]_vars PROVE Inv' OBVIOUS
<1>0. TypeOK /\ Flushed \in [0 .. Slots - 1 -> SUBSET Entry] BY DEF Inv, Flushed
<1>1. ASSUME NEW h \in Hart, remote_fence(h) PROVE Inv'
  <2>1. TypeOK' BY <1>0, <1>1 DEF remote_fence, ram, TypeOK, Exact, Entry
  <2>2. \A k \in Hart : IF k = h THEN dcache'[k] = Flushed ELSE dcache'[k] = dcache[k] /\ legal'[k] = legal[k]
    BY <1>0, <1>1 DEF remote_fence, TypeOK
  <2>3. UNCHANGED <<ram, depoch>> BY <1>1 DEF remote_fence
  <2>4. Coherent' BY <2>2, <2>3, QuietStep
  <2> QED BY <2>1, <2>4 DEF Inv
<1>2. ASSUME NEW h \in Hart, NEW p \in Priv, SetPriv(h, p) PROVE Inv'
  <2>0. UNCHANGED <<ram, legal>> BY <1>2 DEF SetPriv
  <2>1. CASE UNCHANGED <<dcache, depoch>>
    <3>1. TypeOK' BY <1>0, <1>2, <2>1 DEF SetPriv, ram, TypeOK
    <3>2. Coherent' BY <2>0, <2>1, QuietStep
    <3> QED BY <3>1, <3>2 DEF Inv
  <2>2. CASE dcache' = [dcache EXCEPT ![h] = Synced(h)] /\ depoch' = [depoch EXCEPT ![h] = epoch]
    <3>1. TypeOK' BY <1>0, <1>2, <2>2, SyncedGood DEF SetPriv, ram, TypeOK, Entry
    <3>2. \A k \in Hart : IF k = h THEN dcache'[k] = Synced(h) /\ depoch'[k] = epoch
                          ELSE dcache'[k] = dcache[k] /\ depoch'[k] = depoch[k]
      BY <1>0, <2>2 DEF TypeOK
    <3>3. Coherent' BY <2>0, <3>2, QuietStep DEF Synced
    <3> QED BY <3>1, <3>3 DEF Inv
  <2> QED BY <1>2, <2>1, <2>2 DEF SetPriv
<1>3. ASSUME NEW h \in Hart, NEW pc \in Pc, Compute(h, pc) \/ FenceI(h, pc) PROVE Inv'
  <2>a. PICK r \in Fetches(h, pc) :
          /\ Step(h) /\ Keep(r) /\ UNCHANGED <<mem, table, legal, priv>>
          /\ \E D \in {r.d, Flushed} : dcache' = [dcache EXCEPT ![h] = D]
    BY <1>3 DEF Compute, FenceI
  <2>b. PICK D \in {r.d, Flushed} : dcache' = [dcache EXCEPT ![h] = D] BY <2>a
  <2>1. /\ Step(h) /\ Keep(r) /\ UNCHANGED <<mem, table, legal, priv>>
        /\ dcache' = [dcache EXCEPT ![h] = D] /\ D \in {r.d, Flushed}
    BY <2>a, <2>b
  <2>2. /\ depoch' = [depoch EXCEPT ![h] = epoch] /\ epoch' = r.e /\ marked' = r.m
        /\ Untouched(r.m) /\ D \in [0 .. Slots - 1 -> SUBSET Entry]
        /\ r.m \in SUBSET Page /\ r.e \in Nat
    BY <1>0, <2>1, FetchFacts DEF Step, Keep, Untouched
  <2>3. Coherent' BY <2>1, <2>2, HartStep
  <2>4. TypeOK' BY <1>0, <2>1, <2>2, HartTypes DEF TypeOK
  <2> QED BY <2>3, <2>4 DEF Inv
<1>4. ASSUME NEW h \in Hart, NEW pc \in Pc, NEW t \in [Page -> Page], csr_write(h, pc, t) PROVE Inv'
  <2>1. PICK r \in Fetches(h, pc) :
          /\ Step(h) /\ Keep(r) /\ dcache' = [dcache EXCEPT ![h] = Flushed]
          /\ table' = [table EXCEPT ![h] = t] /\ legal' = [legal EXCEPT ![h] = Exact(t)]
          /\ UNCHANGED <<mem, priv>>
    BY <1>4 DEF csr_write
  <2>2. /\ depoch' = [depoch EXCEPT ![h] = epoch] /\ epoch' = r.e /\ marked' = r.m
        /\ Untouched(r.m) /\ r.m \in SUBSET Page /\ r.e \in Nat
    BY <2>1, FetchFacts DEF Step, Keep, Untouched
  <2>3. /\ \A k \in Hart : k # h => legal'[k] = legal[k]
        /\ legal' \in [Hart -> [Page -> SUBSET Page]] /\ table' \in [Hart -> [Page -> Page]]
    BY <1>0, <2>1 DEF TypeOK, Exact
  <2>4. Coherent' BY <2>1, <2>2, <2>3, HartStep
  <2>5. TypeOK' BY <1>0, <2>1, <2>2, <2>3, HartTypes DEF TypeOK
  <2> QED BY <2>4, <2>5 DEF Inv
<1>5. ASSUME NEW h \in Hart, NEW pc \in Pc, NEW a \in Pc, NEW v \in Half, Store(h, pc, a, a, v)
      PROVE  Inv'
  <2>1. PICK r \in Fetches(h, pc) :
          /\ Step(h) /\ Write(a, a, v, r.m, r.e) /\ dcache' = [dcache EXCEPT ![h] = r.d]
          /\ UNCHANGED <<table, legal, priv>>
    BY <1>5 DEF Store
  <2>2. /\ r.d \in [0 .. Slots - 1 -> SUBSET Entry] /\ r.m \in SUBSET Page /\ r.e \in Nat
        /\ depoch' = [depoch EXCEPT ![h] = epoch]
    BY <2>1, FetchFacts DEF Step
  <2>3. /\ mem' \in [Pc -> Half] /\ marked' \in SUBSET Page
        /\ \/ epoch' = r.e /\ marked' = r.m /\ Untouched(r.m)
           \/ epoch' = r.e + 1
    BY <1>0, <2>1, <2>2, WriteFacts
  <2>4. Coherent' /\ epoch' \in Nat BY <2>1, <2>2, <2>3, HartStep
  <2>5. TypeOK' BY <1>0, <2>1, <2>2, <2>3, <2>4, HartTypes DEF TypeOK
  <2> QED BY <2>4, <2>5 DEF Inv
<1>6. ASSUME NEW hs, NEW p \in Page, NEW f \in Page, SetPte(hs, p, f) PROVE Inv'
  <2>1. TypeOK' BY <1>0, <1>6 DEF SetPte, ram, TypeOK
  <2>2. \A k \in Hart : \A q \in Page : legal[k][q] \subseteq legal'[k][q]
    BY <1>0, <1>6 DEF SetPte, TypeOK
  <2>3. UNCHANGED <<ram, dcache, depoch>> BY <1>6 DEF SetPte
  <2>4. Coherent' BY <2>2, <2>3, QuietStep
  <2> QED BY <2>1, <2>4 DEF Inv
<1>7. ASSUME NEW a \in Pc, NEW b \in Pc, NEW v \in Half, write_bytes(a, b, v) PROVE Inv'
  <2>0. /\ epoch \in Nat /\ marked \in SUBSET Page /\ Write(a, b, v, marked, epoch)
        /\ UNCHANGED <<table, legal, priv, dcache, depoch>>
    BY <1>0, <1>7 DEF write_bytes, TypeOK
  <2>1. /\ mem' \in [Pc -> Half] /\ marked' \in SUBSET Page
        /\ \/ epoch' = epoch /\ marked' = marked /\ Untouched(marked)
           \/ epoch' = epoch + 1
    BY <1>0, <2>0, WriteFacts
  <2>2. TypeOK' BY <1>0, <2>0, <2>1 DEF TypeOK
  <2>3. ASSUME NEW k \in Hart
        PROVE  /\ depoch'[k] <= epoch'
               /\ depoch'[k] = epoch' =>
                    \A s \in 0 .. Slots - 1 : \A e \in dcache'[k][s] : GoodIn(k, e, marked)'
    <3>1. depoch[k] \in Nat /\ depoch[k] <= epoch /\ depoch'[k] = depoch[k] /\ dcache'[k] = dcache[k]
      BY <1>0, <2>0 DEF Inv, Coherent, TypeOK
    <3>2. CASE epoch' = epoch + 1 BY <2>0, <3>1, <3>2
    <3>3. CASE epoch' = epoch /\ marked' = marked /\ Untouched(marked)
      BY <2>0, <3>1, <3>3, OthersStayGood
    <3> QED BY <2>1, <3>2, <3>3
  <2>4. Coherent' BY <2>3 DEF Coherent
  <2> QED BY <2>2, <2>4 DEF Inv
<1>9. ASSUME NEW h \in Hart, start_at(h) PROVE Inv'
  <2>1. TypeOK' BY <1>0, <1>9 DEF start_at, ram, TypeOK, Exact, Entry
  <2>2. \A k \in Hart : IF k = h THEN dcache'[k] = Flushed ELSE dcache'[k] = dcache[k] /\ legal'[k] = legal[k]
    BY <1>0, <1>9 DEF start_at, TypeOK
  <2>3. UNCHANGED <<ram, depoch>> BY <1>9 DEF start_at
  <2>4. Coherent' BY <2>2, <2>3, QuietStep
  <2> QED BY <2>1, <2>4 DEF Inv
<1>8. CASE UNCHANGED vars
  <2>1. TypeOK' BY <1>0, <1>8 DEF vars, TypeOK
  <2>2. Coherent' BY <1>8, QuietStep DEF vars, ram
  <2> QED BY <2>1, <2>2 DEF Inv
<1> QED BY <1>1, <1>2, <1>3, <1>4, <1>5, <1>6, <1>7, <1>8, <1>9 DEF Next

\* Memory, marks, translations and caches keep their types.
THEOREM CodeCacheTypes == Spec => []TypeOK
<1>1. Inv => TypeOK BY DEF Inv
<1> QED BY <1>1, InvInit, InvStep, PTL DEF Spec

\* No hart ever executes a decoded instruction that differs from what a fetch at that
\* moment could return, whatever other harts, devices and page-table writes do.
THEOREM CacheIsTransparent == Spec => []HitIsFetch
<1>1. ASSUME Inv, NEW h \in Hart, NEW pc \in Pc, NEW e \in Synced(h)[Slot(pc)], Hits(e, pc, priv[h])
      PROVE  \E f \in Frames(h, pc) : /\ ~Straddles(pc, mem[f * W + OffsetOf(pc)])
                                      /\ e.inst = Decoded(f, OffsetOf(pc))
  <2>1. GoodIn(h, e, marked) BY <1>1, SyncedGood, PcParts
  <2> QED BY <1>1, <2>1 DEF GoodIn, Hits, Frames
<1>2. Inv => HitIsFetch BY <1>1 DEF HitIsFetch
<1> QED BY <1>2, InvInit, InvStep, PTL DEF Spec
=============================================================================
