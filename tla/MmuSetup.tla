------------------------------- MODULE MmuSetup -------------------------------
(***************************************************************************)
(* What follows init_xlat_tables: the way the MMU is turned on.  Between   *)
(* the instructions of enable_mmu_direct_elx the hardware may do on its    *)
(* own what a barrier only makes certain: complete an invalidation of the  *)
(* TLB, or let a system register that has been written take effect.        *)
(*                                                                         *)
(* XlatTables says what the tables mean to a walk from the base table; here*)
(* the walk is the one that the MMU does with the registers it was given.  *)
(***************************************************************************)
EXTENDS XlatTables

CONSTANTS
  RegBits,   \* width of a virtual address
  PaSizes,   \* sizes of the physical address space that TCR.PS can say, ascending
             \* powers of two
  PaRange,   \* the one that ID_AA64MMFR0_EL1.PARange gives
  Archs,     \* "aarch64" or "aarch32": which of the two setup_mmu_cfg is built
  FlagSets   \* flags for enable_mmu_elx

VARIABLES
  step,      \* the next instruction of enable_mmu_elx; "idle" before, "ret" after
  cfg,       \* mmu_cfg_params, and the flags
  regs,      \* MAIR, TCR, TTBR0 and SCTLR as last written
  live,      \* and as they are in effect
  tlb        \* "stale", "invalidating" or "clean"

mmuVars == <<step, cfg, regs, live, tlb>>
allVars == <<vars, mmuVars>>

-----------------------------------------------------------------------------
(* The static context.                                                       *)

GET_XLAT_TABLE_LEVEL_BASE(size) ==
  IF size > BlockSize(0) THEN 0
  ELSE IF size > BlockSize(1) THEN 1
  ELSE IF size > BlockSize(2) THEN 2 ELSE 3

GET_NUM_BASE_LEVEL_ENTRIES(size) == size \div BlockSize(GET_XLAT_TABLE_LEVEL_BASE(size))

\* What REGISTER_XLAT_CONTEXT makes of the sizes, and the asserted limits.
ASSUME ContextAssumption ==
  /\ BaseLevel = GET_XLAT_TABLE_LEVEL_BASE(VaMax + 1)
  /\ BaseEntries = GET_NUM_BASE_LEVEL_ENTRIES(VaMax + 1)
  /\ \E n \in 1 .. RegBits : VaMax + 1 = 2 ^ n
  /\ RegBits \in Nat /\ Word = 2 ^ RegBits
  /\ PaSizes \in Seq(Nat \ {0}) /\ \A i, j \in DOMAIN PaSizes : i < j => PaSizes[i] < PaSizes[j]
  /\ Archs \subseteq {"aarch64", "aarch32"}
  /\ FlagSets \subseteq SUBSET {"DISABLE_DCACHE", "XLAT_TABLE_NC"}

\* The highest physical address of this CPU.
xlat_arch_get_max_supported_pa == PaSizes[PaRange] - 1

ASSUME SupportedPa == PaRange \in DOMAIN PaSizes /\ PaMax <= xlat_arch_get_max_supported_pa

-----------------------------------------------------------------------------
(* The values of the registers.                                              *)

\* Number of trailing zeros of a power of two.
Ctz(size) == CHOOSE n \in 0 .. RegBits : size = 2 ^ n

\* Mutant: a range is looked at as if it began one bit higher.
PhysicalAddrSizeOff(max_addr) ==
  LET used == {i \in 2 .. Len(PaSizes) : (max_addr % PaSizes[i]) \div (2 * PaSizes[i - 1]) # 0}
  IN IF used = {} THEN 1 ELSE CHOOSE i \in used : \A j \in used : j <= i

\* tcr_physical_addr_size_bits: the highest of the ranges of bits between two sizes in
\* which the address has one.
PhysicalAddrSize(max_addr) ==
  LET used == {i \in 2 .. Len(PaSizes) : (max_addr % PaSizes[i]) \div PaSizes[i - 1] # 0}
  IN IF used = {} THEN 1 ELSE CHOOSE i \in used : \A j \in used : j <= i

\* The index of a memory type in MAIR, in a descriptor as in the register.
AttrIndex(mem) == CASE mem = "memory" -> 0 [] mem = "device" -> 1 [] mem = "non_cacheable" -> 2

Mair == [i \in 0 .. 2 |-> CHOOSE mem \in {"memory", "device", "non_cacheable"} : AttrIndex(mem) = i]

WalkAttributes(flags) ==
  IF "XLAT_TABLE_NC" \in flags THEN <<"non_shareable", "NC">> ELSE <<"inner", "WBA">>

\* setup_mmu_cfg for AArch64
SetupMmuCfg64(flags) ==
  [mair |-> Mair,
   tcr |-> [t0sz |-> RegBits - Ctz(VaMax + 1), walk |-> WalkAttributes(flags),
            epd1 |-> Regime = "EL1&0", ps |-> PhysicalAddrSize(max_pa)],
   ttbr0 |-> 0]

\* setup_mmu_cfg for AArch32: TTBCR has no size of the physical addresses (they
\* have 40 bits), and its size field stays 0 for a whole word of addresses.
SetupMmuCfg32(flags) ==
  [mair |-> Mair,
   tcr |-> [t0sz |-> IF VaMax = Word - 1 THEN 0 ELSE RegBits - Ctz(VaMax + 1),
            walk |-> WalkAttributes(flags), epd1 |-> Regime = "EL1&0", ps |-> Len(PaSizes)],
   ttbr0 |-> 0]

-----------------------------------------------------------------------------
(* Turning the MMU on.                                                       *)

\* The registers before: whatever they were, with the MMU off.
Unset ==
  [mair |-> [i \in 0 .. 2 |-> "unknown"],
   tcr |-> [t0sz |-> 0, walk |-> <<"inner", "WBA">>, epd1 |-> FALSE, ps |-> 1],
   ttbr0 |-> -1,
   sctlr |-> [m |-> FALSE, c |-> FALSE, wxn |-> FALSE]]

MmuInit ==
  /\ Init
  /\ step = "idle" /\ cfg = [flags |-> {}]
  /\ regs = Unset /\ live = Unset /\ tlb = "stale"

Go(here, there) == step = here /\ step' = there /\ UNCHANGED vars

\* enable_mmu_el1, _el2, _el3, _svc_mon and _hyp, up to enable_mmu_direct.
SetupCfg ==
  /\ pc = "done" /\ Go("idle", "tlbi")
  /\ \E flags \in FlagSets :
       cfg' \in {[flags |-> flags, params |-> IF arch = "aarch64" THEN SetupMmuCfg64(flags)
                                                                 ELSE SetupMmuCfg32(flags)] : arch \in Archs}
  /\ UNCHANGED <<regs, live, tlb>>

TlbiAll ==
  /\ Go("tlbi", "msr")
  /\ tlb' = "invalidating"
  /\ UNCHANGED <<cfg, regs, live>>

\* MAIR, TCR and TTBR0 are written from mmu_cfg_params.
WriteRegs ==
  /\ Go("msr", "barrier")
  /\ regs' = [regs EXCEPT !.mair = cfg.params.mair, !.tcr = cfg.params.tcr,
                          !.ttbr0 = cfg.params.ttbr0]
  /\ UNCHANGED <<cfg, live, tlb>>

\* Mutant: without ISB the registers are written but need not be in effect.
BarriersNoIsb ==
  /\ Go("barrier", "sctlr")
  /\ tlb' = "clean"
  /\ UNCHANGED <<cfg, regs, live>>

\* DSB waits for the invalidation, ISB makes the registers effective.
Barriers ==
  /\ Go("barrier", "sctlr")
  /\ tlb' = "clean" /\ live' = regs
  /\ UNCHANGED <<cfg, regs>>

WriteSctlr ==
  /\ Go("sctlr", "isb")
  /\ regs' = [regs EXCEPT !.sctlr = [m |-> TRUE, c |-> "DISABLE_DCACHE" \notin cfg.flags, wxn |-> TRUE]]
  /\ UNCHANGED <<cfg, live, tlb>>

Isb ==
  /\ Go("isb", "ret")
  /\ live' = regs
  /\ UNCHANGED <<cfg, regs, tlb>>

\* The CPU may complete an invalidation, and make a register effective, early;
\* SCTLR does not wait for the others.
Hardware ==
  /\ \/ /\ live' \in {[regs EXCEPT !.sctlr = live.sctlr], [live EXCEPT !.sctlr = regs.sctlr]} \ {live}
        /\ UNCHANGED tlb
     \/ tlb = "invalidating" /\ tlb' = "clean" /\ UNCHANGED live
  /\ UNCHANGED <<vars, step, cfg, regs>>

MmuStep ==
  SetupCfg \/ TlbiAll \/ WriteRegs \/ Barriers \/ WriteSctlr \/ Isb

MmuNext ==
  \/ Next /\ UNCHANGED mmuVars
  \/ MmuStep
  \/ Hardware

MmuSpec == MmuInit /\ [][MmuNext]_allVars

\* The program runs on; what the hardware may do early it need not do.
MmuFairSpec == MmuSpec /\ WF_allVars(Next /\ UNCHANGED mmuVars) /\ WF_allVars(MmuStep)

-----------------------------------------------------------------------------
(* The translation by the MMU, with the registers in effect.                 *)

\* Bits of the virtual address that TTBR0 translates, and the level at which
\* the walk begins: the lowest whose table has an entry for each of them.
VaBits == RegBits - live.tcr.t0sz
StartLevel == CHOOSE l \in 0 .. 3 :
                /\ l = 0 \/ 2 ^ VaBits <= Entries * BlockSize(l)
                /\ l = 3 \/ 2 ^ VaBits > Entries * BlockSize(l + 1)

\* The descriptor at which the walk for va ends, and its level: a table descriptor
\* leads to the next level, any other stays what has been found.
Walk(va) ==
  LET read(t, l) ==
        LET entries == IF l = StartLevel THEN 2 ^ VaBits \div BlockSize(l) ELSE Entries
            i == (va \div BlockSize(l)) % entries
        IN [level |-> l,
            desc |-> IF t \in TableIds /\ i \in Indexes(t) THEN tables[t][i] ELSE Garbage]
      walk[l \in StartLevel .. 3] ==
        IF l = StartLevel THEN read(live.ttbr0, l)
        ELSE IF walk[l - 1].desc.type = "table" THEN read(walk[l - 1].desc.to, l)
        ELSE walk[l - 1]
  IN walk[3]

Garbled == [type |-> "garbled"]

HardwareLookup(va) ==
  IF va >= 2 ^ VaBits
  THEN IF Regime # "EL1&0" \/ live.tcr.epd1 \/ va < Word - 2 ^ VaBits THEN Fault ELSE Garbled
  ELSE LET w == Walk(va)
           d == w.desc
           pa == (d.pa - (d.pa % BlockSize(w.level))) + (va % BlockSize(w.level))
       IN CASE d.type = "invalid" -> Fault
            [] d.type = "leaf" ->
                 IF pa >= PaSizes[live.tcr.ps] THEN Fault
                 ELSE [pa |-> pa, mem |-> live.mair[AttrIndex(d.mem)], ns |-> d.ns, user |-> d.user,
                       write |-> d.write, exec |-> ~d.xn /\ ~(d.write /\ live.sctlr.wxn)]
            [] OTHER -> Garbled

-----------------------------------------------------------------------------
(* Properties.                                                               *)

\* From the moment the MMU is in effect, which may be before the function that
\* turns it on returns, and at the latest then, every virtual address is
\* accessed as the list of regions says: the fields that setup_mmu_cfg computes
\* from sizes (T0SZ, PS), the disabled upper half, the indexes of MAIR and the
\* order of writes and barriers all agree with the tables.
HardwareAgrees ==
  /\ step = "ret" => live.sctlr.m
  /\ live.sctlr.m => /\ tlb = "clean"
               /\ \A va \in 0 .. Word - 1 : HardwareLookup(va) = Wanted(va)
=============================================================================
