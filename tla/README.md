# A verification project for TF-A NS_BL2U (RZ/G firmware updater)

NS_BL2U is the non-secure firmware updater of the Renesas RZ/G boot chain.
BL2 starts it when it finds a firmware update in the backup area of the serial
flash; it copies the new images over the old ones, deletes the update and asks
BL2 to reset the system (`src/README.md`, 3.1 and 3.3).  A mistake here is
expensive: the program rewrites the flash the board boots from, power can fail
at any moment, and no test reaches most of the orders in which things can go
wrong.

This directory holds TLA+ modules of the program, TLC configurations that check
them on small instances, and proofs that hold for every instance.  Paths such as
`spi.c:63` are relative to `src/` and abbreviated to the file name where that is
unique.

## 1. Inventory

Built into `ns_bl2u.bin` (see `src/makefile`): the components marked (B).

| Component | Source | State it keeps | Operations | Hard behaviour | Correct when |
|---|---|---|---|---|---|
| Firmware update (B) | `ns_bl2u_main.c`, `fwu_nvm_accessors.c` | load address, ToC cursor, the FIP in DDR; the flash itself | load a FIP, write its images, erase the first header, SMC | power loss between any two flash operations; errors in the middle; malformed packages; the status of the loop is overwritten | the board always has the whole update or the whole new firmware; nothing else in the flash changes; the run ends |
| IO storage (B) | `io_storage.c` | device table, entity pool and its count | register device, open, close, seek, read, write | a pool of one; failure of the driver's open half way | pool, count, file and handles agree |
| Flash file device (B) | `io_spi.c`, `io_spi_hw.c` | the one open file and its cursor, `block_buffer` | open, close, seek (3 modes), read, write | split of a write at block boundaries; read-modify-write; unsigned arithmetic; stop on error | what is reported written is in the flash, what lies outside is kept |
| SPI flash driver (B) | `spi.c`, `rpc_accessor.c` | registers of the RPC-IF controller | erase loop, page loop, status polling, read mode | the chip works on its own; commands are ignored silently; the controller caches reads and has modes; no timeout | every command obeyed; flash readable between calls; calls return |
| Platform IO setup (B) | `rzg_io_storage.c` | the device and file handle | `rzg_io_setup`, `plat_get_nvm_handle` | repeated setup | as IO storage |
| Platform setup (B) | `rzg_setup.c`, `platform_def.h` | the memory map | `rzg_plat_configure_mmu` | what is mapped decides what faults | every access of the update is mapped |
| Translation tables (B) | `lib/xlat_tables_v2` | sorted region list, table pool, MMU registers | add region, init, map, list, enable the MMU, (dynamic) unmap | pool exhaustion, overlap rules, undo of a half-mapped region, barriers | what the hardware translates = lookup in the region list |
| Locked printing (B) | `mp_printf.c`, `spinlock.S`, `debug.c` | one lock word, the console | lock, print, unlock; panic | exclusive monitor, event register, several CPUs | mutual exclusion, no lost wake-up |
| Console (B) | `rzg_console.S` | transmit FIFO, TEND, transmitter enable | init, putc, flush | FIFO full; flush turns the transmitter off | no character is dropped |
| C library (B) | `lib/libc` | none | `printf` family, `memmove`, `strlcpy`, ... | overlap, buffer ends, combinations of flags and widths | equals its reference definition |
| Boot entry and CPU helpers (B) | `aarch64/*.S`, `misc_helpers.S`, `cache_helpers.S` | CPU registers | start, clear and copy memory, cache maintenance | mostly straight line code | memory is cleared exactly |
| Power domains (not built) | `plat_topology.c`, `plat_state_id.c` | the tree of power domains; the indices of the power state asked for | build the tree, iterate over it, step through all composite states | absent CPUs, limits of nested domains, carry between levels | iterators give exactly what is present; every composite state is met once |
| Image loader (not built) | `image_loader.c`, `arm_fwu_io_storage.c` | handle of an image loaded in parts | load an image, whole or in parts; its offset and size | a failure at any of five calls | what is opened is closed |
| Test framework platform code (not built) | rest of `plat/common`, `plat/arm` | - | - | - | - |

### How they interact

`ns_bl2u_main` calls `rzg_io_setup`, which registers the flash device with the
storage layer, opens it (the driver puts the controller into its read mode) and
opens the one file.  `fwu_update_fip` then goes through the chain of FIPs.  It
reads a FIP's table of contents (ToC) directly through the memory-mapped flash,
copies the FIP to DDR with `io_seek` and `io_read`, and for each ToC entry calls
`io_seek` and `io_write`.  `flash_write` cuts the write at block boundaries and
hands each block to `rzg_spi_write_buff`, a partial block after a copy of the
old one has been patched.  `rzg_spi_write_buff` erases, then programs page by
page; each step is a command sent through controller registers by
`rpc_accessor.c`.  The shared state that joins all of this is the flash itself,
the controller's mode, and its read cache.

```
 FwuUpdate  --INSTANCE-->  UpdateContract         what the board is owed
     | EXTENDS
 SectorStore  <--refined by--  SpiDriver          block writes as seen / as done
     | EXTENDS
   IoSpi                                          handles, cursor, block splitting

 MpPrintf                                         lock, console, several CPUs
 XlatTables  <--EXTENDS--  RzgMemoryMap           tables / what the platform maps
     ^ EXTENDS
     +--  MmuSetup  <--EXTENDS--  TableListing    turning the MMU on / the listing
     +--  XlatDynamic                             regions come and go, the MMU is on

 LibcMemory  LibcPrint  PowerDomains  PowerStates  ImageLoader
                                                  algorithms with a call at a time
```

`SectorStore` is the hinge: it says what one block write does to the flash, step
by step and with power losses.  `FwuUpdate` and `IoSpi` are built on it (its
actions are conjuncts of theirs), and the register-level `SpiDriver` is checked
to implement it.

Before any of this, `platform_setup` lets `rzg_plat_configure_mmu` pass the
regions of the platform to the translation table library and turns the MMU on;
what is mapped decides which accesses of the update fault.  Messages go to the
serial console through `printf`, or through `mp_printf`, which takes a spin lock
so that several CPUs can print; `do_panic` prints without it.

## 2. The modules and the code

`PROJECT.json` maps every definition to its lines.  The table says how to read
the state.

| Module | Variable | In the code |
|---|---|---|
| `SectorStore` | `sec` | the 64 KB blocks of the flash |
| | `op` | the call of `rzg_spi_write_buff` in progress: erasing the block, erasing the one after, programming |
| `FwuUpdate` | `pkg` | what the backup area held at first: FIPs, sizes, flags, ToC entries |
| | `nvm`, `ddr`, `size` | `fip_nvm_addr`, the FIP at `FIP_IMAGE_TMP_DDR_ADDRESS`, `load_size` |
| | `cur`, `ent`, `blk` | which FIP is in DDR; `toc_entry`; the block of the image `flash_write` has come to |
| | `pc` | where the program is; `fault` is an access outside the mapped memory, for which there is no handler |
| | `failed` | history: some call of this run returned `STATUS_FAIL` |
| `SpiDriver` | `rpc` | CMNCR.MD, PHYCNT.PHYMEM and WBUF, the write buffer, SMCMR/SMADR, CMNSR.TEND, SMRDR0 |
| | `chip` | write enable latch, write in progress, and the erase or program under way |
| | `cached` | what the read cache (DRCR.RCF clears it) holds of each sector, and whether it is out of date |
| | `pos` | `erase_sector_addr`, then `flash_addr` |
| | `lost` | history: a command reached the chip and was not obeyed |
| | `unfinished` | history: the sectors last written by a call that has not got to its last page, or by an erase or program that was cut; the mapping to `SectorStore` calls them torn |
| `IoSpi` | `entity_map`, `entity_count`, `info` | `io_storage.c:16-22` and `entity->info` |
| | `file`, `handles` | `current_file`; the handles given out and not closed |
| | `wr` | the locals of `flash_write` |
| `MpPrintf` | `lock`, `monitor`, `event` | `printf_lock`; each CPU's exclusive monitor and event register |
| | `fifo`, `tend`, `te` | the transmit FIFO of the SCIF, SCFSR.TEND, SCSCR.TE |
| | `wire`, `dropped` | history: what has been sent; a character met a full FIFO |
| `XlatTables` | `mmap`, `max_va`, `max_pa` | the fields of `xlat_ctx_t`; `mmap` up to its sentinel |
| | `tables`, `next_table` | table 0 is `base_table`, table i + 1 is `tables[i]`; the next free one |
| | `todo`, `stack`, `ret` | the regions `init_xlat_tables_ctx` has still to map, the recursion of `xlat_tables_map_region` (table, index and address of each frame), and the address the last frame returned |
| | `pc` | `add` before `init_xlat_tables`; `overrun` when a table is taken that the pool does not have |
| `MmuSetup` | `step`, `cfg` | the instruction of `enable_mmu_direct_elx` reached; `mmu_cfg_params` |
| | `regs`, `live` | MAIR, TCR, TTBR0, SCTLR as written, and as in effect |
| | `tlb` | whether stale entries may be left in the TLB |
| `TableListing` | (none) | what `xlat_tables_print` prints of the finished tables |
| `XlatDynamic` | `dynamic`, `count` | the regions with `MT_DYNAMIC`; `tables_mapped_regions` |
| | `op`, `ops` | the call in progress and, for a change of attributes, its locals; how many calls there have been |
| | `held`, `told` | what the hardware's TLBs may hold, and which of it they were told to forget since the last `xlat_arch_tlbi_va_sync` |
| | `failed`, `altered` | history: an addition failed; the pages whose attributes were changed |
| `LibcMemory` | `mem`, `memCall` | the memory; the call made, its arguments, the memory before it and the result |
| `LibcPrint` | `out`, `buffer`, `printCall` | what went to the console, the caller's buffer, the call and its result |
| `PowerDomains` | `tftf_pd_nodes`, `tftf_pwr_domain_start_idx`, `topology_setup_done` | the arrays and the flag of the same names |
| | `num_level` to `nodes_idx`; `query` | the locals of the setup; the question asked and its answer |
| `PowerStates` | `pstate_id_idx`, `power_states_per_level` | the arrays of the same names; `requested` is what a walk has met |
| `ImageLoader` | `io`, `partial` | entity map and count, devices initialised; the static handles of `load_partial_image` |

Operations that end inside one call of sequential code are one action, with
everything they change: `Seek`, `Read`, `Setup` (which is device registration,
device open and file open), `IoClose`, `PageEnd` (write buffer off, PHYMEM back,
cache cleared).  Calls that a power loss or the hardware can cut in two are
split where it can do so: a block write into erase, second erase and program; in
`SpiDriver` at every command and every wait for the end of a transfer.

What each module leaves out of the data:

* `FwuUpdate` counts in sectors.  Destinations are block aligned, as the flash
  layout of the boot chain has them.  An image may end inside a block: its last
  block goes through `flash_partial_write`, which differs from a whole one only
  in that it first reads the block (`PartialBlockFault`: reading past the end of
  the flash faults); the rest of that block counts as part of the image.
* A sector's content is symbolic: the number of the sector that originally held
  it, `Erased`, `Torn` (an erase or program was cut) or `Cleared` (a first sector
  whose header is 0xFF).  `Erased` and `Torn` sectors and image data do not look
  like a FIP header: `fwu_load_fip_data` recognises four 32-bit magic numbers.
* `fip_size` is not initialised when no null entry is found (`fwu_nvm_accessors.c:25`).
  It may then have any value (`FipSize`), and the loop over the ToC may end
  anywhere (`TocDone`).
* An erase addressed one past the last sector is sent to an address the part
  does not have.  `PastEnd` lists what it may hit; the runs allow both that
  nothing is erased and that the address wraps around to sector 0.
* `AddrWord` is the word of the driver's addresses (`uint32_t`), `Word` that of the file cursor (`size_t`).  A call of
  `rzg_spi_write_buff` that ends at the end of the addresses wraps around to an end of 0: the range check passes, both
  loops are over at once, and the call succeeds (`StartAtTop` of `SectorStore`, the middle case of `WriteBuff`).
  `IoSpi` hands the driver the cursor modulo `AddrWord` (`Block`).  `Readable` says which addresses behind the part are
  mapped; a copy of a block (`flash_partial_write`, `flash_read`) from elsewhere faults.
* `SpiDriver` leaves out the product-dependent bits of PHYCNT and the second of two
  consecutive writes of DRCR.RCF (redundant), and takes the module clock to be on: BL2 was
  loaded from the same flash.  `rzg_rpc_reset` has no caller.
* `MpPrintf`: a message is `MsgLen` characters; the last two are the carriage return
  and newline, which `console_putc` sends without clearing TEND in between.
  Its formatting is left out.  A panicking CPU prints, flushes and stops.
* `XlatTables` is the build of the image: no dynamic regions, no assertions.
  A descriptor is a record of what the MMU reads in it.  `WriteEntries` is a run of
  iterations of the loop that all write an entry; nothing else can happen between
  them, and the platform's 2 GB of DRAM would otherwise take thousands of steps.  Pages
  are at least two bytes: the loop's test for the end of the region (`mm_end_va <=
  table_idx_va`) is exact only then.
* `XlatDynamic` is the other build of the same library.  It is not in the image, but it
  is where the library is hard: descriptors go while the MMU is on, tables are shared and
  counted, and a region mapped half way must be undone.  A TLB may load whatever is in the tables,
  and an invalidation completes at the sync at the latest; the model has the worst case of both.
  A region that is refused or not found changes nothing and is no action.  Attributes are changed of pages
  in reach of the tables: `find_xlat_table_entry` masks the index (`xlat_tables_utils.c:281`) and takes
  an address beyond for one inside.
* `RzgMemoryMap` counts in units of 2 KB, the coarsest in which a page has two.
* `MmuSetup` lets the hardware do at any moment what a barrier makes certain: finish
  an invalidation, let a written register take effect.  Attributes are a symbol per set.  Both
  `setup_mmu_cfg` are there (`Archs`), the AArch32 one for the sizes it computes.
* `LibcMemory`, `LibcPrint`: a behaviour is one call.  What the C standard leaves undefined
  is not called.  A format is built from fields, parsed by the loop of the code and compared with
  what the fields ask for; its words are 5 and 7 bits wide.
* `PowerDomains` sets up the tree level by level and CPU by CPU; `CorePos` (the platform's) numbers
  the CPUs as the tree does.  A platform is what `PlatformAssumption` admits: a description whose entries are positive and whose levels end where
  the three macros and the assertions of `populate_power_domain_tree` say; any CPU may be absent.  `PowerStates` takes the platform's table of local states.
* `ImageLoader`: each loading function is one action, its paths a set of outcomes, one for each
  way the drivers' calls may end.  The data loaded is left out.
* `IoSpi` leaves out `io_size` and `io_dev_close`: the driver gives no `size`
  function and its close does nothing.  Assertions and log output are compiled out
  in the release build.

## 3. The runs

Each run answers one question; `PROJECT.json` lists the properties it checks.

| Run | Instance | What it shows |
|---|---|---|
| `fwu_safe` | 8 sectors, 5 well-formed packages, 3 power losses | `BackupUntilInstalled`, `BackupIntact`, the refinement `ImplementsContract`, and that the update completes (`UpdateCompletes`) |
| `fwu_bad` | 8 sectors, 7 malformed packages, 2 power losses | `OthersUntouched` whatever the package says, and `RunEnds`: the program reports, panics, faults or restarts |
| `fwu_descending` | one package, no power loss | finding 1 below |
| `fwu_failure` | malformed packages, no power loss | finding 2 |
| `spi_write` | 3 sectors of 2 pages of 2 bytes, 2 calls out of 10, 1 power loss | the driver implements `SectorStore` for whole blocks and for writes that begin at a page and end anywhere; `NothingLost`, `ReadableWhenIdle`, `WriteResult`, `CallReturns` |
| `io_write` | 3 blocks of 2 cells mapped at 12, 32 cells to a driver's address and 64 to a cursor, a pool of 2, 2 writes | `PoolConsistent`; `WriteReported` and `OutsideKept` of writes that begin in the part; `WriteEnds` of all |
| `io_success` | one write, a pool of 1 | finding 3 |
| `print_cpus` | 2 CPUs with 2 messages of 3 characters, a FIFO of 2, one CPU may panic, one spurious loss of a monitor | `MutualExclusion`, `NoLostWakeup`, `NothingDropped`, `NotInterleaved`, `AllPrinted` |
| `xlat_map` | 64 bytes of address space, 2 base entries, tables of 4 entries, pages of 2 bytes, 5 subtables, a list of 3, four calls; both setups of the MMU | from the moment the MMU is on, it translates every address as the innermost region says (`HardwareAgrees`), with the largest blocks, without overwriting and without a panic; the listing shows every descriptor once (`ListingExact`); and `init_xlat_tables` and `enable_mmu` end |
| `xlat_platform` | the regions, sizes and pool of the platform | finding 4 |
| `xlat_dynamic` | the same address space with 3 subtables and a list of 4; up to two early regions, five regions to add later, two sets of attributes, 3 calls | tables follow the list (`MapFollowsList`), no other address is disturbed at any step (`OthersUndisturbed`), tables in use are never counted as free and the TLBs keep nothing they were not told to forget (with exact counts and with syncs as long as no addition has failed), and the list's maxima stay exact |
| `library` | memory of 4 cells, four kinds of trees and three tables of power states, formats of up to 4 fields, a buffer of 6, a pool of 2 handles | `MemoryExact`, `PrintfFields`, `SnprintfBounded`, `TreeConsistent`, `QueriesExact`, `OdometerComplete`, `CompositeSound`, `HandlesReturned` |

**Why the bounds are enough.**  *Packages*: the five well-formed ones cover no
update, one and two FIPs, a chain ended by the flag and by the absence of a
further header, empty ToC entries, an image of two blocks, descending
destinations with a gap between them, and an image in the last sector, whose
second erase is past the end.  The seven malformed ones hit every error path:
size 0, no null entry, a destination past the end, an image that runs over the
end, FIPs that end at and beyond the end of the flash.  *Power losses*: each
resets the program to the same point, so what a loss can add is a different
flash; after one loss during the images, one during the header and one in
between, a fourth reaches nothing new (the theorems of section 6 need no bound).
*SPI*: two calls show what one leaves for the next, and the calls are whole blocks and pieces that end
inside a page, inside a sector, at its end and past the end of the part; two pages per sector and
three sectors show the first, a middle and the last iteration of both loops and
the sector after the last.  *IO*: offsets and lengths up to 5 cells over blocks
of 2 produce every combination of a partial first, whole middle and partial last
block, and writes over the end of the flash.  Seeks from the end set the cursor anywhere: in the part, behind it, where
its lower bits name a block of the part, at the last block of 32 cells, and at the end of the word.  Of the two blocks
behind the part that are mapped one is read by a partial write; the others fault.  *Printing*: two CPUs show every race for the lock,
since a third one could only wait as the second does (the theorems hold for any
number); a message longer than the FIFO makes each CPU wait for the transmitter.
*Tables*: three levels have a first, a middle and a last one; four entries leave a middle between
the ends of a region in a block; the regions cover identity and shifted mappings,
physical addresses aligned less than the virtual ones, nesting three deep, granularities
that forbid blocks, allocated addresses, every memory type, and an argument for every reason the check
has to refuse one.  Some of them need more than the five subtables and reach `OverrunPool`.
Physical address spaces of 32, 64 and 128 bytes make `TCR.PS` take each of its values, and the word of 7 bits over 6
of the map gives a half that is not translated.  `FlagSets` has only the empty set, with which `rzg_plat_enable_mmu` calls.
*Dynamic regions*: with three subtables an addition fails at each place it can
(no table at all, a first table but no second, after some pages), and three calls are an addition,
one that fails or shares a table with it, and a removal.  *Library*: four cells hold every overlap of two
blocks that differ in length and place, `Byte` has values above and below 128 for the sign of a comparison; a buffer
shorter and longer than what is printed; trees of two and three levels, each with every set of absent CPUs; tables
of states with one and with several states to a level, some deeper than the level below allows.  Whole chunks
followed by single bytes occur in `zeromem16`; for `memcpy16` two such blocks do not fit side by side.

`CHECK_DEADLOCK FALSE` is set where the program really stops: after the
update has ended in the firmware, a panic or a fault, when the bounded number of
calls or messages is used up, when an IO access has faulted, and when the tables are built.

Every property of a passing run has a mutant: a changed definition, such as a
dropped flag test or an erase loop that enables writing once, kept beside the
original under a comment that begins with `Mutant:`, under which TLC finds the property violated.

## 4. Fairness

* `FwuUpdate!FairSpec`: weak fairness of `Progress`, everything the machine does
  by itself.  The program is one thread on one CPU that is never suspended, and it
  has no wait that depends on anything but the flash (whose own progress is the
  assumption of `SpiDriver`).  There is no fairness on a power loss or its absence:
  their number is bounded by `MaxPowerLoss`, without which nothing could complete.
* `SpiDriver!FairSpec`: weak fairness of the driver, of the end of a transfer, and
  of the end of an erase or a program.  The last two are what the hardware promises
  and what the code relies on, since its polling loops have no timeout
  (`spi.c:84-91`, `rpc_accessor.c:293-306`).
* `IoSpi!FairSpec`: weak fairness of the steps of a write; a caller is free to call
  or not.
* `MpPrintf!FairSpec`: weak fairness of each CPU's `Step` (CPUs execute their
  instructions; a blocked WFE or poll is not enabled) and of the transmitter.  There is none
  on `Panic` or `LoseMonitor`.
* `XlatTables!FairSpec` and `MmuSetup!MmuFairSpec`: weak fairness of `Next` and of `MmuStep`, since one CPU runs
  sequential code.  There is none on `Hardware`: what may take effect early need not.

## 5. Findings

1. **One block too many is erased** (`spi.c:63`, run `fwu_descending`).  The end
   address of the erase loop is rounded up and compared with `<=`, so an aligned write of
   one block also erases the block after it.  Nothing keeps a copy of that one
   (`ImplementsStore` of `spi_write` bounds what is touched to these two).
   When the ToC lists the higher of two adjacent images first, the lower one's second
   erase wipes it, all calls succeed, and the update is deleted.  The condition
   `LayoutSafe` of `FwuUpdate` says what a layout must satisfy.
2. **A failed update is reported as done** (`fwu_nvm_accessors.c:180`, run
   `fwu_failure`).  The loop's status is overwritten by that of the header's erasure.
3. **A write can succeed without writing** (`io_spi.c:139`, `io_spi_hw.c:14`, `spi.c:21`, run `io_success`).
   A seek from the end is checked with an unsigned comparison that always holds, and sets the cursor anywhere.
   `flash_write` passes its lower 32 bits on; for the last block of 32 bits the end of the block wraps around to 0,
   the range check passes, both loops are over before they begin, and success is reported.
4. **The platform has one translation table too few** (`xlat_tables_core.c:95`, run
   `xlat_platform`).  Its seven regions need five subtables: level 2 for the GB of the
   flash, of the image and of the devices, level 3 for the image and for the 2 MB
   around 0xE6300000 between the two device regions.  `MAX_XLAT_TABLES` is 4.  Only an assertion looks
   (`xlat_table_get_empty`); a release build takes the 4 KB behind the `xlat_table` section,
   which is the end of the image, and does not clear them.  What they hold
   decides how 0xE6200000 to 0xE63FFFFF is mapped.

The update is not affected by 3: it seeks with `IO_SEEK_SET` before every access.

Also seen, without a run of their own.  Where a passing run checks a property that one of these contradicts, the
property says so by name: `InPart` and `Exposed` in `IoSpi`, `Described` and `Limited` in `PowerDomains`, `Plain` and
`Negative` in `LibcPrint`, `failed` in `XlatDynamic`.

* A partial write copies the block and patches the copy (`io_spi_hw.c:72`).  If the block before it was written in the same
  call, the second erase of finding 1 has already blanked what is copied, and the rest of the block is lost.
  `SuccessMeansDone` demands the rest back and would fail for this too; `Exposed` names what a write may change besides its range.
* From a cursor outside the flash whose lower 32 bits name a block of it, that block is erased and written (`io_spi_hw.c:14,45`):
  the second way for `SuccessMeansDone` to fail.
* The cursor stays where it is after a write (`io_spi.c:256`): the loop has counted `length` down to 0 before it is added.
* `IO_SEEK_END` sets an absolute position where reads and writes take it relative to the base; `IO_SEEK_CUR` compares
  a relative position with the absolute range, and so refuses every cursor that
  reading and writing would accept.  Neither mode has a caller.
* When adding a dynamic region fails, the undo misses a table in which not even the first entry was
  mapped (`xlat_tables_core.c:1002` returns, or the part to unmap ends in front of it): the table
  stays linked and counted, and is lost to the pool, where the comment at 1005 says "undo every change done up to this
  point".  `TableCounts` demands exact counts only while no call has failed, and never a count that is too low.
* That undo calls `xlat_arch_tlbi_va` and not `xlat_arch_tlbi_va_sync`, which
  `xlat_tables_private.h:61` says "has to be called at the end of any code that uses" it
  (`xlat_tables_core.c:1015`).  `TlbFresh` asks for it only while no call has failed.
* `plat_topology.c:187`: `nodes_idx[...] = {-1}` sets the first element only, so node 0 of a tree of three levels or more
  gets no limits, is never present, and iterating over its CPUs trips over the assertion at 140.  The comment at 180 says that a
  domain is present if any of its CPUs is; the code looks at the first (203).  `WhatTheSetupLeaves` proves for exactly which
  domains these go wrong.
* `vprintf` (and likewise `vsnprintf`) prints a sign or prefix before the padding and takes it off the width (`printf.c:169-171`):
  `%4d` of -12 is `- 12`, and a left-justified field comes out too wide (`padn--` and `padn -= 2` of a negative `padn`; a pointer with
  one digit is followed by a NUL for this reason).
  The sign is not in the value returned, where the comment at 133 speaks of the characters printed.
  `vsnprintf` reads `%ld` as an int (`snprintf.c`), does not pad strings, and leaves the buffer without a terminator
  when it returns -1.
* `load_image` returns `IO_SUCCESS` when the image is empty or could be read in part only, since
  `io_result` is that of a call that did not fail (`image_loader.c:139`); `get_image_size` then returns a value nobody set.
  `load_partial_image` closes the image when `is_last_block` is 0, and goes on with the image it opened whatever later calls ask for.
  Loading another image from the same device in between closes that device.

## 6. What is proved

`FwuUpdateProofs`, `SpiDriverProofs`, `IoSpiProofs`, `MpPrintfProofs`, `XlatTablesProofs`, `MmuProofs`
and `LibraryProofs`, checked by TLAPS; `DivisionFacts` holds the lemmas on addresses, blocks and pages that three of them share.
All constants are arbitrary, subject to the named assumptions of the modules: `StoreAssumption`
(at least one sector; contents include `Erased` and `Torn`; `PastEnd` is a
nonempty set of sectors or "none"), `FwuAssumption` (the backup address is a sector,
the symbolic contents differ, packages are well typed), `DriverAssumption` (whole pages to a sector, whole sectors to the
part, calls that stay within a sector and below the end of the addresses, or end there), `IoAssumption` (blocks of at least one
byte, words that are multiples of a block and of each other, the mapped flash below the driver's word), `LoaderAssumption`, `PrintAssumption` (a message has at least two
characters, the FIFO at least one place), `XlatAssumption` (positive sizes, at least two bytes
to a page, limits below the word), `BaseTableReaches` (the base table has an entry for every address of the
map: `GET_NUM_BASE_LEVEL_ENTRIES` makes it so), `ContextAssumption` (what `REGISTER_XLAT_CONTEXT` makes of the sizes and asserts of
them: the address space is a power of two, and fits the word), `SupportedPa` (the CPU has the physical addresses of the context),
`DynamicAssumption` (calls pass values of their parameters' types), `StateAssumption` (every level has a local state, whose id is not 0, fits the
width of an id and is that of no other state of the level: the tables of a platform are not in the repository, and the code takes an id of 0 for the end of one),
`MemoryAssumption` (addresses fit the word, cells hold bytes).

| Theorem | Says | Assumes of the packages |
|---|---|---|
| `Inductive`, `TypeCorrect` | types, cursor and call in progress are consistent | nothing |
| `NothingElseChanges` | only the sectors a package names, the first backup sector and the sectors after these ever change | nothing |
| `SafeInvariant`, `Recoverable` | the update is deleted only when all of it is installed | `SafePackagesOnly` |
| `BackupWhole` | while its header stands, the whole update is undamaged | `SafePackagesOnly` |
| `UpdateImplementsContract` | `FwuUpdate` implements `UpdateContract` | `SafePackagesOnly` |
| `CommandsObeyed` | every command finds the chip selected, idle and write-enabled | - |
| `AlwaysReadable` | between calls the flash can be read and nothing cached is out of date | - |
| `SuccessMeansWritten` | a call for an address of the part that returns success has put exactly its bytes into the flash | - |
| `DriverImplementsStore` | `SpiDriver` implements `SectorStore`, any power losses included | - |
| `ReportsTrue`, `OutsideStays` | of a write that begins in the part: what it reports is in the flash; what is not `Exposed` is as it was | - |
| `PoolAlwaysConsistent` | the handle pool is consistent for every pool size | - |
| `LockExcludes`, `WakeupsArrive`, `FifoNeverOverrun` | the lock excludes, no wake-up is lost and no character is dropped, for any set of CPUs | - |
| `MessagesWhole` | while nobody panics, messages are on the wire in one piece, for any set of CPUs and length | - |
| `ListOrdered` | the list of regions is sorted, nested or apart, none ending beyond the maxima, whatever is passed | - |
| `DescriptorsStay` | building the tables never changes a descriptor in use | - |
| `TablesBuilt` | at every step of `init_xlat_tables` the tables say what the list says of the regions mapped so far | - |
| `NeverPanics` | mapping a region meets no entry it does not expect, and gets to the region's end | - |
| `BlocksLargest` | every address is mapped by the largest block possible | - |
| `ListMapped` | the finished tables translate every address as the innermost region of the list does | - |
| `MmuFollowsList` | once the MMU is on, every virtual address of the word is accessed as the list says, or faults | - |
| `DynamicListExact` | with dynamic regions the list stays sorted, nested or apart, and its maxima exact, whatever is added, removed or undone | - |
| `EveryStateOnce` | a walk over the power states meets every composite state once and then resets its index | - |
| `IdsTellStatesApart` | the composite ids hold the local ids, differ for different states, and are refused exactly if a level sleeps more deeply than the one below | - |
| `LoopsMeanWhatTheyShould` | the memory and string functions, `zeromem16` and `memcpy16` give the cells and results of the C standard | - |
| `TreeIsTheDescription` | the array is the tree of the description; the limits of a domain are its CPUs, unless it is node 0 of a deep tree; it is present only with a CPU, and if its first one is | - |
| `WhatTheSetupLeaves` | for exactly which domains the limits and the presence are what the comments say | - |
| `QueriesAnswerTheTree` | asked of domains so described, the loop macros go through what they name, once and in order; the searches find another present CPU if there is one, and the parent asked for | - |
| `HandlesAlwaysReturned` | between calls only a load in parts has something open, whatever the drivers do | - |

`SafePackagesOnly` says that every package is `WellFormed` (as the packaging tool lays
FIPs out, back to back and inside the flash) and `LayoutSafe` (no block is written
into, or just before, the backup area or the place of a block written earlier).
It is sufficient for what is proved, not necessary: a FIP that is no longer needed could be
overwritten.  The five packages of `fwu_safe` satisfy it (`SafeInstance`), the one of
`fwu_descending` does not.

**The argument.**  `BackupUntilInstalled` is far from inductive: that everything is
installed when the header goes depends on where the cursor is.  `SafeInv` adds to the
types four parts, one per stage of the program.

* `LoadInv`: at the top of the loop, the address is that of a FIP all whose predecessors
  are installed, or everything is installed and there is no FIP at the address.
* `WriteInv`: while a FIP is being written the header stands, DDR holds that FIP
  unchanged, and all blocks before the cursor are installed (`InstalledBefore`).
* `BusyInv`: a block write carries the right data, and when it has returned the data
  is in the flash.
* `EraseInv`: the header is erased only when everything is installed, with something
  that is not a header.

The steps that need thought are those of the flash.  `FlashFootprint` says that a step or a
power loss during a block write changes that block and the one after it only;
`ImageWriteKeeps` and `HeaderWriteKeepsImages` use `LayoutSafe` to show that neither is a
block installed before, a sector of the backup area, or (for the header) an image.
A power loss loses the cursor but not the flash, and at `load` with the first FIP
nothing needs to be installed yet; that is why `LoadInv` does not speak of the past.

`SpiDriverProofs` has two layers.  `CtlInv` says for each step of the driver what it knows of the
transfer in flight, the mode of the controller, the chip (selected, write-enabled, busy) and the cache; it is
inductive without a word about data, and gives `CommandsObeyed` and `AlwaysReadable`.  `WriteInv`
builds on it: the first sector erased is that of the call, and what is erased after it leaves it blank
(`EraseInv`); in the loop over pages the caller's bytes up to `pos` are written and the sector is blank from
there, and where the transfer of a page and the program operation stand decides to which of the two it belongs (`PageInv`).

On these rests `DriverImplementsStore`.  `SectorStore` has one step where the driver has several, so the proof says for each
step of the driver which step of the store it is, or that it is none: an erase is the store's when the chip ends it, the
pages of a call are one write, which takes effect with the last of them.  What a sector holds in between cannot be told from
its bytes: a page that has been programmed may by chance be what the whole write would leave.  The
history variable `unfinished` tells, and `SectorsInv` says what it must: the sector of the call is in it from the first page
to the last but one, the erase takes it out, and what a call does not write of its sector is blank when its pages are programmed.  A power
loss cuts an operation of the chip or a call between two; in either case it is a power loss of the store.

`WriteInv` of `IoSpiProofs` speaks of a write that begins in the part, whose blocks before the end are those the cursor
names; such a write cannot get to where a word wraps around, since the first block past the part is refused.  It has two shapes.  Between blocks (`Settled`) the promise holds of what is written so far.
Inside a block (`Underway`) the copy of the block has the caller's bytes and, in front of them, what was there
(`BlockData`), the blocks before it are as promised and those after the next one untouched; it cannot say more, for the erase
may have taken the next sector with it.  Either part has to except what an erase after the last sector
may have come around to (`Hit`, which becomes `Wrapped` when the block is done).  `Cursors` says that only
the first block is begun in its middle, so that the blocks written before have no part that a later block erases.

`CursorInv` of `MpPrintfProofs` ties the wire to the CPU that holds the lock: what it has
transmitted is the beginning of its message, and behind that there are only whole messages.

The first part of `LibraryProofs` shows that between calls at most one entity of the pool is in use, so that the first free one is always there
and what a call has taken it gives back on every path, the ones on which a driver refuses included.

Its second part is about the walks of `PowerStates`.  `StatesInv` orders the indices as numbers whose highest digit is that of the highest level (`Before`), with the
unset array before all of them, and says that what has been asked for are exactly the states not after the present one.  A turn of the odometer goes to the state that
follows (`OdometerTurns`: nothing lies between, because the wheels below the one that turns were all at their last place), and when all wheels wrap no state is left
(`OdometerOver`).  `Knows` is the invariant of the loop of `tftf_get_pstate_vars`: the id so far is below the place of the next level, its digits are the local ids and
the depth kept is that of the level below, as long as no level was refused.  Two ids of one level that agree have the same digits, hence the same states.

The third part is about the loops of `LibcMemory`.  A loop is a recursive function, and TLA+ says of such a function only that it is one that satisfies its equation; so each
proof exhibits one that does.  For a loop that copies or sets this is the memory after k turns in closed form (`Copied`, `Zeroed`, `StrCopied`), and by
induction on k (`Upward`) every solution agrees with it.  For one that searches it is the value at the first stop (`ScanFinds`).  Two facts carry the rest: copying from the first byte never reads
a cell it has written if the destination is not inside the source, and the unsigned difference of `memmove` is at least `len` in just these cases (`MemMoveCopies`).
Induction itself is the least-number principle of the library's well-founded relations, stated for sets (`Least`, `Upward`, `Iterates`).

The last part is about `PowerDomains`, on any platform that `PlatformAssumption` admits.  What a description says is settled first, without a state: where the
levels begin (`Shape`), that every node is on one level (`OneLevel`) and has one parent a level up (`OneParent`, `ParentOneUp`), that parents come in the order of
their children (`ParentsInOrder`), so that the CPUs of a domain stand side by side, and that every domain has one (`LinesReachAll`).  `TreeInv` then follows the setup: `LevelsInv` says
that the nodes made so far have the parents and levels of the description, and how the cursor in the description and the one among the nodes go together;
`LimitsInv` that each domain has the CPUs gone through that are in it, counted from its first, and that `nodes_idx` holds the domains of the CPU before.  A domain
begins when its number is not there; but the array starts as 0 above the first level, so that node 0 of a tree of three levels or more is taken for the domain of a CPU before the first,
gets no first CPU and is never present (`LimitedFrom`).  This is why `Limited` leaves it out, and `WhatTheSetupLeaves` shows that it leaves out no other:
`TopNode` finds node 0 among the ancestors of the first CPU, and `MarkedPresent` reads the presence of a domain off `LimitsInv`.  For the queries, `LoopEnumerates` says that a loop whose step leads from each node of a set to the next goes through the set once and ends; each macro's
step does (`CpusLead`, `DomainsLead`, `CpusOfLead`).  Nothing is said of a loop over a domain that `Answerable` leaves out.

`PoolInv` of `IoSpiProofs` says that at most one entity is used and that the one used is the
one whose file is open; cardinality facts come from `FiniteSetTheorems`.

The invariant of `MpPrintfProofs` adds to `MutualExclusion` and `NoLostWakeup` what makes
them inductive: a CPU about to store has seen the lock free, and if its monitor is still armed
nobody has taken the lock since (`MonitorInv`); and a CPU that has polled still has room in the FIFO,
since whoever else could fill it would have to hold the lock or panic (`RoomInv`).

The invariant of the first part of `XlatTablesProofs` has two independent parts.  `ListInv`: a region that passes
the check neither wraps around nor is empty (`AcceptedProper`, from `WrapOnce`), `Places` puts it
behind all regions that come before it and in front of all others (`PlaceInOrder`, which needs that two compatible regions
are never equal in end and size), and inserting there keeps the order
(`InsertAtFacts`).  `TablesInv`: the tables keep their shape, and hold no descriptor until
`init_xlat_tables` has cleared them, which is why `StartInit` overwrites none.

The second part is about what is in the tables.  No invariant that follows the walk of the MMU from the base table is
inductive, for a step changes one entry somewhere in the tree.  `Built` gives instead every table in use a level and the number of the block it
translates, which no two tables share (`Tree`), and says of each entry by itself what it may be (`Contents`): nothing mapped so far has an address in its block (`Untouched`),
or the first region of the list that has one fills it and fits (`Maker`), or does not (`Splitter`).  Since the list is sorted by end
and size, the first region with an address in a block is the innermost there, and later ones leave it alone.
`FramesOk` ties the recursion to the tree: each frame is in the table of the entry below it, and all of the region in front of
`Reached` is mapped.  `TablesBuilt` is that this is kept by every action.  `NeverPanics` follows entry by entry; the walk equation of
`TableAt` leads an address down the tree to the one leaf of its block (`LeafFound`), from which `BlocksLargest` and `ListMapped`
are read off.

`MmuProofs` goes on from the tables to the MMU that reads them.  `TablesStay` says that to the tables `MmuSetup` is
`XlatTables`, so what has been proved of them holds.  `RegsInv` follows the instructions: what has been written, and that only SCTLR can
still be under way when its M bit is set, since the barrier in front of that has made the other registers effective and the TLB clean.
`Suits` is what the registers must say, and `CfgSuits` that both `setup_mmu_cfg` say it; the case that needs
thought is TCR.PS, which reaches the highest address mapped because no higher range has a bit of it (`PhysicalSize`).
With such registers the MMU begins at the base table and ends at the entry that `TableAt` gives (`HardwareReads`, `WalkEnds`), and what it makes
of that entry is what the innermost region says (`MappedLookup`, on the leaf that `LeafFound` gives; `BeyondTables` for the rest of the word).

Its second part is about the list of `XlatDynamic`.  `DynamicInv` says that the maxima are the greatest ends of the regions that count (`Counting`):
an addition puts its region into the list at once but raises the maxima only when all of it is mapped, so that a failed one has nothing to lower;
a removal looks for a new maximum only when the region that goes had it (`DelistKeeps`).  `CallInv` ties the call in
progress to the step it may be at, which is how a walk that ends knows whose region it was.

**Only model-checked:** the liveness properties (`UpdateCompletes`, `RunEnds`,
`CallReturns`, `WriteEnds`, `AllPrinted`, `InitEnds`), which need fairness; `ListingExact`, since the listing is a
recursive operator; what `XlatDynamic` says of tables and TLBs (`TableCounts`, `MapFollowsList`, `TlbFresh`,
`OthersUndisturbed`), whose proofs have not been done; the properties of the expected violations; and `PrintfFields` and `SnprintfBounded`, since `LibcPrint` holds recursive
operators: it is compared with its definitions over bounded inputs.

## 7. What is not modelled, and why

See `PROJECT.json` for the status of every component.  Translation contexts made at run time (`xlat_setup_dynamic_ctx`)
differ from the static one in who gives the arrays, and the AArch32 register layout is left out.  `rand`, `setjmp`, `abort`, `assert` and
`exit` of the C library are not modelled.  `disable_mmu` and the cache operations by set and way have no caller.
The rest of `plat/common` and `plat/arm` belongs to other platforms, whose headers, drivers and makefiles are not in the
repository: what its code runs on cannot be read from the source.  Two hazards of the console are in the model without a property that excludes
them: a CPU that panics while another prints turns the transmitter off under it, and `console_putc` clears
TEND after it has written a character, so that `console_flush` would wait for ever if the character
had been sent by then (it takes about 87 us, the clearing three instructions).  Boot entry and exception stubs are straight-line
assembly whose effects the models assume: one CPU, memory as the map says,
a fault ends the run (`exception_stubs.S` loops for ever).  BL2, the SMC interface and the packaging of
updates are outside the repository; they appear as `StartUpdate`, `BootFirmware`,
`UpdateDone` and the constant `Packages`.

## 8. Plan

In this order, so that the behaviour that matters most comes first.

1. Done: `SectorStore`, `FwuUpdate`, `UpdateContract`, `SpiDriver`, `IoSpi`, `MpPrintf`,
   `XlatTables`, `RzgMemoryMap`, `XlatDynamic`, and the proofs above.
2. Done: `MmuSetup`, `LibcMemory`, `LibcPrint`, `PowerDomains`, `PowerStates`, `ImageLoader`; byte-granular writes in
   `SectorStore`, which `SpiDriver` is checked to implement.
3. Done: the proofs of `SpiDriver`, of what `IoSpi` writes, of whole messages and of the image loader's handles; those of
   `PowerStates`, `PowerDomains` and `LibcMemory`.
4. Done: that `SpiDriver` implements `SectorStore`, that the tables of `XlatTables` say what the list says, and that the MMU
   turned on by `MmuSetup` follows it; that
   `XlatDynamic` keeps its list in order.
5. More proofs: the tables of `XlatDynamic`, for which `Built` has to be extended to walks that unmap and to tables that an undo has
   lost; `LibcPrint`, whose recursive operators would become functions, as those of the other modules of the `library` run have.

## 9. Running it

```
tlc -config fwu_safe.cfg MCFwuUpdate      # and so on; the run's name is the cfg's
tlapm FwuUpdateProofs.tla
tlapm DivisionFacts.tla
tlapm SpiDriverProofs.tla
tlapm IoSpiProofs.tla
tlapm MpPrintfProofs.tla
tlapm XlatTablesProofs.tla
tlapm MmuProofs.tla
tlapm LibraryProofs.tla
```
