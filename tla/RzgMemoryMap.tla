----------------------------- MODULE RzgMemoryMap -----------------------------
(***************************************************************************)
(* The memory map of the RZ/G platform (plat/renesas/rzg/rzg_setup.c and   *)
(* platform_def.h), as the calls that XlatTables serves: addresses count   *)
(* units of 2 KB, two to a page.                                           *)
(***************************************************************************)
EXTENDS XlatTables

MapAttr ==
  [mem : {"device", "memory"}, rw : BOOLEAN, xn : BOOLEAN, ns : {TRUE}, user : {FALSE}]

Attribute(mem, rw, xn) ==
  [mem |-> mem, rw |-> rw, xn |-> xn, ns |-> TRUE, user |-> FALSE]

MT_CODE == Attribute("memory", FALSE, FALSE)
MT_RO_DATA == Attribute("memory", FALSE, TRUE)
MT_RW_DATA == Attribute("memory", TRUE, TRUE)
MT_MEMORY_RW == Attribute("memory", TRUE, FALSE)
MT_DEVICE_RW == Attribute("device", TRUE, FALSE)

\* MAP_REGION: no particular granularity means the largest block there is.
MapRegion(pa, va, size, attr) ==
  [pa |-> pa, va |-> va, size |-> size, attr |-> attr,
   gran |-> BlockSize(MinBlock), alloc |-> FALSE]

MapRegionFlat(base, size, attr) == MapRegion(base, base, size, attr)

KB(n) == n \div 2
MB(n) == n * KB(1024)
GB(n) == n * MB(1024)

NS_BL2U_BASE == GB(1) + MB(128)

\* The parts of the image, as long as one build makes them: within
\* NS_BL2U_LIMIT (308 KB) other lengths need the same tables.
IMAGE_TEXT_END == NS_BL2U_BASE + KB(48)
IMAGE_RODATA_END == IMAGE_TEXT_END + KB(16)
IMAGE_RW_END == IMAGE_RODATA_END + KB(64)

rzg_mmap ==
  << MapRegionFlat(MB(3680), MB(3), MT_DEVICE_RW),                      \* DEVICE0
     MapRegionFlat(MB(3683) + KB(384), MB(412) + KB(640), MT_DEVICE_RW),  \* DEVICE1
     MapRegionFlat(MB(128), MB(64), MT_DEVICE_RW),                      \* FLASH
     MapRegionFlat(GB(1), GB(2), MT_MEMORY_RW) >>                       \* DRAM

\* The regions in the order in which rzg_plat_configure_mmu adds them.
rzg_plat_configure_mmu ==
  << MapRegionFlat(NS_BL2U_BASE, IMAGE_TEXT_END - NS_BL2U_BASE, MT_CODE),
     MapRegionFlat(IMAGE_TEXT_END, IMAGE_RODATA_END - IMAGE_TEXT_END, MT_RO_DATA),
     MapRegionFlat(IMAGE_RODATA_END, IMAGE_RW_END - IMAGE_RODATA_END, MT_RW_DATA) >>
  \o rzg_mmap

PlatformCalls == [i \in DOMAIN rzg_plat_configure_mmu |-> {rzg_plat_configure_mmu[i]}]
=============================================================================
