----------------------------- MODULE ImageLoader -----------------------------
(***************************************************************************)
(* Loading images through the storage layer: plat/common/image_loader.c    *)
(* and the load policy of plat/arm/common/arm_fwu_io_storage.c, over the   *)
(* handle pool of drivers/io/io_storage.c.  The drivers behind it (a FIP   *)
(* and a memory-mapped device) are not in the repository: what they are    *)
(* asked to do may succeed or fail.                                        *)
(*                                                                         *)
(* The code is sequential and each function is one action; its paths are   *)
(* the members of sets of outcomes.  An outcome has the state of the       *)
(* storage layer and what the function returned.                           *)
(***************************************************************************)
EXTENDS Integers, FiniteSets

CONSTANTS
  Image,         \* image identifiers
  Device(_),     \* Device(i): the device that the policy of image i names
  MaxImages      \* MAX_IO_HANDLES

NoImage == "no image"

ASSUME LoaderAssumption == MaxImages \in Nat \ {0} /\ NoImage \notin Image

VARIABLES
  io,            \* entity_map (the image behind each entity), entity_count, devices initialised
  partial,       \* the static image_handle and dev_handle of load_partial_image
  loaded         \* what the last call did

loaderVars == <<io, partial, loaded>>

Handle == 0 .. MaxImages - 1
NoHandle == -1

\* The entities of storage state s that are in use.
InUse(s) == {h \in Handle : s.map[h] # NoImage}

LoaderInit ==
  /\ io = [map |-> [h \in Handle |-> NoImage], count |-> 0, ready |-> {}]
  /\ partial = [handle |-> NoHandle, dev |-> "none"]
  /\ loaded = [fn |-> "none", dev |-> "none", ret |-> "IO_FAIL"]

-----------------------------------------------------------------------------
(* The storage layer.                                                        *)

FirstFreeHandle(s) ==
  CHOOSE h \in Handle : s.map[h] = NoImage /\ \A g \in Handle : s.map[g] = NoImage => h <= g

Allocated(s, i) ==
  [map |-> [s.map EXCEPT ![FirstFreeHandle(s)] = i], count |-> s.count + 1, ready |-> s.ready]

\* free_entity, of an entity that is in the map
Freed(s, h) ==
  [map |-> [s.map EXCEPT ![h] = NoImage], count |-> s.count - 1, ready |-> s.ready]

\* Mutant: the entity stays allocated when the driver refuses.
OpenOutcomesLeak(s, i) ==
  IF s.count = MaxImages THEN {[io |-> s, handle |-> NoHandle]}
  ELSE {[io |-> Allocated(s, i), handle |-> FirstFreeHandle(s)],
        [io |-> Allocated(s, i), handle |-> NoHandle]}

\* io_open: take an entity; give it back when the driver's open fails.
OpenOutcomes(s, i) ==
  IF s.count = MaxImages THEN {[io |-> s, handle |-> NoHandle]}
  ELSE {[io |-> Allocated(s, i), handle |-> FirstFreeHandle(s)],
        [io |-> Freed(Allocated(s, i), FirstFreeHandle(s)), handle |-> NoHandle]}

\* io_close and then io_dev_close; the results of the driver are not looked at.
Closed(s, h, dev) == [Freed(s, h) EXCEPT !.ready = @ \ {dev}]

\* open_fwu_fip and open_memmap: initialise the device, and open the image to see
\* whether it is there.
CheckOutcomes(s, i) ==
  LET init == [s EXCEPT !.ready = @ \cup {Device(i)}]
  IN {[io |-> s, ret |-> "IO_FAIL"]}
       \cup {IF o.handle = NoHandle THEN [io |-> o.io, ret |-> "IO_FAIL"]
             ELSE [io |-> Freed(o.io, o.handle), ret |-> "IO_SUCCESS"] : o \in OpenOutcomes(init, i)}

\* plat_get_image_source and io_open, with which all four functions begin.
AccessOutcomes(s, i) ==
  UNION {IF c.ret = "IO_FAIL" THEN {[io |-> c.io, handle |-> NoHandle]} ELSE OpenOutcomes(c.io, i) :
           c \in CheckOutcomes(s, i)}

\* io_size: it fails, or the image is empty, or not.
\* io_read: it fails, or reads less than asked for, or all of it.
SizeOutcomes == {"failed", "zero", "some"}
ReadOutcomes == {"failed", "short", "whole"}

\* The goto's to exit take io_result with them: it is a failure only if a call failed.
ResultOf(o) == IF o = "failed" THEN "IO_FAIL" ELSE "IO_SUCCESS"

-----------------------------------------------------------------------------
(* The functions of image_loader.c.                                          *)

Returned(fn, dev, ret) == loaded' = [fn |-> fn, dev |-> dev, ret |-> ret]

\* get_image_offset, get_image_size: the latter goes on when io_size has failed.
GetImage(i) ==
  /\ \E a \in AccessOutcomes(io, i) :
       IF a.handle = NoHandle THEN io' = a.io /\ Returned("get_image", "none", "IO_FAIL")
       ELSE io' = Closed(a.io, a.handle, Device(i)) /\ Returned("get_image", Device(i), "IO_SUCCESS")
  /\ UNCHANGED partial

\* Mutant: a short read returns at once.
LoadImageReturnsEarly(i) ==
  /\ \E a \in AccessOutcomes(io, i), size \in SizeOutcomes, read \in ReadOutcomes :
       IF a.handle = NoHandle THEN io' = a.io /\ Returned("load_image", "none", "IO_FAIL")
       ELSE /\ io' = IF size = "some" /\ read = "short" THEN a.io ELSE Closed(a.io, a.handle, Device(i))
            /\ Returned("load_image", Device(i),
                        IF size = "some" THEN ResultOf(read) ELSE ResultOf(size))
  /\ UNCHANGED partial

LoadImage(i) ==
  /\ \E a \in AccessOutcomes(io, i), size \in SizeOutcomes, read \in ReadOutcomes :
       IF a.handle = NoHandle THEN io' = a.io /\ Returned("load_image", "none", "IO_FAIL")
       ELSE /\ io' = Closed(a.io, a.handle, Device(i))
            /\ Returned("load_image", Device(i),
                        IF size = "some" THEN ResultOf(read) ELSE ResultOf(size))
  /\ UNCHANGED partial

\* load_partial_image: the first call opens the image, whatever a later one is asked
\* for; it is closed when is_last_block is 0 and when not all could be read.
LoadPartialImage(i, is_last_block) ==
  \E a \in IF partial.handle = NoHandle THEN AccessOutcomes(io, i)
           ELSE {[io |-> io, handle |-> partial.handle]} :
    LET dev == IF partial.handle = NoHandle THEN Device(i) ELSE partial.dev
    IN IF a.handle = NoHandle
       THEN io' = a.io /\ Returned("load_partial_image", "none", "IO_FAIL") /\ UNCHANGED partial
       ELSE \E read \in ReadOutcomes :
              /\ IF read # "whole" \/ ~is_last_block
                 THEN /\ io' = Closed(a.io, a.handle, dev)
                      /\ partial' = [handle |-> NoHandle, dev |-> dev]
                 ELSE io' = a.io /\ partial' = [handle |-> a.handle, dev |-> dev]
              /\ Returned("load_partial_image", dev, ResultOf(read))

LoaderNext ==
  \E i \in Image :
    \/ GetImage(i)
    \/ LoadImage(i)
    \/ \E is_last_block \in BOOLEAN : LoadPartialImage(i, is_last_block)

LoaderSpec == LoaderInit /\ [][LoaderNext]_loaderVars

-----------------------------------------------------------------------------
\* Between calls the pool holds nothing but the image that load_partial_image has
\* still to read on, and counts it, however the calls before failed; and a call that
\* opened an image has closed the device, unless it left the image open for the next.
HandlesReturned ==
  /\ InUse(io) = {partial.handle} \ {NoHandle}
  /\ io.count = Cardinality(InUse(io))
  /\ loaded.dev # "none" =>
       (loaded.dev \in io.ready => loaded.fn = "load_partial_image" /\ partial.handle # NoHandle)
=============================================================================
