------------------------------- MODULE MpPrintf -------------------------------
(***************************************************************************)
(* Printing on the serial console from several CPUs: mp_printf             *)
(* (lib/utils/mp_printf.c) under the spin lock of                          *)
(* lib/locks/aarch64/spinlock.S, and do_panic (lib/debug/debug.c), which   *)
(* prints without it, over the transmitter driven by                       *)
(* drivers/renesas/console/rzg_console.S.                                  *)
(*                                                                         *)
(* The lock is modelled at the level of its instructions: the exclusive    *)
(* monitor that LDAXR arms and a store disarms, and the event register     *)
(* that WFE waits for and that disarming the monitor sets.  A message is   *)
(* MsgLen characters; the newline is the last, and the carriage return     *)
(* that console_putc sends in front of it the last but one.                *)
(***************************************************************************)
EXTENDS Integers, Sequences

CONSTANTS
  CPU,
  MayPanic,     \* the CPUs that may call do_panic
  MsgLen,       \* characters of a message on the wire
  Depth,        \* size of the transmit FIFO (16)
  MaxMsgs,      \* bound on the messages of a CPU
  MaxLost       \* bound on the times a monitor is disarmed for no reason

ASSUME PrintAssumption ==
  /\ MayPanic \subseteq CPU
  /\ MsgLen \in Nat /\ MsgLen >= 2
  /\ Depth \in Nat \ {0}
  /\ MaxMsgs \in Nat /\ MaxLost \in Nat

VARIABLES
  lock,       \* printf_lock.lock
  monitor,    \* the CPU's exclusive monitor is armed for the lock
  event,      \* the CPU's event register
  pc,
  pos,        \* the character the CPU prints next
  msgs,       \* messages the CPU has printed or begun
  panicking,  \* the CPU is in do_panic
  fifo, tend, te,  \* transmit FIFO, SCFSR.TEND, SCSCR.TE
  wire,       \* what has been sent
  dropped,    \* history: a character was written to a full FIFO
  lostMonitors

lockVars == <<lock, monitor, event>>
uartVars == <<fifo, tend, te, wire, dropped>>
vars == <<lockVars, pc, pos, msgs, panicking, uartVars, lostMonitors>>

Steps == {"idle", "wfe", "ldaxr", "stxr", "poll", "put", "clear", "unlock",
          "flush", "dead"}

Char == CPU \X Nat \X (1 .. MsgLen)

TypeOK ==
  /\ lock \in {0, 1}
  /\ monitor \in [CPU -> BOOLEAN] /\ event \in [CPU -> BOOLEAN]
  /\ pc \in [CPU -> Steps]
  /\ pos \in [CPU -> 1 .. MsgLen]
  /\ msgs \in [CPU -> Nat]
  /\ panicking \in [CPU -> BOOLEAN]
  /\ fifo \in Seq(Char) /\ wire \in Seq(Char)
  /\ tend \in BOOLEAN /\ te \in BOOLEAN /\ dropped \in BOOLEAN
  /\ lostMonitors \in 0 .. MaxLost

Init ==
  /\ lock = 0
  /\ monitor = [c \in CPU |-> FALSE] /\ event = [c \in CPU |-> FALSE]
  /\ pc = [c \in CPU |-> "idle"]
  /\ pos = [c \in CPU |-> 1] /\ msgs = [c \in CPU |-> 0]
  /\ panicking = [c \in CPU |-> FALSE]
  /\ fifo = <<>> /\ wire = <<>> /\ tend = TRUE /\ te = TRUE
  /\ dropped = FALSE
  /\ lostMonitors = 0

-----------------------------------------------------------------------------
(***************************************************************************)
(* spin_lock and spin_unlock.                                              *)
(***************************************************************************)
\* A store to the lock disarms every monitor and wakes who had armed it.
Disarm(c) ==
  /\ monitor' = [d \in CPU |-> FALSE]
  /\ event' = [d \in CPU |-> event[d] \/ (d # c /\ monitor[d])]

\* Mutant: without the SEVL in front of the loop.
CallNoSevl(c) ==
  /\ pc[c] = "idle" /\ msgs[c] < MaxMsgs
  /\ msgs' = [msgs EXCEPT ![c] = @ + 1]
  /\ pc' = [pc EXCEPT ![c] = "wfe"]
  /\ UNCHANGED <<lockVars, pos, panicking, uartVars, lostMonitors>>

\* mp_printf calls spin_lock, which begins with SEVL.
Call(c) ==
  /\ pc[c] = "idle" /\ msgs[c] < MaxMsgs
  /\ msgs' = [msgs EXCEPT ![c] = @ + 1]
  /\ event' = [event EXCEPT ![c] = TRUE]
  /\ pc' = [pc EXCEPT ![c] = "wfe"]
  /\ UNCHANGED <<lock, monitor, pos, panicking, uartVars, lostMonitors>>

WaitForEvent(c) ==
  /\ pc[c] = "wfe" /\ event[c]
  /\ event' = [event EXCEPT ![c] = FALSE]
  /\ pc' = [pc EXCEPT ![c] = "ldaxr"]
  /\ UNCHANGED <<lock, monitor, pos, msgs, panicking, uartVars, lostMonitors>>

\* Mutant: the value loaded is not looked at.
LoadExclusiveUnchecked(c) ==
  /\ pc[c] = "ldaxr"
  /\ monitor' = [monitor EXCEPT ![c] = TRUE]
  /\ pc' = [pc EXCEPT ![c] = "stxr"]
  /\ UNCHANGED <<lock, event, pos, msgs, panicking, uartVars, lostMonitors>>

LoadExclusive(c) ==
  /\ pc[c] = "ldaxr"
  /\ monitor' = [monitor EXCEPT ![c] = TRUE]
  /\ pc' = [pc EXCEPT ![c] = IF lock # 0 THEN "wfe" ELSE "stxr"]
  /\ UNCHANGED <<lock, event, pos, msgs, panicking, uartVars, lostMonitors>>

\* Mutant: an ordinary store, which always succeeds.
StoreOrdinary(c) ==
  /\ pc[c] = "stxr"
  /\ lock' = 1
  /\ Disarm(c)
  /\ pc' = [pc EXCEPT ![c] = "poll"]
  /\ UNCHANGED <<pos, msgs, panicking, uartVars, lostMonitors>>

\* STXR stores only if the monitor is still armed.
StoreExclusive(c) ==
  /\ pc[c] = "stxr"
  /\ IF monitor[c]
     THEN /\ lock' = 1
          /\ Disarm(c)
          /\ pc' = [pc EXCEPT ![c] = "poll"]
     ELSE /\ pc' = [pc EXCEPT ![c] = "ldaxr"]
          /\ UNCHANGED lockVars
  /\ UNCHANGED <<pos, msgs, panicking, uartVars, lostMonitors>>

\* Mutant: mp_printf returns without spin_unlock.
UnlockForgotten(c) ==
  /\ pc[c] = "unlock"
  /\ pc' = [pc EXCEPT ![c] = "idle"]
  /\ UNCHANGED <<lockVars, pos, msgs, panicking, uartVars, lostMonitors>>

Unlock(c) ==
  /\ pc[c] = "unlock"
  /\ lock' = 0
  /\ Disarm(c)
  /\ pc' = [pc EXCEPT ![c] = "idle"]
  /\ UNCHANGED <<pos, msgs, panicking, uartVars, lostMonitors>>

\* The monitor may be disarmed for reasons of its own; that is an event too.
LoseMonitor(c) ==
  /\ monitor[c] /\ lostMonitors < MaxLost
  /\ monitor' = [monitor EXCEPT ![c] = FALSE]
  /\ event' = [event EXCEPT ![c] = TRUE]
  /\ lostMonitors' = lostMonitors + 1
  /\ UNCHANGED <<lock, pc, pos, msgs, panicking, uartVars>>

-----------------------------------------------------------------------------
(***************************************************************************)
(* console_putc, do_panic and the transmitter.                             *)
(***************************************************************************)
\* Mutant: waits for a FIFO that is not more than full.
FifoFreeOffByOne == Len(fifo) <= Depth

FifoFree == Len(fifo) < Depth

Poll(c) ==
  /\ pc[c] = "poll" /\ FifoFree
  /\ pc' = [pc EXCEPT ![c] = "put"]
  /\ UNCHANGED <<lockVars, pos, msgs, panicking, uartVars, lostMonitors>>

\* The character after the one just written; the first one at the end.
AfterPut(c) == IF pos[c] = MsgLen THEN 1 ELSE pos[c] + 1

\* A character written to a full FIFO is lost.  After the carriage return,
\* console_putc goes straight on to the newline.
Put(c) ==
  /\ pc[c] = "put"
  /\ IF Len(fifo) < Depth
     THEN fifo' = Append(fifo, <<c, msgs[c], pos[c]>>) /\ UNCHANGED dropped
     ELSE dropped' = TRUE /\ UNCHANGED fifo
  /\ pos' = [pos EXCEPT ![c] = AfterPut(c)]
  /\ pc' = [pc EXCEPT ![c] = IF pos[c] = MsgLen - 1 THEN "poll" ELSE "clear"]
  /\ UNCHANGED <<lockVars, msgs, panicking, tend, te, wire, lostMonitors>>

\* Clear TEND; the next character, or the end of the message.
ClearTend(c) ==
  /\ pc[c] = "clear"
  /\ tend' = FALSE
  /\ pc' = [pc EXCEPT ![c] = IF pos[c] # 1 THEN "poll"
                             ELSE IF panicking[c] THEN "flush" ELSE "unlock"]
  /\ UNCHANGED <<lockVars, pos, msgs, panicking, fifo, te, wire, dropped,
                 lostMonitors>>

\* do_panic: printf, without the lock.
Panic(c) ==
  /\ c \in MayPanic /\ pc[c] = "idle"
  /\ panicking' = [panicking EXCEPT ![c] = TRUE]
  /\ msgs' = [msgs EXCEPT ![c] = @ + 1]
  /\ pc' = [pc EXCEPT ![c] = "poll"]
  /\ UNCHANGED <<lockVars, pos, uartVars, lostMonitors>>

\* console_flush waits for TEND and turns the transmitter off; then for ever.
Flush(c) ==
  /\ pc[c] = "flush" /\ tend
  /\ te' = FALSE
  /\ pc' = [pc EXCEPT ![c] = "dead"]
  /\ UNCHANGED <<lockVars, pos, msgs, panicking, fifo, tend, wire, dropped,
                 lostMonitors>>

\* The transmitter sends a character; after the last one, TEND is set.
Transmit ==
  /\ te /\ fifo # <<>>
  /\ wire' = Append(wire, Head(fifo))
  /\ fifo' = Tail(fifo)
  /\ tend' = (tend \/ Len(fifo) = 1)
  /\ UNCHANGED <<lockVars, pc, pos, msgs, panicking, te, dropped, lostMonitors>>

Step(c) ==
  \/ Call(c) \/ WaitForEvent(c) \/ LoadExclusive(c) \/ StoreExclusive(c)
  \/ Poll(c) \/ Put(c) \/ ClearTend(c) \/ Unlock(c) \/ Flush(c)

Next ==
  \/ \E c \in CPU : Step(c) \/ Panic(c) \/ LoseMonitor(c)
  \/ Transmit

Spec == Init /\ [][Next]_vars

FairSpec == Spec /\ WF_vars(Transmit) /\ \A c \in CPU : WF_vars(Step(c))

-----------------------------------------------------------------------------
(***************************************************************************)
(* Properties.                                                             *)
(***************************************************************************)
Printing(c) == pc[c] \in {"poll", "put", "clear", "unlock"} /\ ~panicking[c]

NobodyPanics == \A c \in CPU : ~panicking[c]

\* One CPU at a time is between spin_lock and spin_unlock, and the lock word
\* says so: a store exclusive that raced with another one fails.
MutualExclusion ==
  /\ \A c, d \in CPU : Printing(c) /\ Printing(d) => c = d
  /\ lock = 1 <=> \E c \in CPU : Printing(c)

\* A CPU that sleeps in WFE has either been sent an event or has its monitor
\* armed on a lock that is held, and so will be sent one: no wake-up falls
\* between the load that found the lock taken and the wait.
NoLostWakeup ==
  \A c \in CPU : pc[c] = "wfe" => event[c] \/ (monitor[c] /\ lock = 1)

\* No character is written to a full FIFO, although the level is read in one
\* access and the character written in another (console_putc).
NothingDropped == NobodyPanics => ~dropped

\* "it can be called from several CPUs simultaneously without getting
\* interleaved messages" (debug.h): on the wire, every message is whole.
Sent == wire \o fifo

NotInterleaved ==
  NobodyPanics =>
    \A k \in 1 .. Len(Sent) :
      IF Sent[k][3] = 1
      THEN k > 1 => Sent[k - 1][3] = MsgLen
      ELSE k > 1 /\ Sent[k - 1] = <<Sent[k][1], Sent[k][2], Sent[k][3] - 1>>

\* Unless a CPU panics, everybody's messages are printed and sent.
AllPrinted ==
  <>(\/ ~NobodyPanics
     \/ /\ \A c \in CPU : pc[c] = "idle" /\ msgs[c] = MaxMsgs
        /\ fifo = <<>>)
=============================================================================
