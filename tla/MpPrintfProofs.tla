--------------------------- MODULE MpPrintfProofs ---------------------------
(***************************************************************************)
(* Proofs about MpPrintf, for any set of CPUs, any FIFO and any number of  *)
(* messages.                                                               *)
(***************************************************************************)
EXTENDS MpPrintf, SequenceTheorems, TLAPS

\* A CPU that panics never comes near the lock, and only such a CPU flushes.
PanicInv ==
  \A c \in CPU :
    /\ pc[c] \in {"flush", "dead"} => panicking[c]
    /\ pc[c] \in {"idle", "wfe", "ldaxr", "stxr", "unlock"} => ~panicking[c]

\* A store exclusive whose monitor is still armed finds the lock free.
MonitorInv ==
  \A c \in CPU : pc[c] = "stxr" /\ monitor[c] => lock = 0

\* The CPU that is about to write a character has room for it.
RoomInv ==
  NobodyPanics => ~dropped /\ \A c \in CPU : pc[c] = "put" => Len(fifo) < Depth

NobodyPrints == \A c \in CPU : ~Printing(c)

LockInv == MutualExclusion /\ NoLostWakeup /\ MonitorInv

Inv == TypeOK /\ PanicInv /\ LockInv /\ RoomInv

-----------------------------------------------------------------------------
LEMMA InitInv == Init => Inv
<1>. SUFFICES ASSUME Init PROVE Inv
  OBVIOUS
<1>1. TypeOK
  <2>1. <<>> \in Seq(Char)
    OBVIOUS
  <2>2. /\ pos \in [CPU -> 1 .. MsgLen] /\ msgs \in [CPU -> Nat]
        /\ lostMonitors \in 0 .. MaxLost
    BY PrintAssumption DEF Init
  <2>3. pc \in [CPU -> Steps]
    BY DEF Init, Steps
  <2>4. /\ lock \in {0, 1} /\ monitor \in [CPU -> BOOLEAN]
        /\ event \in [CPU -> BOOLEAN] /\ panicking \in [CPU -> BOOLEAN]
        /\ tend \in BOOLEAN /\ te \in BOOLEAN /\ dropped \in BOOLEAN
    BY DEF Init
  <2>. QED  BY <2>1, <2>2, <2>3, <2>4 DEF Init, TypeOK
<1>2. PanicInv /\ RoomInv
  BY DEF Init, PanicInv, RoomInv
<1>3. LockInv
  BY DEF Init, LockInv, MutualExclusion, NoLostWakeup, MonitorInv, Printing
<1>. QED  BY <1>1, <1>2, <1>3 DEF Inv

\* Every step keeps the types.
LEMMA NextType ==
  ASSUME TypeOK, [Next]_vars
  PROVE  TypeOK'
<1>. USE PrintAssumption DEF TypeOK
<1>1. ASSUME NEW c \in CPU, Call(c) PROVE TypeOK'
  BY <1>1 DEF Call, Steps, uartVars
<1>2. ASSUME NEW c \in CPU, WaitForEvent(c) \/ LoadExclusive(c) PROVE TypeOK'
  BY <1>2 DEF WaitForEvent, LoadExclusive, Steps, uartVars
<1>3. ASSUME NEW c \in CPU, StoreExclusive(c) \/ Unlock(c) PROVE TypeOK'
  BY <1>3 DEF StoreExclusive, Unlock, Disarm, Steps, uartVars, lockVars
<1>4. ASSUME NEW c \in CPU, Poll(c) \/ ClearTend(c) \/ Flush(c) PROVE TypeOK'
  BY <1>4 DEF Poll, ClearTend, Flush, Steps, uartVars, lockVars
<1>5. ASSUME NEW c \in CPU, Put(c) PROVE TypeOK'
  <2>1. pos[c] \in 1 .. MsgLen /\ msgs[c] \in Nat
    OBVIOUS
  <2>2. AfterPut(c) \in 1 .. MsgLen
    BY <2>1 DEF AfterPut
  <2>3. <<c, msgs[c], pos[c]>> \in Char
    BY <1>5, <2>1 DEF Char
  <2>4. fifo' \in Seq(Char) /\ dropped' \in BOOLEAN
    <3>1. Append(fifo, <<c, msgs[c], pos[c]>>) \in Seq(Char)
      BY <2>3, AppendProperties
    <3>2. CASE Len(fifo) < Depth
      BY <1>5, <3>1, <3>2 DEF Put
    <3>3. CASE ~(Len(fifo) < Depth)
      BY <1>5, <3>3 DEF Put
    <3>. QED  BY <3>2, <3>3
  <2>5. pos' \in [CPU -> 1 .. MsgLen] /\ pc' \in [CPU -> Steps]
    BY <1>5, <2>2 DEF Put, Steps
  <2>. QED  BY <1>5, <2>4, <2>5 DEF Put, lockVars
<1>6. ASSUME NEW c \in CPU, Panic(c) PROVE TypeOK'
  BY <1>6 DEF Panic, Steps, uartVars, lockVars
<1>9. ASSUME NEW c \in CPU, LoseMonitor(c) PROVE TypeOK'
  BY <1>9 DEF LoseMonitor, uartVars
<1>7. CASE Transmit
  BY <1>7 DEF Transmit, lockVars
<1>8. CASE UNCHANGED vars
  BY <1>8 DEF vars, lockVars, uartVars
<1>. QED
  BY <1>1, <1>2, <1>3, <1>4, <1>5, <1>6, <1>7, <1>8, <1>9 DEF Next, Step

\* What a store to the lock does to the monitors and the events.
LEMMA DisarmFacts ==
  ASSUME NEW c \in CPU, Disarm(c)
  PROVE  \A d \in CPU : /\ ~monitor'[d]
                        /\ event'[d] <=> event[d] \/ (d # c /\ monitor[d])
  BY Zenon DEF Disarm

\* Every step keeps the lock, the monitors and the events in agreement.
LEMMA NextLock ==
  ASSUME TypeOK, PanicInv, LockInv, [Next]_vars
  PROVE  PanicInv' /\ LockInv'
<1>. USE DEF TypeOK, PanicInv, LockInv, MutualExclusion, NoLostWakeup, MonitorInv,
             Printing
<1>1. ASSUME NEW c \in CPU, Call(c) PROVE PanicInv' /\ LockInv'
  BY <1>1 DEF Call
<1>2. ASSUME NEW c \in CPU, WaitForEvent(c) PROVE PanicInv' /\ LockInv'
  BY <1>2 DEF WaitForEvent
<1>3. ASSUME NEW c \in CPU, LoadExclusive(c) PROVE PanicInv' /\ LockInv'
  BY <1>3 DEF LoadExclusive
<1>4. ASSUME NEW c \in CPU, StoreExclusive(c) PROVE PanicInv' /\ LockInv'
  <2>1. CASE monitor[c]
    <3>1. /\ lock = 0 /\ lock' = 1 /\ panicking' = panicking
          /\ pc' = [pc EXCEPT ![c] = "poll"]
          /\ \A d \in CPU : /\ ~monitor'[d]
                            /\ event'[d] <=> event[d] \/ (d # c /\ monitor[d])
      BY <1>4, <2>1, DisarmFacts DEF StoreExclusive
    <3>2. NobodyPrints
      BY <3>1 DEF NobodyPrints
    <3>3. ~panicking[c] /\ Printing(c)'
      BY <1>4, <3>1 DEF StoreExclusive
    <3>4. MutualExclusion'
      BY <3>1, <3>2, <3>3 DEF NobodyPrints
    <3>5. PanicInv' /\ NoLostWakeup' /\ MonitorInv'
      BY <3>1
    <3>. QED  BY <3>4, <3>5
  <2>2. CASE ~monitor[c]
    BY ZenonT(30), <1>4, <2>2 DEF StoreExclusive, lockVars
  <2>. QED  BY <2>1, <2>2
<1>5. ASSUME NEW c \in CPU, Unlock(c) PROVE PanicInv' /\ LockInv'
  <2>1. /\ lock' = 0 /\ panicking' = panicking
        /\ pc' = [pc EXCEPT ![c] = "idle"] /\ pc[c] = "unlock"
        /\ \A d \in CPU : /\ ~monitor'[d]
                          /\ event'[d] <=> event[d] \/ (d # c /\ monitor[d])
    BY <1>5, DisarmFacts DEF Unlock
  <2>2. MutualExclusion'
    BY <2>1
  <2>3. PanicInv' /\ NoLostWakeup' /\ MonitorInv'
    BY <2>1
  <2>. QED  BY <2>2, <2>3
<1>6. ASSUME NEW c \in CPU, Poll(c) \/ Put(c) PROVE PanicInv' /\ LockInv'
  <2>1. \/ pc[c] = "poll" /\ pc' = [pc EXCEPT ![c] = "put"]
        \/ pc[c] = "put" /\ \E s \in {"poll", "clear"} : pc' = [pc EXCEPT ![c] = s]
    BY <1>6 DEF Poll, Put
  <2>2. lock' = lock /\ monitor' = monitor /\ event' = event /\ panicking' = panicking
    BY <1>6 DEF Poll, Put, lockVars
  <2>3. \A d \in CPU : Printing(d)' <=> Printing(d)
    BY <2>1, <2>2
  <2>4. MutualExclusion'
    BY <2>2, <2>3
  <2>5. PanicInv' /\ NoLostWakeup' /\ MonitorInv'
    BY <2>1, <2>2
  <2>. QED  BY <2>4, <2>5
<1>10. ASSUME NEW c \in CPU, ClearTend(c) PROVE PanicInv' /\ LockInv'
  <2>1. CASE panicking[c]
    BY <1>10, <2>1 DEF ClearTend, lockVars
  <2>2. CASE ~panicking[c]
    BY <1>10, <2>2 DEF ClearTend, lockVars
  <2>. QED  BY <2>1, <2>2
<1>11. ASSUME NEW c \in CPU, Flush(c) PROVE PanicInv' /\ LockInv'
  BY <1>11 DEF Flush, lockVars
<1>7. ASSUME NEW c \in CPU, Panic(c) PROVE PanicInv' /\ LockInv'
  BY <1>7 DEF Panic, lockVars
<1>8. ASSUME NEW c \in CPU, LoseMonitor(c) PROVE PanicInv' /\ LockInv'
  BY <1>8 DEF LoseMonitor
<1>9. CASE Transmit \/ UNCHANGED vars
  BY <1>9 DEF Transmit, vars, lockVars
<1>. QED
  BY <1>1, <1>2, <1>3, <1>4, <1>5, <1>6, <1>7, <1>8, <1>9,
     <1>10, <1>11 DEF Next, Step

\* A panic is for good.
LEMMA PanicStays == ASSUME TypeOK, [Next]_vars, NobodyPanics' PROVE NobodyPanics
  BY DEF TypeOK, NobodyPanics, Next, Step, Call, WaitForEvent, LoadExclusive,
         StoreExclusive, Unlock, Poll, Put, ClearTend, Flush, Panic, LoseMonitor,
         Transmit, vars

\* The room a CPU has seen in the FIFO is still there when it writes: nobody
\* else writes, since it holds the lock.
LEMMA NextRoom ==
  ASSUME Inv, [Next]_vars
  PROVE  RoomInv'
<1>. SUFFICES ASSUME NobodyPanics'
              PROVE  ~dropped' /\ \A c \in CPU : pc'[c] = "put" => Len(fifo') < Depth
  BY DEF RoomInv
<1>. USE DEF Inv, TypeOK
<1>0. NobodyPanics /\ ~dropped /\ \A c \in CPU : pc[c] = "put" => Len(fifo) < Depth
  BY PanicStays DEF RoomInv
<1>1. \A c, d \in CPU : pc[c] = "put" /\ pc[d] = "put" => c = d
  BY <1>0 DEF LockInv, MutualExclusion, Printing, NobodyPanics
<1>2. ASSUME NEW c \in CPU, Poll(c)
      PROVE  ~dropped' /\ \A d \in CPU : pc'[d] = "put" => Len(fifo') < Depth
  BY <1>0, <1>2 DEF Poll, FifoFree, uartVars
<1>3. ASSUME NEW c \in CPU, Put(c)
      PROVE  ~dropped' /\ \A d \in CPU : pc'[d] = "put" => Len(fifo') < Depth
  BY <1>0, <1>1, <1>3 DEF Put
<1>4. ASSUME NEW c \in CPU,
             Call(c) \/ WaitForEvent(c) \/ LoadExclusive(c) \/ StoreExclusive(c)
               \/ Unlock(c) \/ ClearTend(c) \/ Flush(c) \/ Panic(c) \/ LoseMonitor(c)
      PROVE  ~dropped' /\ \A d \in CPU : pc'[d] = "put" => Len(fifo') < Depth
  BY <1>0, <1>4 DEF Call, WaitForEvent, LoadExclusive, StoreExclusive, Unlock,
                    ClearTend, Flush, Panic, LoseMonitor, uartVars
<1>5. CASE Transmit
  <2>1. Len(fifo') < Len(fifo) /\ Len(fifo) \in Nat /\ Len(fifo') \in Nat
    BY <1>5 DEF Transmit
  <2>2. Depth \in Nat
    BY PrintAssumption
  <2>. QED  BY <1>0, <1>5, <2>1, <2>2 DEF Transmit
<1>6. CASE UNCHANGED vars
  BY <1>0, <1>6 DEF vars, uartVars
<1>. QED  BY <1>2, <1>3, <1>4, <1>5, <1>6 DEF Next, Step

\* The invariant of the lock, the monitors and the FIFO together.
THEOREM PrintInvariant == Spec => []Inv
<1>1. Inv /\ [Next]_vars => Inv'
  BY NextType, NextLock, NextRoom DEF Inv
<1>. QED  BY <1>1, InitInv, PTL DEF Spec

\* At most one CPU is between spin_lock and spin_unlock, for any number of CPUs.
THEOREM LockExcludes == Spec => []MutualExclusion
<1>1. Inv => MutualExclusion
  BY DEF Inv, LockInv
<1>. QED  BY <1>1, PrintInvariant, PTL

\* No wake-up is lost between the load of spin_lock and its WFE.
THEOREM WakeupsArrive == Spec => []NoLostWakeup
<1>1. Inv => NoLostWakeup
  BY DEF Inv, LockInv
<1>. QED  BY <1>1, PrintInvariant, PTL

\* While nobody panics no character meets a full FIFO, whatever its size.
THEOREM FifoNeverOverrun == Spec => []NothingDropped
<1>1. Inv => NothingDropped
  BY DEF Inv, RoomInv, NothingDropped
<1>. QED  BY <1>1, PrintInvariant, PTL

-----------------------------------------------------------------------------
(* What is on the wire.                                                      *)

\* Every character of s is the first of a message and follows the last of one, or
\* follows the one before it in the same message.
Whole(s) ==
  \A k \in 1 .. Len(s) :
    IF s[k][3] = 1 THEN k > 1 => s[k - 1][3] = MsgLen
    ELSE k > 1 /\ s[k - 1] = <<s[k][1], s[k][2], s[k][3] - 1>>

AtBoundary(s) == s # <<>> => s[Len(s)][3] = MsgLen

\* A CPU in the middle of a message holds the lock and has put the last character on
\* the wire; if there is none, the last message is complete.
CursorInv ==
  NobodyPanics =>
    /\ \A c \in CPU : pos[c] # 1 =>
         Printing(c) /\ Sent # <<>> /\ Sent[Len(Sent)] = <<c, msgs[c], pos[c] - 1>>
    /\ \A c \in CPU : pc[c] = "unlock" => pos[c] = 1
    /\ (\A c \in CPU : pos[c] = 1) => AtBoundary(Sent)

WireInv == CursorInv /\ (NobodyPanics => Whole(Sent))

\* A message goes on with its next character, or a new one begins behind a complete one.
LEMMA WholeAppend ==
  ASSUME NEW s \in Seq(Char), NEW x \in Char, Whole(s),
         IF x[3] = 1 THEN AtBoundary(s)
         ELSE s # <<>> /\ s[Len(s)] = <<x[1], x[2], x[3] - 1>>
  PROVE  Whole(Append(s, x))
<1>. DEFINE t == Append(s, x)
<1>1. /\ Len(t) = Len(s) + 1 /\ Len(s) \in Nat /\ t[Len(s) + 1] = x
      /\ \A k \in 1 .. Len(s) : t[k] = s[k]
  BY AppendProperties
<1>2. s # <<>> <=> Len(s) > 0
  BY EmptySeq
<1>. HIDE DEF t
<1>3. SUFFICES ASSUME NEW k \in 1 .. Len(t)
               PROVE  IF t[k][3] = 1 THEN k > 1 => t[k - 1][3] = MsgLen
                      ELSE k > 1 /\ t[k - 1] = <<t[k][1], t[k][2], t[k][3] - 1>>
  BY DEF Whole, t
<1>4. CASE k <= Len(s)
  <2>1. k \in 1 .. Len(s) /\ t[k] = s[k] /\ (k > 1 => t[k - 1] = s[k - 1])
    BY <1>1, <1>4
  <2>. QED  BY <2>1 DEF Whole
<1>5. CASE k = Len(s) + 1
  <2>1. t[k] = x /\ (k > 1 <=> s # <<>>) /\ (k > 1 => t[k - 1] = s[Len(s)])
    BY <1>1, <1>2, <1>5
  <2>. QED  BY <2>1 DEF AtBoundary
<1>. QED  BY <1>1, <1>4, <1>5

\* Sending moves the first character of the FIFO to the end of the wire.
LEMMA TransmitKeepsSent == ASSUME TypeOK, Transmit PROVE Sent' = Sent
<1>1. wire \in Seq(Char) /\ fifo \in Seq(Char) /\ fifo # <<>>
  BY DEF TypeOK, Transmit
<1>2. fifo = <<Head(fifo)>> \o Tail(fifo)
  BY <1>1
<1>3. Append(wire, Head(fifo)) \o Tail(fifo) = wire \o fifo
  BY <1>1
<1>. QED  BY <1>3 DEF Sent, Transmit

LEMMA InitWire == Init => WireInv
<1>. SUFFICES ASSUME Init PROVE WireInv
  OBVIOUS
<1>1. Sent = <<>> /\ \A c \in CPU : pos[c] = 1
  BY DEF Init, Sent
<1>. QED  BY <1>1 DEF WireInv, CursorInv, AtBoundary, Whole

\* A character written by the CPU that holds the lock goes behind its own last one.
LEMMA PutWire ==
  ASSUME Inv, WireInv, NobodyPanics, NEW c \in CPU, Put(c)
  PROVE  WireInv'
<1>. DEFINE x == <<c, msgs[c], pos[c]>>
<1>1. /\ wire \in Seq(Char) /\ fifo \in Seq(Char) /\ Sent \in Seq(Char)
      /\ pos \in [CPU -> 1 .. MsgLen] /\ pc \in [CPU -> Steps] /\ msgs[c] \in Nat
      /\ pos[c] \in 1 .. MsgLen /\ MsgLen \in Nat /\ MsgLen >= 2
  BY PrintAssumption DEF Inv, TypeOK, Sent
<1>2. x \in Char /\ x[1] = c /\ x[2] = msgs[c] /\ x[3] = pos[c]
  BY <1>1 DEF Char
<1>3. Len(fifo) < Depth
  BY DEF Inv, RoomInv, Put
<1>4. /\ fifo' = Append(fifo, x) /\ wire' = wire /\ msgs' = msgs /\ panicking' = panicking
      /\ pos' = [pos EXCEPT ![c] = AfterPut(c)] /\ pc[c] = "put"
      /\ pc' = [pc EXCEPT ![c] = IF pos[c] = MsgLen - 1 THEN "poll" ELSE "clear"]
  BY <1>3 DEF Put
<1>. HIDE DEF x
<1>5. Sent' = Append(Sent, x)
  BY <1>1, <1>2, <1>4 DEF Sent
<1>6. Printing(c) /\ Printing(c)'
  BY <1>1, <1>4 DEF Printing, NobodyPanics
<1>7. \A d \in CPU : d # c => pos[d] = 1 /\ pos'[d] = 1 /\ pc'[d] = pc[d] /\ pc[d] # "unlock"
  <2>1. \A d \in CPU : d # c => ~Printing(d)
    BY <1>6 DEF Inv, LockInv, MutualExclusion
  <2>2. \A d \in CPU : d # c => pos[d] = 1 /\ pc[d] # "unlock"
    BY <2>1 DEF WireInv, CursorInv, Printing, NobodyPanics
  <2>. QED  BY <1>1, <1>4, <2>2
<1>8. Whole(Sent')
  <2>1. CASE pos[c] = 1
    <3>1. \A d \in CPU : pos[d] = 1
      BY <1>7, <2>1
    <3>2. AtBoundary(Sent) /\ Whole(Sent)
      BY <3>1 DEF WireInv, CursorInv
    <3>. QED  BY <1>1, <1>2, <1>5, <2>1, <3>2, WholeAppend
  <2>2. CASE pos[c] # 1
    <3>1. Sent # <<>> /\ Sent[Len(Sent)] = <<x[1], x[2], x[3] - 1>> /\ Whole(Sent)
      BY <1>2, <2>2 DEF WireInv, CursorInv
    <3>. QED  BY <1>1, <1>2, <1>5, <2>2, <3>1, WholeAppend
  <2>. QED  BY <2>1, <2>2
<1>9. Sent' # <<>> /\ Sent'[Len(Sent')] = x
  BY <1>1, <1>2, <1>5, AppendProperties
<1>10. pos'[c] = AfterPut(c) /\ pc'[c] # "unlock"
  BY <1>1, <1>4
<1>11. CASE pos[c] = MsgLen
  <2>1. \A d \in CPU : pos'[d] = 1
    BY <1>7, <1>10, <1>11 DEF AfterPut
  <2>2. AtBoundary(Sent')
    BY <1>2, <1>9, <1>11 DEF AtBoundary
  <2>. QED  BY <1>8, <2>1, <2>2 DEF WireInv, CursorInv, AtBoundary, Whole
<1>12. CASE pos[c] # MsgLen
  <2>1. pos'[c] = pos[c] + 1 /\ pos'[c] # 1 /\ pos'[c] - 1 = pos[c]
    BY <1>1, <1>10, <1>12 DEF AfterPut
  <2>2. x = <<c, msgs'[c], pos'[c] - 1>>
    BY <1>4, <2>1 DEF x
  <2>3. \A d \in CPU : pc'[d] = "unlock" => pos'[d] = 1
    BY <1>7, <1>10
  <2>. QED  BY <1>6, <1>7, <1>8, <1>9, <2>1, <2>2, <2>3 DEF WireInv, CursorInv, AtBoundary, Whole
<1>. QED  BY <1>11, <1>12

\* The other steps put nothing on the wire and move no cursor; the lock is given up
\* only by a CPU whose message is complete.
LEMMA NextWire ==
  ASSUME Inv, WireInv, [Next]_vars
  PROVE  WireInv'
<1>1. CASE ~NobodyPanics'
  BY <1>1 DEF WireInv, CursorInv
<1>2. CASE NobodyPanics'
  <2>1. NobodyPanics
    BY <1>2, PanicStays DEF Inv
  <2>2. ASSUME Sent' = Sent, pos' = pos,
               \A d \in CPU : pos[d] # 1 => Printing(d)' /\ msgs'[d] = msgs[d],
               \A d \in CPU : pc'[d] = "unlock" => pos[d] = 1
        PROVE  WireInv'
    BY <2>1, <2>2 DEF WireInv, CursorInv, AtBoundary, Whole
  <2>3. \A d \in CPU : pos[d] # 1 => Printing(d) /\ pc[d] # "unlock"
    BY <2>1 DEF WireInv, CursorInv
  <2>4. \A d \in CPU : pc[d] = "unlock" => pos[d] = 1
    BY <2>1 DEF WireInv, CursorInv
  <2>. USE DEF Inv, TypeOK, Printing
  <2>5. ASSUME NEW c \in CPU, Call(c) \/ WaitForEvent(c) \/ LoadExclusive(c) PROVE WireInv'
    BY <2>2, <2>3, <2>4, <2>5 DEF Call, WaitForEvent, LoadExclusive, uartVars, Sent
  <2>6. ASSUME NEW c \in CPU, StoreExclusive(c) \/ Unlock(c) \/ Poll(c) PROVE WireInv'
    BY <2>2, <2>3, <2>4, <2>6 DEF StoreExclusive, Unlock, Poll, uartVars, lockVars, Sent
  <2>7. ASSUME NEW c \in CPU, ClearTend(c) \/ Flush(c) \/ LoseMonitor(c) PROVE WireInv'
    BY <2>2, <2>3, <2>4, <2>7 DEF ClearTend, Flush, LoseMonitor, uartVars, lockVars, Sent
  <2>8. ASSUME NEW c \in CPU, Put(c) PROVE WireInv'
    BY <2>1, <2>8, PutWire
  <2>9. ASSUME NEW c \in CPU, Panic(c) PROVE WireInv'
    BY <1>2, <2>9 DEF Panic, NobodyPanics
  <2>10. CASE Transmit
    <3>1. Sent' = Sent
      BY <2>10, TransmitKeepsSent
    <3>. QED  BY <2>2, <2>3, <2>4, <2>10, <3>1 DEF Transmit, lockVars
  <2>11. CASE UNCHANGED vars
    BY <2>2, <2>3, <2>4, <2>11 DEF vars, uartVars, lockVars, Sent
  <2>. QED  BY <2>5, <2>6, <2>7, <2>8, <2>9, <2>10, <2>11 DEF Next, Step
<1>. QED  BY <1>1, <1>2

\* While nobody panics every message on the wire is whole, for any number of CPUs and
\* messages and any FIFO.
THEOREM MessagesWhole == Spec => []NotInterleaved
<1>1. Inv /\ WireInv /\ [Next]_vars => WireInv'
  BY NextWire
<1>2. WireInv => NotInterleaved
  BY DEF WireInv, Whole, NotInterleaved
<1>. QED  BY <1>1, <1>2, InitWire, PrintInvariant, PTL DEF Spec
=============================================================================
