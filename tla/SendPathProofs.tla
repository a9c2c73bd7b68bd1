--------------------------- MODULE SendPathProofs ---------------------------
(***************************************************************************)
(* The way of a packet to the socket: every counter that OutboundLoop      *)
(* reserved is in one place until it is on the wire, and nothing is        *)
(* overtaken on the way.                                                   *)
(***************************************************************************)
EXTENDS OutboundLoop, SequenceTheorems, TLAPS

-----------------------------------------------------------------------------
(***************************************************************************)
(* Types that do not depend on what was sealed so far.                     *)
(***************************************************************************)
Wires  == Seq(Nat)
Job    == [ctrs : Wires, done : BOOLEAN]
Place  == [at : {"select", "order", "slot", "drain", "residue"}, wires : Wires, rx : Job,
           to : BOOLEAN]
Worker == [phase : {"await", "gather", "flush"}, rx : Job]

Typed ==
    /\ paced \in BOOLEAN
    /\ pending \in Wires /\ Len(pending) <= MAX_QUEUE
    /\ sealed \in Wires
    /\ loop \in Place /\ (loop.at = "slot" => loop.wires # <<>>)
    /\ order \in Seq(Job) /\ Len(order) <= SEND_PIPELINE_BATCHES
    /\ sender \in Worker
    /\ send_q \in Seq(Wires) /\ Len(send_q) <= SEND_PIPELINE_BATCHES
    /\ hand \in Wires /\ pipe \in Wires /\ frame \in Wires /\ wire \in Wires
    /\ read \in 0 .. MaxPackets /\ slots \in 0 .. MaxSlots
    /\ switches \in 0 .. MaxSwitches /\ direct \in 0 .. MaxDirect

LEMMA Bounds ==
    /\ MAX_BATCH \in Nat /\ MAX_QUEUE \in Nat /\ SEND_PIPELINE_BATCHES \in Nat /\ pace_burst \in Nat
    /\ MAX_BATCH > 0 /\ MAX_QUEUE > 0 /\ SEND_PIPELINE_BATCHES > 0 /\ pace_burst > 0
    /\ MaxPackets \in Nat /\ MaxSlots \in Nat /\ MaxSwitches \in Nat /\ MaxDirect \in Nat
    /\ \A p \in Starts \cup Targets : p \in BOOLEAN
  BY OutboundAssumption

LEMMA SelectTyped == Select \in Place /\ None \in Job /\ Select.wires = <<>> /\ Select.rx.ctrs = <<>>
                     /\ Select.at = "select" /\ None.ctrs = <<>> /\ Select.to = FALSE
  BY DEF Select, None, Place, Job, Wires

\* The next n integers above k.
LEMMA UptoFacts ==
    ASSUME NEW k \in Nat, NEW n \in Nat
    PROVE  /\ Upto(k, n) \in Wires /\ Len(Upto(k, n)) = n
           /\ \A i \in 1 .. n : Upto(k, n)[i] = k + i
  BY DEF Upto, Wires

\* What follows is how the sequences are put together.
LEMMA Joined ==
    ASSUME NEW S, NEW s \in Seq(S), NEW t \in Seq(S)
    PROVE  /\ s \o t \in Seq(S) /\ Len(s \o t) = Len(s) + Len(t)
           /\ \A i \in 1 .. Len(s) : (s \o t)[i] = s[i]
           /\ \A i \in 1 .. Len(s \o t) : i > Len(s) => (s \o t)[i] = t[i - Len(s)]
  OBVIOUS

LEMMA Appended ==
    ASSUME NEW S, NEW s \in Seq(S), NEW x \in S
    PROVE  /\ Append(s, x) \in Seq(S) /\ Len(Append(s, x)) = Len(s) + 1
           /\ \A i \in 1 .. Len(s) : Append(s, x)[i] = s[i]
           /\ Append(s, x)[Len(s) + 1] = x
  OBVIOUS

LEMMA Popped ==
    ASSUME NEW S, NEW s \in Seq(S), s # <<>>
    PROVE  /\ Tail(s) \in Seq(S) /\ Len(s) > 0 /\ Len(Tail(s)) = Len(s) - 1
           /\ Head(s) \in S /\ Head(s) = s[1]
           /\ \A i \in 1 .. Len(Tail(s)) : Tail(s)[i] = s[i + 1]
  OBVIOUS

LEMMA Dropped ==
    ASSUME NEW S, NEW s \in Seq(S), NEW q \in 0 .. Len(s)
    PROVE  /\ Len(SubSeq(s, q + 1, Len(s))) = Len(s) - q
           /\ \A i \in 1 .. Len(s) - q : SubSeq(s, q + 1, Len(s))[i] = s[q + i]
<1>1. Len(s) \in Nat /\ q \in Nat /\ q + 1 \in 1 .. Len(s) + 1
  OBVIOUS
<1>2. Len(s) - (q + 1) + 1 = Len(s) - q
  BY <1>1
<1>3. Len(SubSeq(s, q + 1, Len(s))) = IF q + 1 <= Len(s) THEN Len(s) - (q + 1) + 1 ELSE 0
  BY <1>1, SubSeqProperties
<1>4. Len(SubSeq(s, q + 1, Len(s))) = Len(s) - q
  BY <1>1, <1>3
<1>5. ASSUME NEW i \in 1 .. Len(s) - q PROVE SubSeq(s, q + 1, Len(s))[i] = s[q + i]
  <2>1. i \in 1 .. Len(s) - (q + 1) + 1 /\ (q + 1) + i - 1 = q + i
    BY <1>1
  <2>2. SubSeq(s, q + 1, Len(s))[i] = s[(q + 1) + i - 1]
    BY <1>1, <2>1, SubSeqProperties
  <2> QED  BY <2>1, <2>2
<1> QED  BY <1>4, <1>5

LEMMA SmallerOf ==
    ASSUME NEW a \in Int, NEW b \in Int
    PROVE  Min({a, b}) = IF a <= b THEN a ELSE b
<1>1. CASE a <= b
  <2>1. \A x \in {a, b} : a <= x
    BY <1>1
  <2>2. \A x \in {a, b} : (\A y \in {a, b} : x <= y) => x = a
    BY <1>1
  <2> QED  BY <1>1, <2>1, <2>2 DEF Min
<1>2. CASE ~(a <= b)
  <2>1. \A x \in {a, b} : b <= x
    BY <1>2
  <2>2. \A x \in {a, b} : (\A y \in {a, b} : x <= y) => x = b
    BY <1>2
  <2> QED  BY <1>2, <2>1, <2>2 DEF Min
<1> QED  BY <1>1, <1>2

-----------------------------------------------------------------------------
(***************************************************************************)
(* What the steps that seal do, with the sequences written out.            *)
(***************************************************************************)
Idles == UNCHANGED <<order, sender, hand, send_q, pipe, frame, wire>>

LEMMA RecvManyDoes ==
    ASSUME Typed, RecvMany
    PROVE  /\ Idles /\ UNCHANGED <<paced, slots, switches, direct>> /\ loop.at = "select"
           /\ \E n \in Nat \ {0} :
                 /\ read' = read + n /\ read' <= MaxPackets
                 /\ \/ /\ paced /\ UNCHANGED <<sealed, loop>>
                       /\ \E q \in 0 .. n : /\ pending' = pending \o Upto(read, q)
                                            /\ Len(pending) + q <= MAX_QUEUE
                    \/ /\ ~paced /\ UNCHANGED pending
                       /\ sealed' = sealed \o Upto(read, n)
                       /\ loop'.at = "order" /\ loop' \in Place /\ loop'.wires = <<>>
                       /\ loop'.rx.ctrs = Upto(Len(sealed), n)
<1> USE Bounds
<1>1. Idles /\ UNCHANGED <<paced, slots, switches, direct>> /\ loop.at = "select"
  BY DEF RecvMany, Idles
<1>2. PICK n \in 1 .. MAX_BATCH : /\ read + n <= MaxPackets /\ read' = read + n
                                  /\ DrainPaced(n) \/ DrainDirect(n)
  BY DEF RecvMany
<1>3. n \in Nat \ {0} /\ read \in Nat
  BY DEF Typed
<1>4. CASE DrainPaced(n)
  <2> DEFINE q == Min({n, MAX_QUEUE - Len(pending)})
  <2>1. Len(pending) \in Nat /\ Len(pending) <= MAX_QUEUE
    BY DEF Typed, Wires
  <2>2. q = IF n <= MAX_QUEUE - Len(pending) THEN n ELSE MAX_QUEUE - Len(pending)
    BY <1>3, <2>1, SmallerOf
  <2>3. pending' = pending \o Upto(read, q) /\ paced /\ UNCHANGED <<sealed, loop>>
    BY <1>4 DEF DrainPaced
  <2>4. q \in 0 .. n /\ Len(pending) + q <= MAX_QUEUE
    <3> HIDE DEF q
    <3> QED  BY <1>3, <2>1, <2>2
  <2> HIDE DEF q
  <2> QED  BY <1>1, <1>2, <1>3, <2>3, <2>4
<1>5. CASE DrainDirect(n)
  <2>1. Len(sealed) \in Nat
    BY DEF Typed, Wires
  <2>2. /\ Upto(read, n) \in Wires /\ Len(Upto(read, n)) = n
        /\ Upto(Len(sealed), n) \in Wires
    BY <1>3, <2>1, UptoFacts
  <2>3. loop' = [Select EXCEPT !.at = "order", !.rx = [ctrs |-> Upto(Len(sealed), n), done |-> FALSE]]
    BY <1>5, <2>2 DEF DrainDirect, CountersFor
  <2>4. loop'.at = "order" /\ loop' \in Place /\ loop'.wires = <<>>
        /\ loop'.rx.ctrs = Upto(Len(sealed), n)
    <3> DEFINE rx == [ctrs |-> Upto(Len(sealed), n), done |-> FALSE]
    <3>1. rx \in Job /\ rx.ctrs = Upto(Len(sealed), n)
      BY <2>2 DEF Job
    <3>2. loop' = [at |-> "order", wires |-> <<>>, rx |-> rx, to |-> FALSE]
      BY <2>3 DEF Select
    <3> HIDE DEF rx
    <3> QED  BY <3>1, <3>2 DEF Place, Wires
  <2>5. sealed' = sealed \o Upto(read, n) /\ ~paced /\ UNCHANGED pending
    BY <1>5 DEF DrainDirect
  <2> QED  BY <1>1, <1>2, <1>3, <2>4, <2>5
<1> QED  BY <1>2, <1>4, <1>5

\* A slot takes the first q packets and some cover.
LEMMA TickDoes ==
    ASSUME Typed, Tick
    PROVE  /\ Idles /\ UNCHANGED <<paced, read, switches, direct>> /\ loop.at = "select"
           /\ paced /\ slots' = slots + 1 /\ slots < MaxSlots
           /\ \E q \in 0 .. Len(pending) : \E s \in Wires :
                 /\ Len(s) >= q
                 /\ \A i \in 1 .. q : s[i] = pending[i]
                 /\ \A i \in 1 .. Len(s) : i > q => s[i] = Filler
                 /\ pending' = SubSeq(pending, q + 1, Len(pending))
                 /\ sealed' = sealed \o s
                 /\ loop'.at = "slot" /\ loop' \in Place /\ loop'.rx.ctrs = <<>>
                 /\ loop'.wires = Upto(Len(sealed), Len(s)) /\ loop'.wires # <<>>
<1> USE Bounds
<1>1. /\ Idles /\ UNCHANGED <<paced, read, switches, direct>> /\ loop.at = "select"
      /\ paced /\ slots' = slots + 1 /\ slots < MaxSlots
  BY DEF Tick, Idles
<1>2. PICK cover \in 0 .. pace_burst :
         LET n == Min({Len(pending), pace_burst})
             s == SubSeq(pending, 1, n) \o [i \in 1 .. cover |-> Filler]
         IN /\ 0 < Len(s) /\ Len(s) <= pace_burst
            /\ pending' = SubSeq(pending, n + 1, Len(pending))
            /\ sealed' = sealed \o s
            /\ loop' = [Select EXCEPT !.at = "slot", !.wires = CountersFor(s)]
  BY DEF Tick
<1> DEFINE q == Min({Len(pending), pace_burst})
           a == SubSeq(pending, 1, q)
           b == [i \in 1 .. cover |-> Filler]
           s == a \o b
<1>3. pending \in Seq(Nat) /\ Len(pending) \in Nat
  BY DEF Typed, Wires
<1>4. q \in 0 .. Len(pending)
  BY <1>3, SmallerOf
<1>5. /\ 0 < Len(s) /\ pending' = SubSeq(pending, q + 1, Len(pending)) /\ sealed' = sealed \o s
      /\ loop' = [Select EXCEPT !.at = "slot", !.wires = CountersFor(s)]
  BY <1>2
<1> HIDE DEF q
<1>6. a \in Seq(Nat) /\ Len(a) = q /\ \A i \in 1 .. q : a[i] = pending[i]
  BY <1>3, <1>4
<1>7. b \in Seq(Nat) /\ Len(b) = cover /\ \A i \in 1 .. cover : b[i] = Filler
  BY DEF Filler
<1> HIDE DEF a, b
<1>8. /\ s \in Wires /\ Len(s) >= q
      /\ \A i \in 1 .. q : s[i] = pending[i]
      /\ \A i \in 1 .. Len(s) : i > q => s[i] = Filler
  <2>1. /\ s \in Seq(Nat) /\ Len(s) = q + cover
        /\ \A i \in 1 .. q : s[i] = a[i]
        /\ \A i \in 1 .. Len(s) : i > q => s[i] = b[i - q]
    BY <1>6, <1>7, Joined, ZenonT(40)
  <2>2. \A i \in 1 .. Len(s) : i > q => i - q \in 1 .. cover
    <3> HIDE DEF s
    <3> QED  BY <1>3, <1>4, <2>1
  <2> QED  BY <1>3, <1>4, <1>6, <1>7, <2>1, <2>2 DEF Wires
<1> HIDE DEF s
<1>9. Len(s) \in Nat /\ Len(sealed) \in Nat
  BY <1>8 DEF Typed, Wires
<1>10. Upto(Len(sealed), Len(s)) \in Wires /\ Len(Upto(Len(sealed), Len(s))) = Len(s)
  BY <1>9, UptoFacts
<1>11. /\ loop'.at = "slot" /\ loop' \in Place /\ loop'.rx.ctrs = <<>>
       /\ loop'.wires = Upto(Len(sealed), Len(s))
  <2>1. loop' = [at |-> "slot", wires |-> Upto(Len(sealed), Len(s)), rx |-> None, to |-> FALSE]
    BY <1>5 DEF Select, CountersFor
  <2> QED  BY <1>10, <2>1, SelectTyped DEF Place
<1>12. loop'.wires # <<>>
  BY <1>5, <1>9, <1>10, <1>11 DEF Wires
<1> QED  BY <1>1, <1>4, <1>5, <1>8, <1>11, <1>12

LEMMA SwitchDoes ==
    ASSUME Typed, NEW t \in Targets, Switch(t)
    PROVE  /\ Idles /\ UNCHANGED <<read, slots, direct>> /\ loop.at = "select"
           /\ switches' = switches + 1 /\ switches < MaxSwitches
           /\ \/ /\ ~paced /\ loop'.at = "drain" /\ loop' \in Place
                 /\ loop'.wires = <<>> /\ loop'.rx.ctrs = <<>> /\ UNCHANGED <<paced, pending, sealed>>
              \/ /\ paced /\ loop'.at = "residue" /\ loop' \in Place /\ pending # <<>>
                 /\ loop'.wires = Upto(Len(sealed), Len(pending)) /\ loop'.rx.ctrs = <<>>
                 /\ sealed' = sealed \o pending /\ pending' = <<>> /\ UNCHANGED paced
              \/ /\ UNCHANGED <<pending, sealed, loop>> /\ paced' \in BOOLEAN
                 /\ paced' = paced \/ pending = <<>>
<1> USE Bounds
<1>0. t \in BOOLEAN
  OBVIOUS
<1>1. /\ Idles /\ UNCHANGED <<read, slots, direct>> /\ loop.at = "select"
      /\ switches' = switches + 1 /\ switches < MaxSwitches
  BY DEF Switch, Idles
<1>2. CASE /\ ~paced /\ loop' = [Select EXCEPT !.at = "drain", !.to = t]
           /\ UNCHANGED <<paced, pending, sealed>>
  <2>1. loop' = [at |-> "drain", wires |-> <<>>, rx |-> None, to |-> t]
    BY <1>2 DEF Select
  <2> QED  BY <1>0, <1>1, <1>2, <2>1, SelectTyped DEF Place, Wires
<1>3. CASE /\ paced /\ pending # <<>> /\ sealed' = sealed \o pending
           /\ loop' = [Select EXCEPT !.at = "residue", !.wires = CountersFor(pending), !.to = t]
           /\ pending' = <<>> /\ UNCHANGED paced
  <2>1. loop' = [at |-> "residue", wires |-> Upto(Len(sealed), Len(pending)), rx |-> None, to |-> t]
    BY <1>3 DEF Select, CountersFor
  <2>0. Len(sealed) \in Nat /\ Len(pending) \in Nat
    BY DEF Typed, Wires
  <2>2. Upto(Len(sealed), Len(pending)) \in Wires
    BY <2>0, UptoFacts
  <2>3. loop' \in Place
    BY <1>0, <2>1, <2>2, SelectTyped DEF Place
  <2>4. loop'.at = "residue" /\ loop'.wires = Upto(Len(sealed), Len(pending)) /\ loop'.rx.ctrs = <<>>
    BY <2>1, SelectTyped
  <2> QED  BY <1>1, <1>3, <2>3, <2>4
<1>4. CASE /\ paced = t \/ (paced /\ pending = <<>>)
           /\ paced' = t /\ UNCHANGED <<pending, sealed, loop>>
  BY <1>0, <1>1, <1>4
<1> QED  BY <1>2, <1>3, <1>4 DEF Switch

LEMMA InitTyped == Init => Typed
  BY Bounds, SelectTyped DEF Init, Typed, Wires, Worker

LEMMA LoopTyped ==
    ASSUME Typed, RecvMany \/ Tick \/ \E t \in Targets : Switch(t)
    PROVE  Typed'
<1> USE Bounds
<1>0. /\ pending \in Seq(Nat) /\ sealed \in Seq(Nat) /\ read \in Nat /\ slots \in Nat
      /\ switches \in Nat /\ Len(pending) \in Nat /\ Len(sealed) \in Nat
  BY DEF Typed, Wires
<1>k. ASSUME Idles, UNCHANGED direct, paced' \in BOOLEAN,
             pending' \in Wires, Len(pending') <= MAX_QUEUE, sealed' \in Wires, loop' \in Place,
             loop'.at = "slot" => loop'.wires # <<>>,
             read' \in 0 .. MaxPackets, slots' \in 0 .. MaxSlots, switches' \in 0 .. MaxSwitches
      PROVE  Typed'
  BY <1>k DEF Typed, Idles
<1>1. CASE RecvMany
  <2>0. Idles /\ UNCHANGED <<paced, slots, switches, direct>>
    BY <1>1, RecvManyDoes
  <2>1. PICK n \in Nat \ {0} :
                 /\ read' = read + n /\ read' <= MaxPackets
                 /\ \/ /\ paced /\ UNCHANGED <<sealed, loop>>
                       /\ \E q \in 0 .. n : /\ pending' = pending \o Upto(read, q)
                                            /\ Len(pending) + q <= MAX_QUEUE
                    \/ /\ ~paced /\ UNCHANGED pending
                       /\ sealed' = sealed \o Upto(read, n)
                       /\ loop' \in Place /\ loop'.at = "order"
    BY <1>1, RecvManyDoes
  <2>2. read' \in 0 .. MaxPackets
    BY <1>0, <2>1
  <2>3. /\ \A q \in Nat : Upto(read, q) \in Seq(Nat) /\ Len(Upto(read, q)) = q
    BY <1>0, UptoFacts DEF Wires
  <2>4. CASE paced
    <3>1. PICK q \in 0 .. n : pending' = pending \o Upto(read, q) /\ Len(pending) + q <= MAX_QUEUE
      BY <2>1, <2>4
    <3>2. Upto(read, q) \in Seq(Nat) /\ Len(Upto(read, q)) = q
      BY <2>3
    <3>3. pending' \in Wires /\ Len(pending') <= MAX_QUEUE
      BY <1>0, <3>1, <3>2, Joined DEF Wires
    <3> QED  BY <1>k, <2>0, <2>1, <2>2, <2>4, <3>3 DEF Typed
  <2>5. CASE ~paced
    <3>0. sealed' = sealed \o Upto(read, n) /\ Upto(read, n) \in Seq(Nat)
      BY <2>1, <2>3, <2>5
    <3>1. sealed' \in Wires
      BY <1>0, <3>0, Joined DEF Wires
    <3> QED  BY <1>k, <2>0, <2>1, <2>2, <2>5, <3>1 DEF Typed
  <2> QED  BY <2>4, <2>5
<1>2. CASE Tick
  <2>0. Idles /\ UNCHANGED <<paced, read, switches, direct>> /\ slots' = slots + 1 /\ slots < MaxSlots
    BY <1>2, TickDoes
  <2>1. PICK q \in 0 .. Len(pending) : \E s \in Wires :
                 /\ pending' = SubSeq(pending, q + 1, Len(pending))
                 /\ sealed' = sealed \o s /\ loop' \in Place /\ loop'.wires # <<>>
    BY <1>2, TickDoes
  <2>2. pending' \in Wires /\ Len(pending') = Len(pending) - q
    BY <1>0, <2>1 DEF Wires
  <2>3. sealed' \in Wires
    BY <1>0, <2>1, Joined DEF Wires
  <2> QED  BY <1>0, <1>k, <2>0, <2>1, <2>2, <2>3 DEF Typed
<1>3. ASSUME NEW t \in Targets, Switch(t)  PROVE Typed'
  <2>0. Idles /\ UNCHANGED <<read, slots, direct>> /\ switches' = switches + 1 /\ switches < MaxSwitches
    BY <1>3, SwitchDoes
  <2>1. switches' \in 0 .. MaxSwitches
    BY <1>0, <2>0
  <2>2. /\ paced' \in BOOLEAN /\ loop' \in Place /\ (loop'.at = "slot" => loop'.wires # <<>>)
        /\ UNCHANGED <<pending, sealed>> \/ (sealed' = sealed \o pending /\ pending' = <<>>)
    BY <1>3, SwitchDoes DEF Typed
  <2>3. pending' \in Wires /\ Len(pending') <= MAX_QUEUE /\ sealed' \in Wires
    <3>1. CASE UNCHANGED <<pending, sealed>>
      BY <3>1 DEF Typed
    <3>2. CASE sealed' = sealed \o pending /\ pending' = <<>>
      <4>1. sealed \o pending \in Seq(Nat)
        BY <1>0, Joined
      <4> QED  BY <3>2, <4>1 DEF Wires
    <3> QED  BY <2>2, <3>1, <3>2
  <2> QED  BY <1>k, <2>0, <2>1, <2>2, <2>3 DEF Typed
<1> QED  BY <1>1, <1>2, <1>3

LEMMA AwaitTyped == Typed /\ LoopAwait => Typed'
<1> USE Bounds, SelectTyped
<1> SUFFICES ASSUME Typed, LoopAwait PROVE Typed'
  OBVIOUS
<1>0. loop \in Place /\ loop.wires \in Seq(Nat) /\ loop.rx \in Job /\ loop.to \in BOOLEAN
      /\ order \in Seq(Job) /\ send_q \in Seq(Wires) /\ wire \in Seq(Nat)
  BY DEF Typed, Place, Wires
<1>1. CASE OrderSend
  <2>1. order' \in Seq(Job) /\ Len(order') <= SEND_PIPELINE_BATCHES
    BY <1>0, <1>1, Appended DEF OrderSend, Typed
  <2> QED  BY <1>1, <2>1 DEF OrderSend, Typed
<1>2. CASE SlotSend
  <2>1. loop.wires # <<>>
    BY <1>2 DEF SlotSend, Typed
  <2>2. /\ Head(loop.wires) \in Nat /\ Tail(loop.wires) \in Seq(Nat)
        /\ Len(loop.wires) # 1 => Tail(loop.wires) # <<>>
    <3>1. /\ Head(loop.wires) \in Nat /\ Tail(loop.wires) \in Seq(Nat)
          /\ Len(loop.wires) \in Nat /\ Len(Tail(loop.wires)) = Len(loop.wires) - 1
      BY <1>0, <2>1, Popped
    <3>2. ASSUME Len(loop.wires) # 1, Tail(loop.wires) = <<>> PROVE FALSE
      <4>1. Len(Tail(loop.wires)) = 0
        BY <3>1, <3>2
      <4> QED  BY <3>1, <3>2, <4>1
    <3> QED  BY <3>1, <3>2
  <2>3. wire' \in Wires
    BY <1>0, <1>2, <2>2, Appended DEF SlotSend, Wires
  <2>4. loop' \in Place /\ (loop'.at = "slot" => loop'.wires # <<>>)
    <3>1. CASE Len(loop.wires) = 1
      BY <1>2, <3>1 DEF SlotSend
    <3>2. CASE Len(loop.wires) # 1
      <4>1. loop' = [loop EXCEPT !.wires = Tail(loop.wires)]
        BY <1>2, <3>2 DEF SlotSend
      <4> QED  BY <1>0, <2>2, <3>2, <4>1 DEF Place, Wires
    <3> QED  BY <3>1, <3>2
  <2> QED  BY <1>2, <2>3, <2>4 DEF SlotSend, Typed
<1>3. CASE Drained
  BY <1>0, <1>3 DEF Drained, Typed
<1>4. CASE ResidueSend
  <2>1. send_q' \in Seq(Wires) /\ Len(send_q') <= SEND_PIPELINE_BATCHES
    BY <1>0, <1>4, Appended DEF ResidueSend, Typed, Wires
  <2> QED  BY <1>0, <1>4, <2>1 DEF ResidueSend, Typed
<1> QED  BY <1>1, <1>2, <1>3, <1>4 DEF LoopAwait

LEMMA SealTyped == ASSUME Typed, NEW ok \in BOOLEAN, SealDone(ok) PROVE Typed'
<1>0. loop \in Place /\ loop.rx \in Job /\ order \in Seq(Job) /\ sender \in Worker /\ sender.rx \in Job
  BY DEF Typed, Place, Worker
<1>1. \A b \in Job : Finish(b, ok) \in Job
  BY DEF Finish, Job, Wires
<1>2. CASE \E i \in 1 .. Len(order) : /\ order' = [order EXCEPT ![i] = Finish(@, ok)]
                                      /\ UNCHANGED <<sender, loop>>
  <2>1. PICK i \in 1 .. Len(order) : /\ order' = [order EXCEPT ![i] = Finish(order[i], ok)]
                                     /\ UNCHANGED <<sender, loop>>
    BY <1>2
  <2>2. Finish(order[i], ok) \in Job
    BY <1>0, <1>1
  <2>3. order' \in Seq(Job) /\ Len(order') = Len(order)
    BY <1>0, <2>1, <2>2
  <2> QED  BY <2>1, <2>3 DEF SealDone, Typed
<1>3. CASE sender' = [sender EXCEPT !.rx = Finish(@, ok)] /\ UNCHANGED <<order, loop>>
  <2>1. sender' \in Worker
    BY <1>0, <1>1, <1>3 DEF Worker
  <2> QED  BY <1>3, <2>1 DEF SealDone, Typed
<1>4. CASE /\ loop' = [loop EXCEPT !.rx = Finish(@, ok)] /\ UNCHANGED <<order, sender>>
  <2>1. loop' \in Place /\ loop'.at = loop.at /\ loop'.wires = loop.wires
    BY <1>0, <1>1, <1>4 DEF Place
  <2> QED  BY <1>4, <2>1 DEF SealDone, Typed
<1> QED  BY <1>2, <1>3, <1>4 DEF SealDone

LEMMA SenderTyped == Typed /\ Sender => Typed'
<1> SUFFICES ASSUME Typed, Sender PROVE Typed'
  OBVIOUS
<1>0. /\ sender \in Worker /\ sender.rx \in Job /\ sender.rx.ctrs \in Wires
      /\ order \in Seq(Job) /\ hand \in Seq(Nat) /\ wire \in Seq(Nat)
  BY DEF Typed, Worker, Job, Wires
<1>1. order # <<>> => /\ Head(order) \in Job /\ Head(order).ctrs \in Seq(Nat) /\ Tail(order) \in Seq(Job)
                      /\ Len(Tail(order)) <= Len(order)
  <2> SUFFICES ASSUME order # <<>> PROVE /\ Head(order) \in Job /\ Tail(order) \in Seq(Job)
                                         /\ Len(Tail(order)) <= Len(order)
    BY DEF Job, Wires
  <2> QED  BY <1>0, Popped
<1>2. order # <<>> => Len(Tail(order)) <= SEND_PIPELINE_BATCHES
  BY <1>0, <1>1, Bounds DEF Typed
<1>3. CASE SenderRecv
  <2>1. sender' \in Worker
    BY <1>0, <1>1, <1>3 DEF SenderRecv, Worker
  <2> QED  BY <1>1, <1>2, <1>3, <2>1 DEF SenderRecv, Typed
<1>4. CASE SenderAwait
  BY <1>0, <1>4, SelectTyped DEF SenderAwait, Worker, Typed
<1>5. CASE SenderGather
  <2>1. CASE order = <<>> /\ sender' = [sender EXCEPT !.phase = "flush"] /\ UNCHANGED <<order, hand>>
    <3>1. sender' \in Worker
      BY <1>0, <2>1 DEF Worker
    <3> QED  BY <1>5, <2>1, <3>1 DEF SenderGather, Typed
  <2>2. CASE /\ order # <<>> /\ hand' = hand \o Head(order).ctrs /\ order' = Tail(order)
             /\ UNCHANGED sender
    <3>1. hand' \in Wires
      BY <1>0, <1>1, <2>2, Joined DEF Wires
    <3> QED  BY <1>1, <1>2, <1>5, <2>2, <3>1 DEF SenderGather, Typed
  <2>3. CASE /\ order # <<>> /\ sender' = [phase |-> "flush", rx |-> Head(order)]
             /\ order' = Tail(order) /\ UNCHANGED hand
    <3>1. sender' \in Worker
      BY <1>1, <2>3 DEF Worker
    <3> QED  BY <1>1, <1>2, <1>5, <2>3, <3>1 DEF SenderGather, Typed
  <2> QED  BY <1>5, <2>1, <2>2, <2>3 DEF SenderGather
<1>6. CASE SenderFlush
  <2>1. CASE hand = <<>>
    <3>1. sender' \in Worker
      BY <1>0, <1>6, <2>1 DEF Worker, SenderFlush
    <3> QED  BY <1>6, <2>1, <3>1 DEF SenderFlush, Typed
  <2>2. CASE hand # <<>>
    <3>1. Head(hand) \in Nat /\ Tail(hand) \in Seq(Nat)
      BY <1>0, <2>2, Popped
    <3>2. wire' \in Wires /\ hand' \in Wires /\ UNCHANGED sender
      BY <1>0, <1>6, <2>2, <3>1, Appended, ZenonT(40) DEF SenderFlush, Wires
    <3> QED  BY <1>6, <3>2 DEF SenderFlush, Typed
  <2> QED  BY <2>1, <2>2
<1> QED  BY <1>3, <1>4, <1>5, <1>6 DEF Sender

LEMMA OthersTyped == Typed /\ (Pipe \/ DirectSeal \/ DirectSend) => Typed'
<1> SUFFICES ASSUME Typed, Pipe \/ DirectSeal \/ DirectSend PROVE Typed'
  OBVIOUS
<1>0. /\ send_q \in Seq(Wires) /\ pipe \in Seq(Nat) /\ wire \in Seq(Nat) /\ sealed \in Seq(Nat)
      /\ frame \in Seq(Nat)
  BY DEF Typed, Wires
<1>1. CASE PipeTake
  <2>1. Head(send_q) \in Wires /\ Tail(send_q) \in Seq(Wires) /\ Len(Tail(send_q)) <= Len(send_q)
    BY <1>0, <1>1, Popped DEF PipeTake
  <2>2. Len(Tail(send_q)) <= SEND_PIPELINE_BATCHES
    BY <1>0, <2>1, Bounds DEF Typed
  <2> QED  BY <1>1, <2>1, <2>2 DEF PipeTake, Typed
<1>2. CASE PipeSend
  <2>1. Head(pipe) \in Nat /\ Tail(pipe) \in Seq(Nat)
    BY <1>0, <1>2, Popped DEF PipeSend
  <2>2. wire' \in Wires /\ pipe' \in Wires
    BY <1>0, <1>2, <2>1, Appended DEF PipeSend, Wires
  <2> QED  BY <1>2, <2>2 DEF PipeSend, Typed
<1>3. CASE DirectSeal
  <2>1. Append(sealed, Filler) \in Wires /\ Len(sealed) + 1 \in Nat
    BY <1>0, Appended DEF Filler, Wires
  <2>2. <<Len(sealed) + 1>> \in Wires
    BY <2>1 DEF Wires
  <2>3. direct' \in 0 .. MaxDirect
    BY <1>3, Bounds DEF DirectSeal, Typed
  <2> QED  BY <1>3, <2>1, <2>2, <2>3 DEF DirectSeal, Typed
<1>4. CASE DirectSend
  <2>1. wire' \in Wires /\ frame' \in Wires
    BY <1>0, <1>4, Joined DEF DirectSend, Wires
  <2> QED  BY <1>4, <2>1 DEF DirectSend, Typed
<1> QED  BY <1>1, <1>2, <1>3, <1>4 DEF Pipe

LEMMA NextTyped == Typed /\ [Next]_vars => Typed'
<1> SUFFICES ASSUME Typed, [Next]_vars PROVE Typed'
  OBVIOUS
<1>1. CASE UNCHANGED vars
  BY <1>1 DEF vars, Typed
<1> QED  BY <1>1, LoopTyped, AwaitTyped, SealTyped, SenderTyped, OthersTyped DEF Next

-----------------------------------------------------------------------------
(***************************************************************************)
(* The order in which packets are sealed.  What is staged was read after   *)
(* everything that is sealed, and while the loop is not paced, or has      *)
(* taken the residue, nothing is staged.                                   *)
(***************************************************************************)
Staged ==
    /\ \A i \in 1 .. Len(pending) : 0 < pending[i] /\ pending[i] <= read
    /\ \A i, j \in 1 .. Len(pending) : i < j => pending[i] < pending[j]
    /\ \A i \in 1 .. Len(sealed) : sealed[i] <= read
    /\ \A i \in 1 .. Len(sealed), j \in 1 .. Len(pending) : sealed[i] < pending[j]
    /\ ~paced \/ loop.at \in {"drain", "residue"} => pending = <<>>
    /\ SealedInReadOrder

LEMMA InitStaged == Init => Staged
  BY DEF Init, Staged, SealedInReadOrder, Select

\* The steps that neither seal nor stage.
LEMMA StagedKept ==
    ASSUME Staged, UNCHANGED <<pending, sealed, read>>,
           ~paced' \/ loop'.at \in {"drain", "residue"} => pending = <<>>
    PROVE  Staged'
  BY DEF Staged, SealedInReadOrder

\* Real packets that are newer than all that is sealed are sealed in their order.
LEMMA SealStaged ==
    ASSUME Typed, Staged, NEW s \in Wires, sealed' = sealed \o s,
           \A i \in 1 .. Len(s) : s[i] # Filler =>
               /\ s[i] <= read'
               /\ \A j \in 1 .. Len(sealed) : sealed[j] < s[i],
           \A i, j \in 1 .. Len(s) : i < j /\ s[i] # Filler /\ s[j] # Filler => s[i] < s[j],
           read' >= read, read' \in Nat
    PROVE  /\ SealedInReadOrder'
           /\ \A i \in 1 .. Len(sealed') : sealed'[i] <= read'
           /\ \A i \in 1 .. Len(sealed') : \/ i \in 1 .. Len(sealed) /\ sealed'[i] = sealed[i]
                                          \/ \E j \in 1 .. Len(s) : sealed'[i] = s[j]
<1>0. sealed \in Seq(Nat) /\ s \in Seq(Nat) /\ read \in Nat
  BY DEF Typed, Wires
<1>1. /\ Len(sealed') = Len(sealed) + Len(s) /\ Len(sealed) \in Nat /\ Len(s) \in Nat
      /\ \A i \in 1 .. Len(sealed) : sealed'[i] = sealed[i]
      /\ \A i \in 1 .. Len(sealed') : i > Len(sealed) => sealed'[i] = s[i - Len(sealed)]
  BY <1>0, Joined
<1>2. \A i \in 1 .. Len(sealed') :
         \/ i \in 1 .. Len(sealed) /\ sealed'[i] = sealed[i]
         \/ i > Len(sealed) /\ i - Len(sealed) \in 1 .. Len(s) /\ sealed'[i] = s[i - Len(sealed)]
  BY <1>1
<1>3. /\ \A i \in 1 .. Len(sealed) : sealed[i] \in Nat /\ sealed[i] <= read
      /\ \A i \in 1 .. Len(s) : s[i] \in Nat
  BY <1>0, SMTT(20) DEF Staged
<1>4. \A i \in 1 .. Len(sealed') : sealed'[i] <= read'
  <2> SUFFICES ASSUME NEW i \in 1 .. Len(sealed') PROVE sealed'[i] <= read'
    OBVIOUS
  <2>1. CASE i \in 1 .. Len(sealed) /\ sealed'[i] = sealed[i]
    BY <1>0, <1>3, <2>1
  <2>2. CASE i > Len(sealed) /\ i - Len(sealed) \in 1 .. Len(s) /\ sealed'[i] = s[i - Len(sealed)]
    <3>1. CASE sealed'[i] = Filler
      BY <3>1 DEF Filler
    <3>2. CASE sealed'[i] # Filler
      BY <2>2, <3>2
    <3> QED  BY <3>1, <3>2
  <2> QED  BY <1>2, <2>1, <2>2
<1>5. SealedInReadOrder'
  <2> SUFFICES ASSUME NEW i \in 1 .. Len(sealed'), NEW j \in 1 .. Len(sealed'), i < j,
                      sealed'[i] # Filler, sealed'[j] # Filler
               PROVE  sealed'[i] < sealed'[j]
    BY DEF SealedInReadOrder
  <2>1. CASE j \in 1 .. Len(sealed) /\ sealed'[j] = sealed[j]
    <3>1. i \in 1 .. Len(sealed) /\ sealed'[i] = sealed[i]
      BY <1>1, <2>1
    <3> QED  BY <2>1, <3>1 DEF Staged, SealedInReadOrder
  <2>2. CASE j > Len(sealed) /\ j - Len(sealed) \in 1 .. Len(s) /\ sealed'[j] = s[j - Len(sealed)]
    <3>1. CASE i \in 1 .. Len(sealed) /\ sealed'[i] = sealed[i]
      BY <2>2, <3>1
    <3>2. CASE i > Len(sealed) /\ i - Len(sealed) \in 1 .. Len(s) /\ sealed'[i] = s[i - Len(sealed)]
      <4>1. i - Len(sealed) < j - Len(sealed)
        BY <1>1
      <4> QED  BY <2>2, <3>2, <4>1
    <3> QED  BY <1>2, <3>1, <3>2
  <2> QED  BY <1>2, <2>1, <2>2
<1> QED  BY <1>2, <1>4, <1>5

LEMMA RecvManyStaged == Typed /\ Staged /\ RecvMany => Staged'
<1> SUFFICES ASSUME Typed, Staged, RecvMany PROVE Staged'
  OBVIOUS
<1>0. /\ pending \in Seq(Nat) /\ sealed \in Seq(Nat) /\ read \in Nat
      /\ Len(pending) \in Nat /\ Len(sealed) \in Nat /\ UNCHANGED paced /\ loop.at = "select"
  BY RecvManyDoes DEF Typed, Wires
<1>1. PICK n \in Nat \ {0} :
                 /\ read' = read + n
                 /\ \/ /\ paced /\ UNCHANGED <<sealed, loop>>
                       /\ \E q \in 0 .. n : pending' = pending \o Upto(read, q)
                    \/ /\ ~paced /\ UNCHANGED pending
                       /\ sealed' = sealed \o Upto(read, n) /\ loop'.at = "order"
  BY RecvManyDoes
<1>2. /\ \A i \in 1 .. Len(sealed) : sealed[i] \in Nat /\ sealed[i] <= read
      /\ \A i \in 1 .. Len(pending) : pending[i] \in Nat /\ 0 < pending[i] /\ pending[i] <= read
  BY <1>0 DEF Staged
<1>3. CASE paced
  <2>1. PICK q \in 0 .. n : pending' = pending \o Upto(read, q)
    BY <1>1, <1>3
  <2>2. /\ Upto(read, q) \in Seq(Nat) /\ Len(Upto(read, q)) = q
        /\ \A i \in 1 .. q : Upto(read, q)[i] = read + i
    <3>1. q \in Nat
      OBVIOUS
    <3> QED  BY <1>0, <3>1, UptoFacts DEF Wires
  <2>3. /\ Len(pending') = Len(pending) + q
        /\ \A i \in 1 .. Len(pending) : pending'[i] = pending[i]
        /\ \A i \in 1 .. Len(pending') : i > Len(pending) => pending'[i] = read + (i - Len(pending))
    <3>1. /\ Len(pending') = Len(pending) + q
          /\ \A i \in 1 .. Len(pending) : pending'[i] = pending[i]
          /\ \A i \in 1 .. Len(pending') : i > Len(pending) => pending'[i] = Upto(read, q)[i - Len(pending)]
      <4> DEFINE u == Upto(read, q)
      <4>1. u \in Seq(Nat) /\ Len(u) = q /\ pending' = pending \o u
        BY <2>1, <2>2
      <4> HIDE DEF u
      <4>2. /\ Len(pending \o u) = Len(pending) + Len(u)
            /\ \A i \in 1 .. Len(pending) : (pending \o u)[i] = pending[i]
            /\ \A i \in 1 .. Len(pending \o u) : i > Len(pending) => (pending \o u)[i] = u[i - Len(pending)]
        BY <1>0, <4>1, Joined
      <4>3. /\ Len(pending') = Len(pending) + q
            /\ \A i \in 1 .. Len(pending) : pending'[i] = pending[i]
            /\ \A i \in 1 .. Len(pending') : i > Len(pending) => pending'[i] = u[i - Len(pending)]
        BY <4>1, <4>2
      <4> QED  BY <4>3 DEF u
    <3>2. \A i \in 1 .. Len(pending') : i > Len(pending) => i - Len(pending) \in 1 .. q
      BY <1>0, <3>1
    <3> QED  BY <2>2, <3>1, <3>2
  <2>4. \A i \in 1 .. Len(pending') :
           \/ i \in 1 .. Len(pending) /\ pending'[i] = pending[i]
           \/ i > Len(pending) /\ pending'[i] = read + (i - Len(pending)) /\ i - Len(pending) <= q
    BY <1>0, <2>3
  <2>5. \A i \in 1 .. Len(pending') : 0 < pending'[i] /\ pending'[i] <= read'
    BY <1>0, <1>1, <1>2, <2>4, SMTT(20)
  <2>6. \A i, j \in 1 .. Len(pending') : i < j => pending'[i] < pending'[j]
    <3> SUFFICES ASSUME NEW i \in 1 .. Len(pending'), NEW j \in 1 .. Len(pending'), i < j
                 PROVE  pending'[i] < pending'[j]
      OBVIOUS
    <3>1. CASE j \in 1 .. Len(pending)
      <4>1. i \in 1 .. Len(pending)
        BY <1>0, <3>1
      <4> QED  BY <2>3, <3>1, <4>1 DEF Staged
    <3>2. CASE j > Len(pending) /\ i \in 1 .. Len(pending)
      <4>1. pending'[i] = pending[i] /\ pending'[j] = read + (j - Len(pending))
        BY <2>3, <3>2
      <4>2. pending[i] \in Nat /\ pending[i] <= read
        BY <1>2, <3>2
      <4> QED  BY <1>0, <3>2, <4>1, <4>2
    <3>3. CASE j > Len(pending) /\ i > Len(pending)
      BY <1>0, <2>3, <3>3
    <3> QED  BY <1>0, <2>4, <3>1, <3>2, <3>3
  <2>7. \A i \in 1 .. Len(sealed'), j \in 1 .. Len(pending') : sealed'[i] < pending'[j]
    <3> SUFFICES ASSUME NEW i \in 1 .. Len(sealed), NEW j \in 1 .. Len(pending')
                 PROVE  sealed[i] < pending'[j]
      BY <1>1, <1>3
    <3>1. CASE j \in 1 .. Len(pending) /\ pending'[j] = pending[j]
      BY <3>1 DEF Staged
    <3>2. CASE j > Len(pending) /\ pending'[j] = read + (j - Len(pending))
      BY <1>0, <1>2, <3>2
    <3> QED  BY <2>4, <3>1, <3>2
  <2>8. \A i \in 1 .. Len(sealed') : sealed'[i] <= read'
    BY <1>0, <1>1, <1>2, <1>3
  <2>9. SealedInReadOrder'
    BY <1>1, <1>3 DEF Staged, SealedInReadOrder
  <2>10. ~paced' \/ loop'.at \in {"drain", "residue"} => pending' = <<>>
    BY <1>0, <1>1, <1>3
  <2> QED  BY <2>5, <2>6, <2>7, <2>8, <2>9, <2>10 DEF Staged
<1>4. CASE ~paced
  <2>1. /\ Upto(read, n) \in Wires /\ Len(Upto(read, n)) = n
        /\ \A i \in 1 .. n : Upto(read, n)[i] = read + i
    BY <1>0, UptoFacts
  <2>2. pending = <<>> /\ pending' = <<>>
    BY <1>1, <1>4 DEF Staged
  <2>3. SealedInReadOrder' /\ \A i \in 1 .. Len(sealed') : sealed'[i] <= read'
    <3>1. \A i \in 1 .. Len(Upto(read, n)) : /\ Upto(read, n)[i] <= read'
                                             /\ \A j \in 1 .. Len(sealed) : sealed[j] < Upto(read, n)[i]
      BY <1>0, <1>1, <1>2, <2>1
    <3>2. \A i, j \in 1 .. Len(Upto(read, n)) : i < j => Upto(read, n)[i] < Upto(read, n)[j]
      BY <1>0, <2>1
    <3>3. read' >= read /\ read' \in Nat /\ sealed' = sealed \o Upto(read, n)
      BY <1>0, <1>1, <1>4
    <3> QED  BY <2>1, <3>1, <3>2, <3>3, SealStaged
  <2> QED  BY <2>2, <2>3 DEF Staged
<1> QED  BY <1>3, <1>4

LEMMA TickStaged == Typed /\ Staged /\ Tick => Staged'
<1> SUFFICES ASSUME Typed, Staged, Tick PROVE Staged'
  OBVIOUS
<1>0. /\ pending \in Seq(Nat) /\ sealed \in Seq(Nat) /\ read \in Nat /\ read' = read
      /\ Len(pending) \in Nat /\ Len(sealed) \in Nat /\ UNCHANGED paced /\ paced
  BY TickDoes, SMTT(20) DEF Typed, Wires
<1>1. PICK q \in 0 .. Len(pending) : \E s \in Wires :
                 /\ Len(s) >= q
                 /\ \A i \in 1 .. q : s[i] = pending[i]
                 /\ \A i \in 1 .. Len(s) : i > q => s[i] = Filler
                 /\ pending' = SubSeq(pending, q + 1, Len(pending))
                 /\ sealed' = sealed \o s
                 /\ loop'.at = "slot"
  BY TickDoes
<1>2. PICK s \in Wires :
                 /\ Len(s) >= q
                 /\ \A i \in 1 .. q : s[i] = pending[i]
                 /\ \A i \in 1 .. Len(s) : i > q => s[i] = Filler
                 /\ pending' = SubSeq(pending, q + 1, Len(pending))
                 /\ sealed' = sealed \o s
                 /\ loop'.at = "slot"
  BY <1>1
<1>3. q \in Nat /\ Len(s) \in Nat
  BY <1>0 DEF Wires
<1>4. \A i \in 1 .. Len(s) : s[i] # Filler => i \in 1 .. q /\ i \in 1 .. Len(pending) /\ s[i] = pending[i]
  <2> SUFFICES ASSUME NEW i \in 1 .. Len(s), s[i] # Filler
               PROVE  i \in 1 .. q /\ i \in 1 .. Len(pending) /\ s[i] = pending[i]
    OBVIOUS
  <2>1. ~(i > q)
    BY <1>2
  <2>2. i \in 1 .. q /\ i \in 1 .. Len(pending)
    BY <1>0, <1>3, <2>1
  <2> QED  BY <1>2, <2>2
<1>5. /\ SealedInReadOrder'
      /\ \A i \in 1 .. Len(sealed') : sealed'[i] <= read'
      /\ \A i \in 1 .. Len(sealed') : \/ i \in 1 .. Len(sealed) /\ sealed'[i] = sealed[i]
                                     \/ \E j \in 1 .. Len(s) : sealed'[i] = s[j]
  <2>1. \A i \in 1 .. Len(s) : s[i] # Filler => /\ s[i] <= read'
                                                /\ \A j \in 1 .. Len(sealed) : sealed[j] < s[i]
    BY <1>0, <1>4 DEF Staged
  <2>2. \A i, j \in 1 .. Len(s) : i < j /\ s[i] # Filler /\ s[j] # Filler => s[i] < s[j]
    BY <1>4 DEF Staged
  <2>3. read' >= read /\ read' \in Nat
    BY <1>0
  <2> QED  BY <1>2, <2>1, <2>2, <2>3, SealStaged
<1>6. /\ Len(pending') = Len(pending) - q
      /\ \A i \in 1 .. Len(pending') : q + i \in 1 .. Len(pending) /\ pending'[i] = pending[q + i]
  <2>1. /\ Len(pending') = Len(pending) - q
        /\ \A i \in 1 .. Len(pending) - q : pending'[i] = pending[q + i]
    BY <1>0, <1>2, <1>3, Dropped
  <2>2. \A i \in 1 .. Len(pending) - q : q + i \in 1 .. Len(pending)
    BY <1>0, <1>3
  <2> QED  BY <2>1, <2>2
<1>7. \A i \in 1 .. Len(pending') : 0 < pending'[i] /\ pending'[i] <= read'
  BY <1>0, <1>6 DEF Staged
<1>8. \A i, j \in 1 .. Len(pending') : i < j => pending'[i] < pending'[j]
  <2> SUFFICES ASSUME NEW i \in 1 .. Len(pending'), NEW j \in 1 .. Len(pending'), i < j
               PROVE  pending'[i] < pending'[j]
    OBVIOUS
  <2>1. q + i < q + j
    BY <1>3
  <2> QED  BY <1>6, <2>1 DEF Staged
<1>9. \A i \in 1 .. Len(sealed'), j \in 1 .. Len(pending') : sealed'[i] < pending'[j]
  <2> SUFFICES ASSUME NEW i \in 1 .. Len(sealed'), NEW j \in 1 .. Len(pending')
               PROVE  sealed'[i] < pending'[j]
    OBVIOUS
  <2>1. CASE i \in 1 .. Len(sealed) /\ sealed'[i] = sealed[i]
    BY <1>6, <2>1 DEF Staged
  <2>2. ASSUME NEW k \in 1 .. Len(s), sealed'[i] = s[k] PROVE sealed'[i] < pending'[j]
    <3>1. CASE s[k] = Filler
      BY <1>7, <2>2, <3>1 DEF Filler
    <3>2. CASE s[k] # Filler
      <4>1. k \in 1 .. Len(pending) /\ s[k] = pending[k] /\ k <= q
        BY <1>4, <3>2
      <4>2. k < q + j
        BY <1>3, <4>1
      <4> QED  BY <1>6, <2>2, <4>1, <4>2 DEF Staged
    <3> QED  BY <3>1, <3>2
  <2> QED  BY <1>5, <2>1, <2>2
<1> QED  BY <1>0, <1>2, <1>5, <1>7, <1>8, <1>9 DEF Staged

LEMMA SwitchStaged == ASSUME Typed, Staged, NEW t \in Targets, Switch(t) PROVE Staged'
<1>a. read' = read /\ loop.at = "select"
  BY SwitchDoes
<1>b. pending \in Seq(Nat) /\ read \in Nat
  BY DEF Typed, Wires
<1>0. /\ pending \in Wires /\ read \in Nat /\ read' = read /\ loop.at = "select"
      /\ \A i \in 1 .. Len(pending) : pending[i] \in Nat
  BY <1>a, <1>b DEF Wires
<1>1. CASE UNCHANGED <<paced, pending, sealed>> /\ ~paced
  BY <1>0, <1>1, StagedKept DEF Staged
<1>2. CASE UNCHANGED <<pending, sealed, loop>> /\ (paced' = paced \/ pending = <<>>)
  BY <1>0, <1>2, StagedKept DEF Staged
<1>3. CASE sealed' = sealed \o pending /\ pending' = <<>>
  <2>1. SealedInReadOrder' /\ \A i \in 1 .. Len(sealed') : sealed'[i] <= read'
    <3>1. \A i \in 1 .. Len(pending) : /\ pending[i] <= read'
                                       /\ \A j \in 1 .. Len(sealed) : sealed[j] < pending[i]
      BY <1>0 DEF Staged
    <3>2. \A i, j \in 1 .. Len(pending) : i < j => pending[i] < pending[j]
      BY DEF Staged
    <3>3. read' >= read /\ read' \in Nat
      BY <1>0
    <3> QED  BY <1>0, <1>3, <3>1, <3>2, <3>3, SealStaged
  <2> QED  BY <1>3, <2>1 DEF Staged
<1> QED  BY <1>1, <1>2, <1>3, SwitchDoes

LEMMA DirectStaged == Typed /\ Staged /\ DirectSeal => Staged'
<1> SUFFICES ASSUME Typed, Staged, DirectSeal PROVE Staged'
  OBVIOUS
<1>0. /\ sealed \in Seq(Nat) /\ read \in Nat /\ sealed' = Append(sealed, Filler)
      /\ UNCHANGED <<pending, read, paced, loop>> /\ Len(sealed) \in Nat
  BY DEF DirectSeal, Typed, Wires
<1>1. /\ Len(sealed') = Len(sealed) + 1
      /\ \A i \in 1 .. Len(sealed) : sealed'[i] = sealed[i]
      /\ sealed'[Len(sealed) + 1] = Filler
  <2>1. Filler \in Nat
    BY DEF Filler
  <2> QED  BY <1>0, <2>1, Appended
<1>2. \A i \in 1 .. Len(sealed') : (i \in 1 .. Len(sealed) /\ sealed'[i] = sealed[i]) \/ sealed'[i] = Filler
  BY <1>0, <1>1
<1>3. \A i \in 1 .. Len(sealed') : sealed'[i] <= read'
  BY <1>0, <1>2 DEF Staged, Filler
<1>4. \A i \in 1 .. Len(sealed'), j \in 1 .. Len(pending') : sealed'[i] < pending'[j]
  BY <1>0, <1>2 DEF Staged, Filler
<1>5. SealedInReadOrder'
  BY <1>2 DEF Staged, SealedInReadOrder
<1> QED  BY <1>0, <1>3, <1>4, <1>5 DEF Staged

LEMMA NextStaged == Typed /\ Staged /\ [Next]_vars => Staged'
<1> SUFFICES ASSUME Typed, Staged, [Next]_vars PROVE Staged'
  OBVIOUS
<1>1. CASE UNCHANGED vars
  BY <1>1, StagedKept DEF vars, Staged
<1>2. CASE OrderSend
  BY <1>2, StagedKept, SelectTyped DEF OrderSend, Staged
<1>3. CASE SlotSend
  <2>1. loop'.at \notin {"drain", "residue"}
    BY <1>3, SelectTyped DEF SlotSend, Typed, Place
  <2> QED  BY <1>3, <2>1, StagedKept DEF SlotSend, Staged
<1>4. CASE Drained
  <2>1. loop'.at \notin {"drain", "residue"}
    BY <1>4, SelectTyped DEF Drained
  <2>2. ~paced' => pending = <<>>
    BY <1>4 DEF Drained, Staged
  <2> QED  BY <1>4, <2>1, <2>2, StagedKept DEF Drained
<1>5. CASE ResidueSend
  BY <1>5, StagedKept DEF ResidueSend, Staged
<1>6. ASSUME NEW ok \in BOOLEAN, SealDone(ok) PROVE Staged'
  <2>1. loop'.at = loop.at /\ UNCHANGED <<pending, sealed, read, paced>>
    BY <1>6 DEF SealDone, Typed, Place
  <2> QED  BY <2>1, StagedKept DEF Staged
<1>7. CASE Sender
  BY <1>7, StagedKept DEF Sender, SenderRecv, SenderAwait, SenderGather, SenderFlush, Staged
<1>8. CASE Pipe \/ DirectSend
  BY <1>8, StagedKept DEF Pipe, PipeTake, PipeSend, DirectSend, Staged
<1> QED  BY <1>1, <1>2, <1>3, <1>4, <1>5, <1>6, <1>7, <1>8, RecvManyStaged, TickStaged, SwitchStaged,
            DirectStaged DEF Next, LoopAwait

(***************************************************************************)
(* Packets get their counters in the order they were read, for all sizes   *)
(* of queue, batch and slot and any number of live switches: pending is    *)
(* sealed, as slots or as the residue, before anything that was read after *)
(* it.                                                                     *)
(***************************************************************************)
THEOREM PacketsKeepOrder == Spec => []SealedInReadOrder
<1>1. Staged => SealedInReadOrder
  BY DEF Staged
<1> QED  BY <1>1, InitTyped, NextTyped, InitStaged, NextStaged, PTL DEF Spec

-----------------------------------------------------------------------------
(***************************************************************************)
(* Where a counter is.  Every step is then a statement of where what is in *)
(* a place after it was before it.                                         *)
(***************************************************************************)
Has(k, n, i, c) ==
    /\ k \in Kinds /\ n \in 1 .. Depth(k)
    /\ i \in 1 .. Len(Held(k, n)) /\ Held(k, n)[i] = c

In(q, i, c) == i \in 1 .. Len(q) /\ q[i] = c

LEMMA HasView ==
    ASSUME NEW n, NEW i, NEW c
    PROVE  /\ Has("slot", n, i, c) <=> n = 1 /\ In(loop.wires, i, c)
           /\ Has("batch", n, i, c) <=> n = 1 /\ In(loop.rx.ctrs, i, c)
           /\ Has("order", n, i, c) <=> n \in 1 .. Len(order) /\ In(order[n].ctrs, i, c)
           /\ Has("awaited", n, i, c) <=> n = 1 /\ In(sender.rx.ctrs, i, c)
           /\ Has("hand", n, i, c) <=> n = 1 /\ In(hand, i, c)
           /\ Has("send_q", n, i, c) <=> n \in 1 .. Len(send_q) /\ In(send_q[n], i, c)
           /\ Has("pipe", n, i, c) <=> n = 1 /\ In(pipe, i, c)
           /\ Has("frame", n, i, c) <=> n = 1 /\ In(frame, i, c)
           /\ Has("wire", n, i, c) <=> n = 1 /\ In(wire, i, c)
  BY DEF Has, Kinds, Depth, Held, In

LEMMA HasViewNext ==
    ASSUME NEW n, NEW i, NEW c
    PROVE  /\ Has("slot", n, i, c)' <=> n = 1 /\ In(loop'.wires, i, c)
           /\ Has("batch", n, i, c)' <=> n = 1 /\ In(loop'.rx.ctrs, i, c)
           /\ Has("order", n, i, c)' <=> n \in 1 .. Len(order') /\ In(order'[n].ctrs, i, c)
           /\ Has("awaited", n, i, c)' <=> n = 1 /\ In(sender'.rx.ctrs, i, c)
           /\ Has("hand", n, i, c)' <=> n = 1 /\ In(hand', i, c)
           /\ Has("send_q", n, i, c)' <=> n \in 1 .. Len(send_q') /\ In(send_q'[n], i, c)
           /\ Has("pipe", n, i, c)' <=> n = 1 /\ In(pipe', i, c)
           /\ Has("frame", n, i, c)' <=> n = 1 /\ In(frame', i, c)
           /\ Has("wire", n, i, c)' <=> n = 1 /\ In(wire', i, c)
  BY DEF Has, Kinds, Depth, Held, In

\* The counters that are anywhere have been reserved, and none is in two places.
Known  == \A k \in Kinds : \A n, i, c : Has(k, n, i, c) => c \in 1 .. Len(sealed)
Single == \A k, l \in Kinds : \A m, i, n, j, c :
              Has(k, m, i, c) /\ Has(l, n, j, c) => k = l /\ m = n /\ i = j

(***************************************************************************)
(* The line that a counter stands in as long as there is no switch: a slot *)
(* of the paced loop, or batch, channel and sender.  What is ahead in the  *)
(* line is smaller, unless a frame of another writer is one of the two.    *)
(***************************************************************************)
Pos(k) == CASE k = "wire"    -> 0
            [] k = "hand"    -> 1
            [] k = "awaited" -> 2
            [] k = "order"   -> 3
            [] OTHER         -> 4

Ahead(k, m, i, l, n, j) == \/ Pos(k) < Pos(l)
                           \/ k = l /\ (m < n \/ (m = n /\ i < j))

Ordinary(c) == direct = 0 \/ sealed[c] # Filler

InLine ==
    \A k \in Kinds : \A n, i, c : Has(k, n, i, c) =>
        /\ k \notin {"send_q", "pipe"}
        /\ k = "slot" => paced
        /\ k \in {"batch", "order", "awaited", "hand"} => ~paced
        /\ k = "frame" => ~Ordinary(c)

Ascending ==
    \A k, l \in Kinds : \A m, i, n, j, c, d :
        Has(k, m, i, c) /\ Has(l, n, j, d) /\ Ordinary(c) /\ Ordinary(d) /\ Ahead(k, m, i, l, n, j)
            => c < d

Lined == switches = 0 => InLine /\ Ascending

Gathers  == sender.phase = "gather" => sender.rx = None
Switched == loop.at \in {"drain", "residue"} => switches # 0

PInv == Known /\ Single /\ Lined /\ Gathers /\ Switched

LEMMA InitPInv == Init => PInv
<1> SUFFICES ASSUME Init PROVE PInv
  OBVIOUS
<1>1. \A k \in Kinds : \A n, i, c : ~Has(k, n, i, c)
  <2>1. \A n, i, c : ~In(<<>>, i, c)
    BY DEF In
  <2>2. loop.wires = <<>> /\ loop.rx.ctrs = <<>> /\ order = <<>> /\ sender.rx.ctrs = <<>>
    BY SelectTyped DEF Init
  <2>3. hand = <<>> /\ send_q = <<>> /\ pipe = <<>> /\ frame = <<>> /\ wire = <<>>
    BY DEF Init
  <2>4. ASSUME NEW k \in Kinds, NEW n, NEW i, NEW c PROVE ~Has(k, n, i, c)
    BY <2>1, <2>2, <2>3, HasView DEF Kinds
  <2> QED  BY <2>4
<1> QED  BY <1>1, SelectTyped DEF Init, PInv, Known, Single, Lined, InLine, Ascending, Gathers, Switched

\* Nothing in the places K comes from elsewhere, where nothing else is said of them.
Stay(K) == \A k \in Kinds \ K : \A n, i, c : Has(k, n, i, c)' => Has(k, n, i, c)

Steady == UNCHANGED <<sealed, paced, switches, direct>>

LEMMA OrdinaryKept == Steady => \A c : Ordinary(c)' <=> Ordinary(c)
  BY DEF Steady, Ordinary

LEMMA PosFacts ==
    /\ Pos("wire") = 0 /\ Pos("hand") = 1 /\ Pos("awaited") = 2 /\ Pos("order") = 3
    /\ \A k \in Kinds : Pos(k) \in 0 .. 4
    /\ \A k \in Kinds \ {"wire", "hand", "awaited", "order"} : Pos(k) = 4
  BY DEF Pos, Kinds

LEMMA AheadFacts ==
    ASSUME NEW k \in Kinds, NEW l \in Kinds, NEW m, NEW i, NEW n, NEW j
    PROVE  /\ Pos(k) < Pos(l) => Ahead(k, m, i, l, n, j)
           /\ Ahead(k, m, i, l, n, j) => Pos(k) < Pos(l) \/ (k = l /\ (m < n \/ (m = n /\ i < j)))
           /\ k = l /\ (m < n \/ (m = n /\ i < j)) => Ahead(k, m, i, l, n, j)
  BY DEF Ahead

\* Everything stays or goes away.
LEMMA StayPlaces ==
    ASSUME Known, Single, Lined, Steady, Stay({})
    PROVE  Known' /\ Single' /\ Lined'
<1>1. \A k \in Kinds : \A n, i, c : Has(k, n, i, c)' => Has(k, n, i, c)
  BY DEF Stay
<1>2. Known' /\ Single'
  BY <1>1 DEF Known, Single, Steady
<1>3. Lined'
  BY <1>1, OrdinaryKept DEF Lined, InLine, Ascending, Steady
<1> QED  BY <1>2, <1>3

LEMMA HasNat == \A k, n, i, c : Has(k, n, i, c) => n \in Nat /\ i \in Nat /\ n > 0 /\ i > 0
  BY DEF Has
LEMMA HasNatNext == \A k, n, i, c : Has(k, n, i, c)' => n \in Nat /\ i \in Nat /\ n > 0 /\ i > 0
  BY DEF Has

\* The first datagram of place f goes to the socket.
Sends(f) ==
    /\ Stay({f, "wire"})
    /\ \A n, i, c : Has(f, n, i, c)' => n = 1 /\ Has(f, 1, i + 1, c)
    /\ \A n, i, c : Has("wire", n, i, c)' =>
          n = 1 /\ (Has("wire", 1, i, c) \/ (i = Len(wire) + 1 /\ Has(f, 1, 1, c)))

LEMMA OnWire == \A n, i, c : Has("wire", n, i, c) => i <= Len(wire)
  BY HasView DEF In

LEMMA SendsPlaces ==
    ASSUME Typed, Known, Single, Lined, Steady, NEW f \in {"slot", "hand", "pipe"}, Sends(f)
    PROVE  Known' /\ Single' /\ Lined'
<1>0. Len(wire) \in Nat
  BY DEF Typed, Wires
<1>1. \A k \in Kinds \ {f, "wire"} : \A n, i, c : Has(k, n, i, c)' => Has(k, n, i, c)
  BY DEF Sends, Stay
<1>2. /\ \A n, i, c : Has(f, n, i, c)' => n = 1 /\ Has(f, 1, i + 1, c)
      /\ \A n, i, c : Has("wire", n, i, c)' =>
            n = 1 /\ (Has("wire", 1, i, c) \/ (i = Len(wire) + 1 /\ Has(f, 1, 1, c)))
  BY DEF Sends
<1>3. f \in Kinds /\ "wire" \in Kinds /\ f # "wire"
  BY DEF Kinds
\* Where a datagram comes from.
<1> DEFINE Was(k, n, i, c) ==
        \/ k \notin {f, "wire"} /\ Has(k, n, i, c)
        \/ k = f /\ n = 1 /\ Has(f, 1, i + 1, c)
        \/ k = "wire" /\ n = 1 /\ Has("wire", 1, i, c) /\ i <= Len(wire)
        \/ k = "wire" /\ n = 1 /\ i = Len(wire) + 1 /\ Has(f, 1, 1, c)
<1>4. \A k \in Kinds : \A n, i, c : Has(k, n, i, c)' => Was(k, n, i, c) /\ n \in Nat /\ i \in Nat /\ i > 0
  BY <1>1, <1>2, <1>3, HasNatNext, OnWire
<1>5. Known'
  BY <1>3, <1>4 DEF Known, Steady
<1>6. Single'
  <2> SUFFICES ASSUME NEW k \in Kinds, NEW l \in Kinds, NEW m, NEW i, NEW n, NEW j, NEW c,
                      Was(k, m, i, c), Was(l, n, j, c), i \in Nat, j \in Nat, i > 0, j > 0
               PROVE  k = l /\ m = n /\ i = j
    BY <1>4 DEF Single
  <2>1. \A a, b \in Kinds : \A x, y, u, v : Has(a, x, y, c) /\ Has(b, u, v, c) => a = b /\ x = u /\ y = v
    BY DEF Single
  <2> QED  BY <1>0, <1>3, <2>1
<1>7. Lined'
  <2> SUFFICES ASSUME switches = 0 PROVE InLine' /\ Ascending'
    BY DEF Lined, Steady
  <2>0. InLine /\ Ascending
    BY DEF Lined
  <2>1. InLine'
    BY <1>3, <1>4, <2>0, OrdinaryKept DEF InLine, Steady
  <2>2. f # "pipe" \/ \A n, i, c : ~Has("pipe", n, i, c)
    BY <1>3, <2>0 DEF InLine
  <2>3. Ascending'
    <3> HIDE DEF Was
    <3>0. \A k \in Kinds : \A n, i, c :
             Has(k, n, i, c)' /\ Ordinary(c)' => /\ Was(k, n, i, c) /\ Ordinary(c)
                                               /\ n \in Nat /\ i \in Nat /\ i > 0
      BY <1>4, OrdinaryKept
    <3> SUFFICES ASSUME NEW k \in Kinds, NEW l \in Kinds, NEW m, NEW i, NEW n, NEW j, NEW c, NEW d,
                        Was(k, m, i, c), Was(l, n, j, d), i \in Nat, j \in Nat, i > 0, j > 0, m \in Nat, n \in Nat,
                        Ordinary(c), Ordinary(d), Ahead(k, m, i, l, n, j)
                 PROVE  c < d
      BY <3>0 DEF Ascending
    <3>1. \A a, b \in Kinds : \A x, y, u, v :
             Has(a, x, y, c) /\ Has(b, u, v, d) /\ Ahead(a, x, y, b, u, v) => c < d
      BY <2>0 DEF Ascending
    <3>2. \A a \in Kinds : \A x, y : /\ Has(a, x, y, c) => a # "frame" /\ a # "pipe" /\ a # "send_q"
                                     /\ Has(a, x, y, d) => a # "frame" /\ a # "pipe" /\ a # "send_q"
      BY <2>0 DEF InLine
    <3>3. \/ \A x, y, e : ~Has("slot", x, y, e)
          \/ \A a \in {"hand", "awaited", "order", "batch"} : \A x, y, e : ~Has(a, x, y, e)
      BY <2>0 DEF InLine, Kinds
    <3> USE DEF Was
    <3>4. CASE k \notin {f, "wire"}
      <4>1. Has(k, m, i, c)
        BY <1>3, <3>4
      <4>2. l # "wire" /\ (l = f => Pos(k) < Pos(f))
        BY <1>3, <3>4, PosFacts, AheadFacts
      <4>3. CASE l = f
        <5>1. Has(f, 1, j + 1, d) /\ Ahead(k, m, i, f, 1, j + 1)
          BY <1>3, <4>2, <4>3, AheadFacts
        <5> QED  BY <1>3, <3>1, <4>1, <5>1
      <4>4. CASE l # f
        <5>1. Has(l, n, j, d)
          BY <1>3, <4>2, <4>4
        <5> QED  BY <3>1, <4>1, <5>1
      <4> QED  BY <4>3, <4>4
    <3>5. CASE k = f
      <4>1. Has(f, 1, i + 1, c) /\ m = 1
        BY <1>3, <3>5
      <4>2. l # "wire"
        BY <1>3, <3>5, PosFacts, AheadFacts
      <4>3. CASE l = f
        <5>1. Has(f, 1, j + 1, d) /\ n = 1
          BY <1>3, <4>2, <4>3
        <5>2. i < j
          BY <3>5, <4>1, <4>3, <5>1, PosFacts, AheadFacts
        <5>3. Ahead(f, 1, i + 1, f, 1, j + 1)
          BY <1>3, <5>2, AheadFacts
        <5> QED  BY <1>3, <3>1, <4>1, <5>1, <5>3
      <4>4. CASE l # f
        <5>1. Has(l, n, j, d)
          BY <1>3, <4>2, <4>4
        <5>2. Ahead(f, 1, i + 1, l, n, j)
          BY <1>3, <3>5, <4>4, AheadFacts
        <5> QED  BY <1>3, <3>1, <4>1, <5>1, <5>2
      <4> QED  BY <4>3, <4>4
    <3>6. CASE k = "wire" /\ i <= Len(wire)
      <4>1. Has("wire", 1, i, c) /\ m = 1
        BY <1>0, <1>3, <3>6
      <4> QED  BY <1>0, <1>3, <3>1, <3>2, <3>3, <3>6, <4>1 DEF Ahead, Pos, Kinds
    <3>7. CASE k = "wire" /\ i = Len(wire) + 1
      <4>1. Has(f, 1, 1, c) /\ m = 1
        BY <1>0, <1>3, <3>7
      <4> QED  BY <1>0, <1>3, <3>1, <3>2, <3>3, <3>7, <4>1 DEF Ahead, Pos, Kinds
    <3> QED  BY <1>0, <3>4, <3>5, <3>6, <3>7
  <2> QED  BY <2>1, <2>3
<1> QED  BY <1>5, <1>6, <1>7

(***************************************************************************)
(* Place f gets the counters that a seal reserves.                         *)
(***************************************************************************)
Fresh(f) ==
    /\ Stay({f})
    /\ \A n, i, c : Has(f, n, i, c)' => n = 1 /\ c = Len(sealed) + i /\ c <= Len(sealed')

Grown == /\ Len(sealed') \in Nat /\ Len(sealed) <= Len(sealed')
         /\ \A c \in 1 .. Len(sealed) : sealed'[c] = sealed[c]
         /\ direct' = 0 => direct = 0

LEMMA FreshPlaces ==
    ASSUME Typed, Known, Single, NEW f \in {"batch", "slot", "frame"}, Fresh(f), Grown
    PROVE  Known' /\ Single'
<1>0. Len(sealed) \in Nat
  BY DEF Typed, Wires
<1>1. f \in Kinds
  BY DEF Kinds
<1>2. /\ \A k \in Kinds \ {f} : \A n, i, c : Has(k, n, i, c)' => Has(k, n, i, c)
      /\ \A n, i, c : Has(f, n, i, c)' => n = 1 /\ c = Len(sealed) + i /\ c <= Len(sealed')
  BY DEF Fresh, Stay
<1>3. \A k \in Kinds \ {f} : \A n, i, c : Has(k, n, i, c)' => c \in 1 .. Len(sealed)
  BY <1>2 DEF Known
<1>4. \A n, i, c : Has(f, n, i, c)' => i \in Nat /\ i > 0 /\ c > Len(sealed)
  BY <1>0, <1>2, HasNatNext
<1>5. Known'
  <2> SUFFICES ASSUME NEW k \in Kinds, NEW n, NEW i, NEW c, Has(k, n, i, c)' PROVE c \in 1 .. Len(sealed')
    BY DEF Known
  <2>1. CASE k = f
    BY <1>0, <1>2, <1>4, <2>1 DEF Grown
  <2>2. CASE k # f
    BY <1>0, <1>3, <2>2 DEF Grown
  <2> QED  BY <2>1, <2>2
<1>6. Single'
  <2> SUFFICES ASSUME NEW k \in Kinds, NEW l \in Kinds, NEW m, NEW i, NEW n, NEW j, NEW c,
                      Has(k, m, i, c)', Has(l, n, j, c)'
               PROVE  k = l /\ m = n /\ i = j
    BY DEF Single
  <2>1. CASE k = f /\ l = f
    BY <1>0, <1>2, <1>4, <2>1
  <2>2. CASE (k = f /\ l # f) \/ (k # f /\ l = f)
    BY <1>0, <1>3, <1>4, <2>2
  <2>3. CASE k # f /\ l # f
    BY <1>2, <2>3 DEF Single
  <2> QED  BY <2>1, <2>2, <2>3
<1> QED  BY <1>5, <1>6

LEMMA FreshLined ==
    ASSUME Typed, Known, InLine, Ascending, NEW f \in {"batch", "slot", "frame"}, Fresh(f), Grown,
           UNCHANGED paced, f = "batch" => ~paced, f = "slot" => paced,
           f = "frame" => \A n, i, c : Has("frame", n, i, c)' => ~Ordinary(c)'
    PROVE  InLine' /\ Ascending'
<1>0. Len(sealed) \in Nat
  BY DEF Typed, Wires
<1>1. f \in Kinds /\ Pos(f) = 4
  BY PosFacts DEF Kinds
<1>2. /\ \A k \in Kinds \ {f} : \A n, i, c : Has(k, n, i, c)' => Has(k, n, i, c)
      /\ \A n, i, c : Has(f, n, i, c)' => n = 1 /\ c = Len(sealed) + i
  BY DEF Fresh, Stay
<1>3. \A k \in Kinds \ {f} : \A n, i, c : Has(k, n, i, c)' => c \in 1 .. Len(sealed)
  BY <1>2 DEF Known
<1>4. \A n, i, c : Has(f, n, i, c)' => i \in Nat /\ i > 0 /\ c > Len(sealed)
  BY <1>0, <1>2, HasNatNext
<1>5. \A c \in 1 .. Len(sealed) : Ordinary(c)' => Ordinary(c)
  BY DEF Ordinary, Grown
<1>6. InLine'
  <2> SUFFICES ASSUME NEW k \in Kinds, NEW n, NEW i, NEW c, Has(k, n, i, c)'
               PROVE  /\ k \notin {"send_q", "pipe"}
                      /\ k = "slot" => paced
                      /\ k \in {"batch", "order", "awaited", "hand"} => ~paced
                      /\ k = "frame" => ~Ordinary(c)'
    BY DEF InLine
  <2>1. CASE k = f
    BY <2>1
  <2>2. CASE k # f
    <3>1. Has(k, n, i, c) /\ c \in 1 .. Len(sealed)
      BY <1>2, <1>3, <2>2
    <3> QED  BY <1>5, <3>1 DEF InLine
  <2> QED  BY <2>1, <2>2
<1>7. Ascending'
  <2> SUFFICES ASSUME NEW k \in Kinds, NEW l \in Kinds, NEW m, NEW i, NEW n, NEW j, NEW c, NEW d,
                      Has(k, m, i, c)', Has(l, n, j, d)', Ordinary(c)', Ordinary(d)',
                      Ahead(k, m, i, l, n, j)
               PROVE  c < d
    BY DEF Ascending
  <2>1. CASE k = f /\ l = f
    <3>1. m = 1 /\ n = 1 /\ i < j
      BY <1>1, <1>2, <2>1, AheadFacts
    <3> QED  BY <1>0, <1>2, <1>4, <2>1, <3>1
  <2>2. CASE k = f /\ l # f
    <3>1. Pos(f) < Pos(l)
      BY <2>2, AheadFacts
    <3> QED  BY <1>1, <3>1, PosFacts
  <2>3. CASE k # f /\ l = f
    <3>1. c \in 1 .. Len(sealed) /\ d = Len(sealed) + j /\ j \in Nat /\ j > 0
      BY <1>2, <1>3, <1>4, <2>3
    <3> QED  BY <1>0, <3>1
  <2>4. CASE k # f /\ l # f
    <3>1. Ordinary(c) /\ Ordinary(d) /\ Has(k, m, i, c) /\ Has(l, n, j, d)
      BY <1>2, <1>3, <1>5, <2>4
    <3> QED  BY <3>1 DEF Ascending
  <2> QED  BY <2>1, <2>2, <2>3, <2>4
<1> QED  BY <1>6, <1>7

(***************************************************************************)
(* A place is handed over: f goes to the end of the queue g of length e,   *)
(* or the head of the queue g becomes f.                                   *)
(***************************************************************************)
Pushes(f, g, e) ==
    /\ Stay({f, g})
    /\ \A n, i, c : ~Has(f, n, i, c)'
    /\ \A n, i, c : Has(g, n, i, c)' => \/ n <= e /\ Has(g, n, i, c)
                                        \/ n = e + 1 /\ Has(f, 1, i, c)

Pops(g, f) ==
    /\ Stay({f, g})
    /\ \A n, i, c : Has(g, n, i, c)' => Has(g, n + 1, i, c)
    /\ \A n, i, c : Has(f, n, i, c)' => n = 1 /\ Has(g, 1, i, c)

LEMMA PushesPlaces ==
    ASSUME Known, Single, Steady, NEW f \in Kinds, NEW g \in Kinds, f # g, NEW e \in Nat, Pushes(f, g, e)
    PROVE  Known' /\ Single'
<1> DEFINE Was(k, n, i, c) ==
        \/ k \notin {f, g} /\ Has(k, n, i, c)
        \/ k = g /\ n <= e /\ Has(g, n, i, c)
        \/ k = g /\ n = e + 1 /\ Has(f, 1, i, c)
<1>1. \A k \in Kinds : \A n, i, c : Has(k, n, i, c)' => Was(k, n, i, c)
  BY DEF Pushes, Stay
<1>2. Known'
  BY <1>1 DEF Known, Steady
<1>3. Single'
  BY <1>1 DEF Single
<1> QED  BY <1>2, <1>3

LEMMA PopsPlaces ==
    ASSUME Known, Single, Steady, NEW f \in Kinds, NEW g \in Kinds, f # g, Pops(g, f)
    PROVE  Known' /\ Single'
<1> DEFINE Was(k, n, i, c) ==
        \/ k \notin {f, g} /\ Has(k, n, i, c)
        \/ k = g /\ n \in Nat /\ n > 0 /\ Has(g, n + 1, i, c)
        \/ k = f /\ n = 1 /\ Has(g, 1, i, c)
<1>1. \A k \in Kinds : \A n, i, c : Has(k, n, i, c)' => Was(k, n, i, c)
  BY HasNatNext DEF Pops, Stay
<1>2. Known'
  BY <1>1 DEF Known, Steady
<1>3. Single'
  <2> SUFFICES ASSUME NEW k \in Kinds, NEW l \in Kinds, NEW m, NEW i, NEW n, NEW j, NEW c,
                      Was(k, m, i, c), Was(l, n, j, c)
               PROVE  k = l /\ m = n /\ i = j
    BY <1>1 DEF Single
  <2>1. \A a, b \in Kinds : \A x, y, u, v : Has(a, x, y, c) /\ Has(b, u, v, c) => a = b /\ x = u /\ y = v
    BY DEF Single
  <2> QED  BY <2>1
<1> QED  BY <1>2, <1>3

LEMMA PushLined ==
    ASSUME InLine, Ascending, Steady, NEW e \in Nat, Pushes("batch", "order", e)
    PROVE  InLine' /\ Ascending'
<1> DEFINE Was(k, n, i, c) ==
        \/ k \notin {"batch", "order"} /\ Has(k, n, i, c)
        \/ k = "order" /\ n <= e /\ Has("order", n, i, c)
        \/ k = "order" /\ n = e + 1 /\ Has("batch", 1, i, c)
<1>0. {"batch", "order"} \subseteq Kinds /\ Pos("batch") = 4
  BY PosFacts DEF Kinds
<1>1. \A k \in Kinds : \A n, i, c : Has(k, n, i, c)' => Was(k, n, i, c) /\ n \in Nat /\ i \in Nat
  BY HasNatNext DEF Pushes, Stay
<1>2. InLine'
  BY <1>0, <1>1, OrdinaryKept DEF InLine, Steady
<1>3. Ascending'
  <2> HIDE DEF Was
  <2>0. \A k \in Kinds : \A n, i, c : Has(k, n, i, c)' /\ Ordinary(c)' =>
            Was(k, n, i, c) /\ Ordinary(c) /\ n \in Nat /\ i \in Nat
    BY <1>1, OrdinaryKept
  <2> SUFFICES ASSUME NEW k \in Kinds, NEW l \in Kinds, NEW m \in Nat, NEW i \in Nat, NEW n \in Nat,
                      NEW j \in Nat, NEW c, NEW d, Was(k, m, i, c), Was(l, n, j, d),
                      Ordinary(c), Ordinary(d), Ahead(k, m, i, l, n, j)
               PROVE  c < d
    BY <2>0 DEF Ascending
  <2>1. \A a, b \in Kinds : \A x, y, u, v :
           Has(a, x, y, c) /\ Has(b, u, v, d) /\ Ahead(a, x, y, b, u, v) => c < d
    BY DEF Ascending
  <2> USE DEF Was
  <2>2. CASE k = "order" /\ m = e + 1 /\ Has("batch", 1, i, c)
    <3>1. \/ Pos("order") < Pos(l)
          \/ l = "order" /\ n > m
          \/ l = "order" /\ n = m /\ i < j
      BY <2>2, AheadFacts
    <3>2. CASE l # "order"
      <4>1. Pos(l) = 4 /\ Has(l, n, j, d) /\ ~paced /\ l # "batch"
        BY <1>0, <2>2, <3>1, <3>2, PosFacts DEF InLine
      <4>2. l \in {"slot", "send_q", "pipe", "frame"}
        BY <4>1, PosFacts DEF Kinds
      <4> QED  BY <4>1, <4>2 DEF InLine
    <3>3. CASE l = "order"
      <4>1. n = m /\ i < j
        BY <2>2, <3>1, <3>3, PosFacts
      <4>2. Has("batch", 1, j, d)
        BY <2>2, <3>3, <4>1
      <4>3. Ahead("batch", 1, i, "batch", 1, j)
        BY <1>0, <4>1, AheadFacts
      <4> QED  BY <1>0, <2>1, <2>2, <4>2, <4>3
    <3> QED  BY <3>2, <3>3
  <2>3. CASE Has(k, m, i, c) /\ k # "batch"
    <3>1. CASE Has(l, n, j, d)
      BY <2>1, <2>3, <3>1
    <3>2. CASE l = "order" /\ n = e + 1 /\ Has("batch", 1, j, d)
      <4>1. Pos(k) <= Pos("order")
        BY <1>0, <3>2, AheadFacts, PosFacts
      <4>2. Ahead(k, m, i, "batch", 1, j)
        BY <1>0, <4>1, AheadFacts, PosFacts
      <4> QED  BY <1>0, <2>1, <2>3, <3>2, <4>2
    <3> QED  BY <3>1, <3>2
  <2> QED  BY <2>2, <2>3
<1> QED  BY <1>2, <1>3

LEMMA PopLined ==
    ASSUME InLine, Ascending, Steady, Pops("order", "awaited")
    PROVE  InLine' /\ Ascending'
<1> DEFINE Was(k, n, i, c) ==
        \/ k \notin {"awaited", "order"} /\ Has(k, n, i, c)
        \/ k = "order" /\ Has("order", n + 1, i, c)
        \/ k = "awaited" /\ n = 1 /\ Has("order", 1, i, c)
<1>0. {"awaited", "order"} \subseteq Kinds
  BY DEF Kinds
<1>1. \A k \in Kinds : \A n, i, c : Has(k, n, i, c)' => Was(k, n, i, c) /\ n \in Nat /\ i \in Nat /\ n > 0
  BY HasNatNext DEF Pops, Stay
<1>2. InLine'
  BY <1>0, <1>1, OrdinaryKept DEF InLine, Steady
<1>3. Ascending'
  <2> HIDE DEF Was
  <2>0. \A k \in Kinds : \A n, i, c : Has(k, n, i, c)' /\ Ordinary(c)' =>
            Was(k, n, i, c) /\ Ordinary(c) /\ n \in Nat /\ i \in Nat /\ n > 0
    BY <1>1, OrdinaryKept
  <2> SUFFICES ASSUME NEW k \in Kinds, NEW l \in Kinds, NEW m \in Nat, NEW i \in Nat, NEW n \in Nat,
                      NEW j \in Nat, NEW c, NEW d, Was(k, m, i, c), Was(l, n, j, d), m > 0, n > 0,
                      Ordinary(c), Ordinary(d), Ahead(k, m, i, l, n, j)
               PROVE  c < d
    BY <2>0 DEF Ascending
  <2>1. \A a, b \in Kinds : \A x, y, u, v :
           Has(a, x, y, c) /\ Has(b, u, v, d) /\ Ahead(a, x, y, b, u, v) => c < d
    BY DEF Ascending
  <2> USE DEF Was
  <2>2. CASE k \notin {"awaited", "order"}
    <3>1. Has(k, m, i, c)
      BY <2>2
    <3>2. CASE l \notin {"awaited", "order"}
      BY <2>1, <3>1, <3>2
    <3>3. CASE l \in {"awaited", "order"}
      <4>1. Pos(k) < Pos("order")
        BY <2>2, <3>3, AheadFacts, PosFacts
      <4> QED  BY <1>0, <2>1, <3>1, <3>3, <4>1, AheadFacts
    <3> QED  BY <3>2, <3>3
  <2>3. CASE k = "order"
    <3>1. Has("order", m + 1, i, c) /\ l # "awaited"
      BY <1>0, <2>3, AheadFacts, PosFacts
    <3>2. CASE l = "order"
      <4>1. Has("order", n + 1, j, d) /\ (m + 1 < n + 1 \/ (m + 1 = n + 1 /\ i < j))
        BY <1>0, <2>3, <3>2, AheadFacts, PosFacts
      <4>2. Ahead("order", m + 1, i, "order", n + 1, j)
        BY <1>0, <4>1, AheadFacts
      <4> QED  BY <1>0, <2>1, <3>1, <4>1, <4>2
    <3>3. CASE l # "order"
      <4>1. Has(l, n, j, d) /\ Ahead("order", m + 1, i, l, n, j)
        BY <1>0, <2>3, <3>1, <3>3, AheadFacts
      <4> QED  BY <1>0, <2>1, <3>1, <4>1
    <3> QED  BY <3>2, <3>3
  <2>4. CASE k = "awaited"
    <3>1. Has("order", 1, i, c) /\ m = 1
      BY <2>4
    <3>2. CASE l = "order"
      <4>1. Has("order", n + 1, j, d) /\ 1 < n + 1
        BY <3>2
      <4>2. Ahead("order", 1, i, "order", n + 1, j)
        BY <1>0, <4>1, AheadFacts
      <4> QED  BY <1>0, <2>1, <3>1, <4>1, <4>2
    <3>3. CASE l = "awaited"
      <4>1. Has("order", 1, j, d) /\ i < j
        BY <1>0, <2>4, <3>1, <3>3, AheadFacts, PosFacts
      <4>2. Ahead("order", 1, i, "order", 1, j)
        BY <1>0, <4>1, AheadFacts
      <4> QED  BY <1>0, <2>1, <3>1, <4>1, <4>2
    <3>4. CASE l \notin {"awaited", "order"}
      <4>1. Has(l, n, j, d) /\ Pos("awaited") < Pos(l)
        BY <1>0, <2>4, <3>4, AheadFacts
      <4>2. Pos(l) = 4
        BY <3>4, <4>1, PosFacts DEF Kinds
      <4>3. Ahead("order", 1, i, l, n, j)
        BY <1>0, <4>2, AheadFacts, PosFacts
      <4> QED  BY <1>0, <2>1, <3>1, <4>1, <4>3
    <3> QED  BY <3>2, <3>3, <3>4
  <2> QED  BY <2>2, <2>3, <2>4
<1> QED  BY <1>2, <1>3

(***************************************************************************)
(* The sender takes over the batch it awaited, or adds the head of the     *)
(* order channel to what it has gathered; a frame is sent as a whole.      *)
(***************************************************************************)
TakesOver ==
    /\ Stay({"awaited", "hand"})
    /\ \A n, i, c : ~Has("awaited", n, i, c)'
    /\ \A n, i, c : Has("hand", n, i, c)' => n = 1 /\ Has("awaited", 1, i, c)

Adds ==
    /\ Stay({"order", "hand"})
    /\ \A n, i, c : ~Has("awaited", n, i, c)
    /\ \A n, i, c : Has("order", n, i, c)' => Has("order", n + 1, i, c)
    /\ \A n, i, c : Has("hand", n, i, c)' =>
          n = 1 /\ (\/ i <= Len(hand) /\ Has("hand", 1, i, c)
                    \/ i > Len(hand) /\ Has("order", 1, i - Len(hand), c))

SendsFrame ==
    /\ Stay({"frame", "wire"})
    /\ \A n, i, c : ~Has("frame", n, i, c)'
    /\ \A n, i, c : Has("wire", n, i, c)' =>
          n = 1 /\ (\/ i <= Len(wire) /\ Has("wire", 1, i, c)
                    \/ i > Len(wire) /\ Has("frame", 1, i - Len(wire), c))

LEMMA TakesOverPlaces ==
    ASSUME Known, Single, Lined, Steady, TakesOver
    PROVE  Known' /\ Single' /\ Lined'
<1> DEFINE Was(k, n, i, c) ==
        \/ k \notin {"awaited", "hand"} /\ Has(k, n, i, c)
        \/ k = "hand" /\ n = 1 /\ Has("awaited", 1, i, c)
<1>0. {"awaited", "hand"} \subseteq Kinds
  BY DEF Kinds
<1>1. \A k \in Kinds : \A n, i, c : Has(k, n, i, c)' => Was(k, n, i, c)
  BY DEF TakesOver, Stay
<1>2. Known'
  BY <1>0, <1>1 DEF Known, Steady
<1>3. Single'
  BY <1>0, <1>1 DEF Single
<1>4. Lined'
  <2> SUFFICES ASSUME switches = 0 PROVE InLine' /\ Ascending'
    BY DEF Lined, Steady
  <2>0. InLine /\ Ascending
    BY DEF Lined
  <2>1. InLine'
    BY <1>0, <1>1, <2>0, OrdinaryKept DEF InLine, Steady
  <2>2. Ascending'
    <3> HIDE DEF Was
    <3>0. \A k \in Kinds : \A n, i, c : Has(k, n, i, c)' /\ Ordinary(c)' => Was(k, n, i, c) /\ Ordinary(c)
      BY <1>1, OrdinaryKept
    <3> SUFFICES ASSUME NEW k \in Kinds, NEW l \in Kinds, NEW m, NEW i, NEW n, NEW j, NEW c, NEW d,
                        Was(k, m, i, c), Was(l, n, j, d),
                        Ordinary(c), Ordinary(d), Ahead(k, m, i, l, n, j)
                 PROVE  c < d
      BY <3>0 DEF Ascending
    <3>1. \A a, b \in Kinds : \A x, y, u, v :
             Has(a, x, y, c) /\ Has(b, u, v, d) /\ Ahead(a, x, y, b, u, v) => c < d
      BY <2>0 DEF Ascending
    <3> USE DEF Was
    <3>2. CASE k = "hand" /\ l = "hand"
      <4>1. Has("awaited", 1, i, c) /\ Has("awaited", 1, j, d) /\ Ahead("awaited", 1, i, "awaited", 1, j)
        BY <1>0, <3>2, AheadFacts, PosFacts
      <4> QED  BY <1>0, <3>1, <4>1
    <3>3. CASE k = "hand" /\ l # "hand"
      <4>1. Has("awaited", 1, i, c) /\ Has(l, n, j, d) /\ Pos("hand") < Pos(l) /\ l # "awaited"
        BY <1>0, <3>3, AheadFacts
      <4>2. Pos("awaited") < Pos(l)
        BY <4>1, PosFacts DEF Kinds
      <4> QED  BY <1>0, <3>1, <4>1, <4>2, AheadFacts
    <3>4. CASE k # "hand" /\ l = "hand"
      <4>1. Has(k, m, i, c) /\ Has("awaited", 1, j, d) /\ Pos(k) < Pos("awaited")
        BY <1>0, <3>4, AheadFacts, PosFacts
      <4> QED  BY <1>0, <3>1, <4>1, AheadFacts
    <3>5. CASE k # "hand" /\ l # "hand"
      BY <3>1, <3>5
    <3> QED  BY <3>2, <3>3, <3>4, <3>5
  <2> QED  BY <2>1, <2>2
<1> QED  BY <1>2, <1>3, <1>4

LEMMA AddsPlaces ==
    ASSUME Typed, Known, Single, Lined, Steady, Adds
    PROVE  Known' /\ Single' /\ Lined'
<1> DEFINE Was(k, n, i, c) ==
        \/ k \notin {"order", "hand"} /\ Has(k, n, i, c)
        \/ k = "order" /\ Has("order", n + 1, i, c)
        \/ k = "hand" /\ n = 1 /\ i <= Len(hand) /\ Has("hand", 1, i, c)
        \/ k = "hand" /\ n = 1 /\ i > Len(hand) /\ Has("order", 1, i - Len(hand), c)
<1>0. {"order", "hand"} \subseteq Kinds /\ Len(hand) \in Nat
  BY DEF Kinds, Typed, Wires
<1>1. \A k \in Kinds : \A n, i, c : Has(k, n, i, c)' => Was(k, n, i, c) /\ n \in Nat /\ i \in Nat /\ n > 0
  BY HasNatNext DEF Adds, Stay
<1>2. Known'
  BY <1>0, <1>1 DEF Known, Steady
<1>3. Single'
  <2> HIDE DEF Was
  <2> SUFFICES ASSUME NEW k \in Kinds, NEW l \in Kinds, NEW m \in Nat, NEW i \in Nat, NEW n \in Nat,
                      NEW j \in Nat, NEW c, Was(k, m, i, c), Was(l, n, j, c), m > 0, n > 0
               PROVE  k = l /\ m = n /\ i = j
    BY <1>1 DEF Single
  <2> USE DEF Was
  <2>1. \A a, b \in Kinds : \A x, y, u, v : Has(a, x, y, c) /\ Has(b, u, v, c) => a = b /\ x = u /\ y = v
    BY DEF Single
  <2> QED  BY <1>0, <2>1
<1>4. Lined'
  <2> SUFFICES ASSUME switches = 0 PROVE InLine' /\ Ascending'
    BY DEF Lined, Steady
  <2>0. InLine /\ Ascending
    BY DEF Lined
  <2>1. InLine'
    BY <1>0, <1>1, <2>0, OrdinaryKept DEF InLine, Steady
  <2>2. Ascending'
    <3> HIDE DEF Was
    <3>0. \A k \in Kinds : \A n, i, c : Has(k, n, i, c)' /\ Ordinary(c)' =>
              Was(k, n, i, c) /\ Ordinary(c) /\ n \in Nat /\ i \in Nat /\ n > 0
      BY <1>1, OrdinaryKept
    <3> SUFFICES ASSUME NEW k \in Kinds, NEW l \in Kinds, NEW m \in Nat, NEW i \in Nat, NEW n \in Nat,
                        NEW j \in Nat, NEW c, NEW d, Was(k, m, i, c), Was(l, n, j, d), m > 0, n > 0,
                        Ordinary(c), Ordinary(d), Ahead(k, m, i, l, n, j)
                 PROVE  c < d
      BY <3>0 DEF Ascending
    <3>1. \A a, b \in Kinds : \A x, y, u, v :
             Has(a, x, y, c) /\ Has(b, u, v, d) /\ Ahead(a, x, y, b, u, v) => c < d
      BY <2>0 DEF Ascending
    <3> USE DEF Was
    <3>2. CASE k \notin {"order", "hand"}
      <4>1. Has(k, m, i, c) /\ k # "awaited"
        BY <3>2 DEF Adds
      <4>2. CASE l \notin {"order", "hand"}
        BY <3>1, <4>1, <4>2
      <4>3. CASE l \in {"order", "hand"}
        <5>1. Pos(k) < Pos("hand")
          BY <3>2, <4>1, <4>3, AheadFacts, PosFacts
        <5>2. CASE l = "order"
          <6>1. Has("order", n + 1, j, d) /\ Ahead(k, m, i, "order", n + 1, j)
            BY <1>0, <5>1, <5>2, AheadFacts, PosFacts
          <6> QED  BY <1>0, <3>1, <4>1, <6>1
        <5>3. CASE l = "hand" /\ j <= Len(hand)
          <6>1. Has("hand", 1, j, d) /\ Ahead(k, m, i, "hand", 1, j)
            BY <1>0, <5>1, <5>3, AheadFacts, PosFacts
          <6> QED  BY <1>0, <3>1, <4>1, <6>1
        <5>4. CASE l = "hand" /\ j > Len(hand)
          <6>1. Has("order", 1, j - Len(hand), d) /\ Ahead(k, m, i, "order", 1, j - Len(hand))
            BY <1>0, <5>1, <5>4, AheadFacts, PosFacts
          <6> QED  BY <1>0, <3>1, <4>1, <6>1
        <5> QED  BY <1>0, <4>3, <5>2, <5>3, <5>4
      <4> QED  BY <4>2, <4>3
    <3>3. CASE k = "order"
      <4>1. Has("order", m + 1, i, c) /\ l # "hand"
        BY <1>0, <3>3, AheadFacts, PosFacts
      <4>2. CASE l = "order"
        <5>1. Has("order", n + 1, j, d) /\ (m + 1 < n + 1 \/ (m + 1 = n + 1 /\ i < j))
          BY <1>0, <3>3, <4>2, AheadFacts, PosFacts
        <5>2. Ahead("order", m + 1, i, "order", n + 1, j)
          BY <1>0, <5>1, AheadFacts
        <5> QED  BY <1>0, <3>1, <4>1, <5>1, <5>2
      <4>3. CASE l # "order"
        <5>1. Has(l, n, j, d) /\ Ahead("order", m + 1, i, l, n, j)
          BY <1>0, <3>3, <4>1, <4>3, AheadFacts
        <5> QED  BY <1>0, <3>1, <4>1, <5>1
      <4> QED  BY <4>2, <4>3
    <3>4. CASE k = "hand" /\ i <= Len(hand)
      <4>1. Has("hand", 1, i, c) /\ m = 1
        BY <1>0, <3>4
      <4>2. CASE l = "order"
        BY <1>0, <3>1, <4>1, <4>2, AheadFacts, PosFacts
      <4>3. CASE l = "hand"
        <5>1. i < j /\ n = 1
          BY <3>4, <4>1, <4>3, AheadFacts, PosFacts
        <5>2. CASE j <= Len(hand)
          <6>1. Has("hand", 1, j, d) /\ Ahead("hand", 1, i, "hand", 1, j)
            BY <1>0, <4>3, <5>1, <5>2, AheadFacts
          <6> QED  BY <1>0, <3>1, <4>1, <6>1
        <5>3. CASE j > Len(hand)
          <6>1. Has("order", 1, j - Len(hand), d) /\ Ahead("hand", 1, i, "order", 1, j - Len(hand))
            BY <1>0, <4>3, <5>3, AheadFacts, PosFacts
          <6> QED  BY <1>0, <3>1, <4>1, <6>1
        <5> QED  BY <1>0, <5>2, <5>3
      <4>4. CASE l \notin {"order", "hand"}
        <5>1. Has(l, n, j, d) /\ Ahead("hand", 1, i, l, n, j)
          BY <1>0, <3>4, <4>1, <4>4, AheadFacts
        <5> QED  BY <1>0, <3>1, <4>1, <5>1
      <4> QED  BY <4>2, <4>3, <4>4
    <3>5. CASE k = "hand" /\ i > Len(hand)
      <4>1. Has("order", 1, i - Len(hand), c) /\ m = 1
        BY <1>0, <3>5
      <4>2. CASE l = "order"
        <5>1. Has("order", n + 1, j, d) /\ 1 < n + 1
          BY <1>0, <4>2
        <5>2. Ahead("order", 1, i - Len(hand), "order", n + 1, j)
          BY <1>0, <5>1, AheadFacts
        <5> QED  BY <1>0, <3>1, <4>1, <5>1, <5>2
      <4>3. CASE l = "hand"
        <5>1. i < j /\ n = 1
          BY <3>5, <4>1, <4>3, AheadFacts, PosFacts
        <5>2. Has("order", 1, j - Len(hand), d) /\ i - Len(hand) < j - Len(hand)
          BY <1>0, <3>5, <4>3, <5>1
        <5>3. Ahead("order", 1, i - Len(hand), "order", 1, j - Len(hand))
          BY <1>0, <5>2, AheadFacts
        <5> QED  BY <1>0, <3>1, <4>1, <5>2, <5>3
      <4>4. CASE l \notin {"order", "hand"}
        <5>1. Has(l, n, j, d) /\ Pos("hand") < Pos(l) /\ l # "awaited"
          BY <1>0, <3>5, <4>4, AheadFacts DEF Adds
        <5>2. Pos(l) = 4
          BY <4>4, <5>1, PosFacts DEF Kinds
        <5>3. Ahead("order", 1, i - Len(hand), l, n, j)
          BY <1>0, <5>2, AheadFacts, PosFacts
        <5> QED  BY <1>0, <3>1, <4>1, <5>1, <5>3
      <4> QED  BY <4>2, <4>3, <4>4
    <3> QED  BY <1>0, <3>2, <3>3, <3>4, <3>5
  <2> QED  BY <2>1, <2>2
<1> QED  BY <1>2, <1>3, <1>4

LEMMA SendsFramePlaces ==
    ASSUME Typed, Known, Single, Lined, Steady, SendsFrame
    PROVE  Known' /\ Single' /\ Lined'
<1> DEFINE Was(k, n, i, c) ==
        \/ k \notin {"frame", "wire"} /\ Has(k, n, i, c)
        \/ k = "wire" /\ n = 1 /\ i <= Len(wire) /\ Has("wire", 1, i, c)
        \/ k = "wire" /\ n = 1 /\ i > Len(wire) /\ Has("frame", 1, i - Len(wire), c)
<1>0. {"frame", "wire"} \subseteq Kinds /\ Len(wire) \in Nat
  BY DEF Kinds, Typed, Wires
<1>1. \A k \in Kinds : \A n, i, c : Has(k, n, i, c)' => Was(k, n, i, c) /\ n \in Nat /\ i \in Nat
  BY HasNatNext DEF SendsFrame, Stay
<1>2. Known'
  BY <1>0, <1>1 DEF Known, Steady
<1>3. Single'
  <2> HIDE DEF Was
  <2> SUFFICES ASSUME NEW k \in Kinds, NEW l \in Kinds, NEW m \in Nat, NEW i \in Nat, NEW n \in Nat,
                      NEW j \in Nat, NEW c, Was(k, m, i, c), Was(l, n, j, c)
               PROVE  k = l /\ m = n /\ i = j
    BY <1>1 DEF Single
  <2> USE DEF Was
  <2>1. \A a, b \in Kinds : \A x, y, u, v : Has(a, x, y, c) /\ Has(b, u, v, c) => a = b /\ x = u /\ y = v
    BY DEF Single
  <2> QED  BY <1>0, <2>1
<1>4. Lined'
  <2> SUFFICES ASSUME switches = 0 PROVE InLine' /\ Ascending'
    BY DEF Lined, Steady
  <2>0. InLine /\ Ascending
    BY DEF Lined
  <2>1. InLine'
    BY <1>0, <1>1, <2>0, OrdinaryKept DEF InLine, Steady
  <2>2. Ascending'
    <3>0. \A k \in Kinds : \A n, i, c : Has(k, n, i, c)' /\ Ordinary(c)' => Has(k, n, i, c) /\ Ordinary(c)
      BY <1>0, <1>1, <2>0, OrdinaryKept DEF InLine
    <3> QED  BY <2>0, <3>0 DEF Ascending
  <2> QED  BY <2>1, <2>2
<1> QED  BY <1>2, <1>3, <1>4

-----------------------------------------------------------------------------
(***************************************************************************)
(* Which of these each step is.                                            *)
(***************************************************************************)
LEMMA StayBy ==
    ASSUME NEW K,
           "slot" \in K \/ loop'.wires \in {loop.wires, <<>>},
           "batch" \in K \/ loop'.rx.ctrs \in {loop.rx.ctrs, <<>>},
           "order" \in K \/ (/\ Len(order') = Len(order)
                             /\ \A n \in 1 .. Len(order) : order'[n].ctrs \in {order[n].ctrs, <<>>}),
           "awaited" \in K \/ sender'.rx.ctrs \in {sender.rx.ctrs, <<>>},
           "hand" \in K \/ hand' = hand,
           "send_q" \in K \/ send_q' = send_q,
           "pipe" \in K \/ pipe' = pipe,
           "frame" \in K \/ frame' = frame,
           "wire" \in K \/ wire' = wire
    PROVE  Stay(K)
<1> SUFFICES ASSUME NEW k \in Kinds \ K, NEW n, NEW i, NEW c, Has(k, n, i, c)' PROVE Has(k, n, i, c)
  BY DEF Stay
<1>0. ~In(<<>>, i, c)
  BY DEF In
<1>1. CASE k \in {"slot", "batch"}
  BY <1>0, <1>1, HasView, HasViewNext
<1>2. CASE k = "order"
  <2>1. n \in 1 .. Len(order) /\ In(order'[n].ctrs, i, c)
    BY <1>2, HasViewNext
  <2>2. In(order[n].ctrs, i, c)
    BY <1>0, <1>2, <2>1
  <2> QED  BY <1>2, <2>1, <2>2, HasView
<1>3. CASE k \in {"awaited", "hand", "send_q"}
  BY <1>0, <1>3, HasView, HasViewNext
<1>4. CASE k \in {"pipe", "frame", "wire"}
  BY <1>4, HasView, HasViewNext
<1> QED  BY <1>1, <1>2, <1>3, <1>4 DEF Kinds

\* What a sequence has after it lost its head, or got another at its end.
LEMMA InTail ==
    ASSUME NEW S, NEW q \in Seq(S), q # <<>>, NEW i, NEW c, In(Tail(q), i, c)
    PROVE  In(q, i + 1, c)
  BY Popped DEF In

LEMMA InHead ==
    ASSUME NEW S, NEW q \in Seq(S), q # <<>>
    PROVE  In(q, 1, Head(q))
  BY Popped DEF In

LEMMA InJoined ==
    ASSUME NEW S, NEW p \in Seq(S), NEW q \in Seq(S), NEW i, NEW c, In(p \o q, i, c)
    PROVE  \/ i <= Len(p) /\ In(p, i, c)
           \/ i > Len(p) /\ In(q, i - Len(p), c)
<1>0. i \in 1 .. Len(p \o q) /\ (p \o q)[i] = c /\ Len(p) \in Nat /\ Len(q) \in Nat
  BY DEF In
<1>1. /\ Len(p \o q) = Len(p) + Len(q)
      /\ \A x \in 1 .. Len(p) : (p \o q)[x] = p[x]
      /\ \A x \in 1 .. Len(p \o q) : x > Len(p) => (p \o q)[x] = q[x - Len(p)]
  BY Joined
<1>2. CASE i <= Len(p)
  BY <1>0, <1>1, <1>2 DEF In
<1>3. CASE i > Len(p)
  BY <1>0, <1>1, <1>3 DEF In
<1> QED  BY <1>0, <1>2, <1>3

LEMMA InAppended ==
    ASSUME NEW S, NEW q \in Seq(S), NEW x \in S, NEW i, NEW c, In(Append(q, x), i, c)
    PROVE  In(q, i, c) \/ (i = Len(q) + 1 /\ c = x)
<1>0. i \in 1 .. Len(Append(q, x)) /\ Append(q, x)[i] = c /\ Len(q) \in Nat
  BY DEF In
<1>1. /\ Len(Append(q, x)) = Len(q) + 1
      /\ \A y \in 1 .. Len(q) : Append(q, x)[y] = q[y]
      /\ Append(q, x)[Len(q) + 1] = x
  BY Appended
<1>2. CASE i \in 1 .. Len(q)
  BY <1>0, <1>1, <1>2 DEF In
<1>3. CASE i = Len(q) + 1
  BY <1>0, <1>1, <1>3
<1> QED  BY <1>0, <1>1, <1>2, <1>3

\* The socket takes the first datagram of a place.
LEMMA SendsBy ==
    ASSUME Typed, NEW f \in {"slot", "hand", "pipe"}, NEW q \in Seq(Nat), q # <<>>,
           wire' = Append(wire, Head(q)), Stay({f, "wire"}),
           \A i, c : In(q, i, c) => Has(f, 1, i, c),
           \A n, i, c : Has(f, n, i, c)' => n = 1 /\ In(Tail(q), i, c)
    PROVE  Sends(f)
<1>0. wire \in Seq(Nat) /\ Head(q) \in Nat /\ In(q, 1, Head(q))
  BY Popped, InHead DEF Typed, Wires
<1>1. \A n, i, c : Has(f, n, i, c)' => n = 1 /\ Has(f, 1, i + 1, c)
  BY InTail
<1>2. ASSUME NEW n, NEW i, NEW c, Has("wire", n, i, c)'
      PROVE  n = 1 /\ (Has("wire", 1, i, c) \/ (i = Len(wire) + 1 /\ Has(f, 1, 1, c)))
  <2>1. n = 1 /\ In(Append(wire, Head(q)), i, c)
    BY <1>2, HasViewNext
  <2>2. In(wire, i, c) \/ (i = Len(wire) + 1 /\ c = Head(q))
    BY <1>0, <2>1, InAppended
  <2> QED  BY <1>0, <2>1, <2>2, HasView
<1> QED  BY <1>1, <1>2 DEF Sends

LEMMA Shapes ==
    Typed => /\ loop.wires \in Seq(Nat) /\ loop.rx \in Job /\ loop.rx.ctrs \in Seq(Nat)
             /\ order \in Seq(Job) /\ Len(order) \in Nat
             /\ sender.rx \in Job /\ sender.rx.ctrs \in Seq(Nat)
             /\ hand \in Seq(Nat) /\ pipe \in Seq(Nat) /\ frame \in Seq(Nat) /\ wire \in Seq(Nat)
             /\ send_q \in Seq(Wires) /\ Len(send_q) \in Nat /\ Len(wire) \in Nat /\ Len(hand) \in Nat
             /\ sealed \in Seq(Nat) /\ Len(sealed) \in Nat
  BY SMTT(20) DEF Typed, Place, Worker, Job, Wires

LEMMA OrderSendPInv == Typed /\ PInv /\ OrderSend => PInv'
<1> SUFFICES ASSUME Typed, PInv, OrderSend PROVE PInv'
  OBVIOUS
<1>0. /\ Steady /\ UNCHANGED <<sender, hand, send_q, pipe, frame, wire>>
      /\ order' = Append(order, loop.rx) /\ loop'.wires = <<>> /\ loop'.rx.ctrs = <<>>
      /\ loop'.at = "select"
  BY SelectTyped DEF OrderSend, Steady
<1>1. Stay({"batch", "order"})
  BY <1>0, StayBy
<1>2. \A n, i, c : ~Has("batch", n, i, c)'
  BY <1>0, HasViewNext DEF In
<1>3. ASSUME NEW n, NEW i, NEW c, Has("order", n, i, c)'
      PROVE  \/ n <= Len(order) /\ Has("order", n, i, c)
             \/ n = Len(order) + 1 /\ Has("batch", 1, i, c)
  <2>1. n \in 1 .. Len(order') /\ In(order'[n].ctrs, i, c)
    BY <1>3, HasViewNext
  <2>2. /\ Len(order') = Len(order) + 1 /\ order'[Len(order) + 1] = loop.rx
        /\ \A x \in 1 .. Len(order) : order'[x] = order[x]
    BY <1>0, Shapes, Appended
  <2>3. CASE n \in 1 .. Len(order)
    BY <2>1, <2>2, <2>3, HasView
  <2>4. CASE n = Len(order) + 1
    BY <2>1, <2>2, <2>4, HasView
  <2> QED  BY <2>1, <2>2, <2>3, <2>4, Shapes
<1>4. Pushes("batch", "order", Len(order)) /\ Len(order) \in Nat
  BY <1>1, <1>2, <1>3, Shapes DEF Pushes
<1>5. Known' /\ Single'
  <2>1. {"batch", "order"} \subseteq Kinds
    BY DEF Kinds
  <2> QED  BY <1>0, <1>4, <2>1, PushesPlaces DEF PInv
<1>6. Lined'
  BY <1>0, <1>4, PushLined DEF PInv, Lined, Steady
<1> QED  BY <1>0, <1>5, <1>6 DEF PInv, Gathers, Switched

LEMMA SlotSendPInv == Typed /\ PInv /\ SlotSend => PInv'
<1> SUFFICES ASSUME Typed, PInv, SlotSend PROVE PInv'
  OBVIOUS
<1>0. /\ Steady /\ UNCHANGED <<order, sender, hand, send_q, pipe, frame>>
      /\ wire' = Append(wire, Head(loop.wires)) /\ loop.wires # <<>> /\ loop.wires \in Seq(Nat)
  BY Shapes DEF SlotSend, Steady, Typed
<1>1. /\ loop'.wires = Tail(loop.wires) /\ loop'.rx.ctrs \in {loop.rx.ctrs, <<>>}
      /\ loop'.at \in {"slot", "select"}
  <2>1. CASE Len(loop.wires) = 1
    <3>1. Tail(loop.wires) = <<>>
      <4>1. Tail(loop.wires) \in Seq(Nat) /\ Len(Tail(loop.wires)) = 0
        BY <1>0, <2>1, Popped
      <4> QED  BY <4>1, EmptySeq
    <3> QED  BY <2>1, <3>1, SelectTyped DEF SlotSend
  <2>2. CASE Len(loop.wires) # 1
    <3>1. loop' = [loop EXCEPT !.wires = Tail(loop.wires)] /\ loop.at = "slot" /\ loop \in Place
      BY <2>2 DEF SlotSend, Typed
    <3> QED  BY <3>1 DEF Place
  <2> QED  BY <2>1, <2>2
<1>2. Stay({"slot", "wire"})
  BY <1>0, <1>1, StayBy
<1>3. Sends("slot")
  <2>1. /\ \A i, c : In(loop.wires, i, c) => Has("slot", 1, i, c)
        /\ \A n, i, c : Has("slot", n, i, c)' => n = 1 /\ In(Tail(loop.wires), i, c)
    BY <1>1, HasView, HasViewNext
  <2> QED  BY <1>0, <1>2, <2>1, SendsBy
<1> QED  BY <1>0, <1>1, <1>3, SendsPlaces DEF PInv, Gathers, Switched

LEMMA DrainedPInv == Typed /\ PInv /\ Drained => PInv'
<1> SUFFICES ASSUME Typed, PInv, Drained PROVE PInv'
  OBVIOUS
<1>0. /\ UNCHANGED <<sealed, switches, direct, order, sender, hand, send_q, pipe, frame, wire>>
      /\ loop'.wires = <<>> /\ loop'.rx.ctrs = <<>> /\ loop'.at = "select" /\ switches # 0
  BY SelectTyped DEF Drained, PInv, Switched
<1>1. Stay({})
  BY <1>0, StayBy
<1>2. \A k \in Kinds : \A n, i, c : Has(k, n, i, c)' => Has(k, n, i, c)
  BY <1>1 DEF Stay
<1>3. Known' /\ Single'
  BY <1>0, <1>2 DEF PInv, Known, Single
<1> QED  BY <1>0, <1>3 DEF PInv, Lined, Gathers, Switched

LEMMA ResidueSendPInv == Typed /\ PInv /\ ResidueSend => PInv'
<1> SUFFICES ASSUME Typed, PInv, ResidueSend PROVE PInv'
  OBVIOUS
<1>0. /\ UNCHANGED <<sealed, switches, direct, order, sender, hand, pipe, frame, wire>>
      /\ send_q' = Append(send_q, loop.wires)
      /\ loop'.wires = <<>> /\ loop'.rx.ctrs = <<>> /\ loop'.at = "select" /\ switches # 0
  BY SelectTyped DEF ResidueSend, PInv, Switched
<1>1. Stay({"slot", "send_q"})
  BY <1>0, StayBy
<1>2. \A n, i, c : ~Has("slot", n, i, c)'
  BY <1>0, HasViewNext DEF In
<1>3. ASSUME NEW n, NEW i, NEW c, Has("send_q", n, i, c)'
      PROVE  \/ n <= Len(send_q) /\ Has("send_q", n, i, c)
             \/ n = Len(send_q) + 1 /\ Has("slot", 1, i, c)
  <2>1. n \in 1 .. Len(send_q') /\ In(send_q'[n], i, c)
    BY <1>3, HasViewNext
  <2>2. /\ Len(send_q') = Len(send_q) + 1 /\ send_q'[Len(send_q) + 1] = loop.wires
        /\ \A x \in 1 .. Len(send_q) : send_q'[x] = send_q[x]
    BY <1>0, Shapes, Appended DEF Wires
  <2>3. CASE n \in 1 .. Len(send_q)
    BY <2>1, <2>2, <2>3, HasView
  <2>4. CASE n = Len(send_q) + 1
    BY <2>1, <2>2, <2>4, HasView
  <2>5. Len(send_q) \in Nat
    BY Shapes
  <2>6. n \in 1 .. Len(send_q) \/ n = Len(send_q) + 1
    BY <2>1, <2>2, <2>5
  <2>7. n \in 1 .. Len(send_q) => n <= Len(send_q)
    BY <2>5
  <2> QED  BY <2>3, <2>4, <2>6, <2>7
<1>4. \A k \in Kinds : \A n, i, c : Has(k, n, i, c)' =>
         \/ k \notin {"slot", "send_q"} /\ Has(k, n, i, c)
         \/ k = "send_q" /\ n <= Len(send_q) /\ Has("send_q", n, i, c)
         \/ k = "send_q" /\ n = Len(send_q) + 1 /\ Has("slot", 1, i, c)
  BY <1>1, <1>2, <1>3 DEF Stay
<1>5. {"slot", "send_q"} \subseteq Kinds /\ Len(send_q) \in Nat
  BY Shapes DEF Kinds
<1>6. Known' /\ Single'
  BY <1>0, <1>4, <1>5 DEF PInv, Known, Single
<1> QED  BY <1>0, <1>6 DEF PInv, Lined, Gathers, Switched

LEMMA SealDonePInv == ASSUME Typed, PInv, NEW ok \in BOOLEAN, SealDone(ok) PROVE PInv'
<1>0. Steady /\ UNCHANGED <<hand, send_q, pipe, frame, wire>>
  BY DEF SealDone, Steady
<1>1. \A b : Finish(b, ok).ctrs \in {b.ctrs, <<>>}
  BY DEF Finish
<1>2. CASE \E i \in 1 .. Len(order) : /\ order' = [order EXCEPT ![i] = Finish(order[i], ok)]
                                      /\ UNCHANGED <<sender, loop>>
  <2>1. PICK i \in 1 .. Len(order) : /\ order' = [order EXCEPT ![i] = Finish(order[i], ok)]
                                     /\ UNCHANGED <<sender, loop>>
    BY <1>2
  <2>2. /\ Len(order') = Len(order)
        /\ \A n \in 1 .. Len(order) : order'[n].ctrs \in {order[n].ctrs, <<>>}
    BY <1>1, <2>1, Shapes
  <2>3. Stay({})
    BY <1>0, <2>1, <2>2, StayBy
  <2> QED  BY <1>0, <2>1, <2>3, StayPlaces DEF PInv, Gathers, Switched, Steady
<1>3. CASE sender' = [sender EXCEPT !.rx = Finish(@, ok)] /\ UNCHANGED <<order, loop>> /\ sender.rx # None
  <2>1. sender'.rx.ctrs \in {sender.rx.ctrs, <<>>} /\ sender'.phase = sender.phase /\ sender.phase # "gather"
    BY <1>1, <1>3 DEF Typed, Worker, PInv, Gathers
  <2>2. Stay({})
    BY <1>0, <1>3, <2>1, StayBy
  <2> QED  BY <1>0, <1>3, <2>1, <2>2, StayPlaces DEF PInv, Gathers, Switched, Steady
<1>4. CASE /\ loop' = [loop EXCEPT !.rx = Finish(@, ok)] /\ UNCHANGED <<order, sender>>
  <2>1. loop'.rx.ctrs \in {loop.rx.ctrs, <<>>} /\ loop'.wires = loop.wires /\ loop'.at = loop.at
    BY <1>1, <1>4 DEF Typed, Place
  <2>2. Stay({})
    BY <1>0, <1>4, <2>1, StayBy
  <2> QED  BY <1>0, <1>4, <2>1, <2>2, StayPlaces DEF PInv, Gathers, Switched, Steady
<1> QED  BY <1>2, <1>3, <1>4 DEF SealDone

\* What the channels have after their head is gone.
LEMMA OrderPopped ==
    ASSUME Typed, order # <<>>, order' = Tail(order)
    PROVE  /\ Head(order) \in Job
           /\ \A n, i, c : Has("order", n, i, c)' => Has("order", n + 1, i, c)
           /\ \A i, c : In(Head(order).ctrs, i, c) => Has("order", 1, i, c)
<1>0. order \in Seq(Job) /\ Len(order) \in Nat
  BY Shapes
<1>1. /\ Head(order) \in Job /\ Head(order) = order[1] /\ Len(order) > 0
      /\ Len(order') = Len(order) - 1 /\ \A x \in 1 .. Len(order') : order'[x] = order[x + 1]
  BY <1>0, Popped
<1>2. ASSUME NEW n, NEW i, NEW c, Has("order", n, i, c)' PROVE Has("order", n + 1, i, c)
  <2>1. n \in 1 .. Len(order') /\ In(order'[n].ctrs, i, c)
    BY <1>2, HasViewNext
  <2>2. n + 1 \in 1 .. Len(order) /\ In(order[n + 1].ctrs, i, c)
    BY <1>0, <1>1, <2>1
  <2> QED  BY <2>2, HasView
<1>3. ASSUME NEW i, NEW c, In(Head(order).ctrs, i, c) PROVE Has("order", 1, i, c)
  BY <1>0, <1>1, <1>3, HasView
<1> QED  BY <1>1, <1>2, <1>3

LEMMA QueuePopped ==
    ASSUME Typed, send_q # <<>>, send_q' = Tail(send_q)
    PROVE  /\ \A n, i, c : Has("send_q", n, i, c)' => Has("send_q", n + 1, i, c)
           /\ \A i, c : In(Head(send_q), i, c) => Has("send_q", 1, i, c)
<1>0. send_q \in Seq(Wires) /\ Len(send_q) \in Nat
  BY Shapes
<1>1. /\ Head(send_q) = send_q[1] /\ Len(send_q) > 0
      /\ Len(send_q') = Len(send_q) - 1 /\ \A x \in 1 .. Len(send_q') : send_q'[x] = send_q[x + 1]
  BY <1>0, Popped
<1>2. ASSUME NEW n, NEW i, NEW c, Has("send_q", n, i, c)' PROVE Has("send_q", n + 1, i, c)
  <2>1. n \in 1 .. Len(send_q') /\ In(send_q'[n], i, c)
    BY <1>2, HasViewNext
  <2>2. n + 1 \in 1 .. Len(send_q) /\ In(send_q[n + 1], i, c)
    BY <1>0, <1>1, <2>1
  <2> QED  BY <2>2, HasView
<1>3. ASSUME NEW i, NEW c, In(Head(send_q), i, c) PROVE Has("send_q", 1, i, c)
  BY <1>0, <1>1, <1>3, HasView
<1> QED  BY <1>2, <1>3

\* The head of the order channel is the receiver that the sender awaits.
LEMMA AwaitsHead ==
    ASSUME Typed, PInv, order # <<>>, order' = Tail(order), sender'.rx = Head(order), Steady,
           UNCHANGED <<loop, hand, send_q, pipe, frame, wire>>
    PROVE  Known' /\ Single' /\ Lined'
<1>1. Stay({"awaited", "order"})
  BY StayBy
<1>2. \A n, i, c : Has("awaited", n, i, c)' => n = 1 /\ Has("order", 1, i, c)
  BY HasViewNext, OrderPopped
<1>3. Pops("order", "awaited")
  BY <1>1, <1>2, OrderPopped DEF Pops
<1>4. {"awaited", "order"} \subseteq Kinds
  BY DEF Kinds
<1>5. Known' /\ Single'
  BY <1>3, <1>4, PopsPlaces DEF PInv
<1>6. Lined'
  BY <1>3, PopLined DEF PInv, Lined, Steady
<1> QED  BY <1>5, <1>6

LEMMA SenderRecvPInv == Typed /\ PInv /\ SenderRecv => PInv'
<1> SUFFICES ASSUME Typed, PInv, SenderRecv PROVE PInv'
  OBVIOUS
<1>1. /\ Steady /\ UNCHANGED <<loop, hand, send_q, pipe, frame, wire>>
      /\ order # <<>> /\ order' = Tail(order)
      /\ sender' = [sender EXCEPT !.rx = Head(order)] /\ sender.phase = "await" /\ sender \in Worker
  BY DEF SenderRecv, Steady, Typed
<1>2. sender'.rx = Head(order) /\ sender'.phase = "await"
  BY <1>1 DEF Worker
<1>3. Known' /\ Single' /\ Lined'
  BY <1>1, <1>2, AwaitsHead
<1> QED  BY <1>1, <1>2, <1>3 DEF PInv, Gathers, Switched, Steady

LEMMA SenderAwaitPInv == Typed /\ PInv /\ SenderAwait => PInv'
<1> SUFFICES ASSUME Typed, PInv, SenderAwait PROVE PInv'
  OBVIOUS
<1>1. /\ Steady /\ UNCHANGED <<loop, order, send_q, pipe, frame, wire>>
      /\ hand' = sender.rx.ctrs /\ sender' = [phase |-> "gather", rx |-> None]
  BY DEF SenderAwait, Steady
<1>2. sender'.rx = None /\ sender'.rx.ctrs = <<>>
  BY <1>1, SelectTyped
<1>3. Stay({"awaited", "hand"})
  BY <1>1, StayBy
<1>4. TakesOver
  <2>1. \A n, i, c : ~Has("awaited", n, i, c)'
    BY <1>2, HasViewNext DEF In
  <2>2. \A n, i, c : Has("hand", n, i, c)' => n = 1 /\ Has("awaited", 1, i, c)
    BY <1>1, HasView, HasViewNext
  <2> QED  BY <1>3, <2>1, <2>2 DEF TakesOver
<1>5. Known' /\ Single' /\ Lined'
  BY <1>1, <1>4, TakesOverPlaces DEF PInv
<1> QED  BY <1>1, <1>2, <1>5 DEF PInv, Gathers, Switched, Steady

LEMMA SenderGatherPInv == Typed /\ PInv /\ SenderGather => PInv'
<1> SUFFICES ASSUME Typed, PInv, SenderGather PROVE PInv'
  OBVIOUS
<1>1. /\ Steady /\ UNCHANGED <<loop, send_q, pipe, frame, wire>>
      /\ sender.phase = "gather" /\ sender.rx = None /\ sender \in Worker
  BY DEF SenderGather, Steady, Typed, PInv, Gathers
<1>2. CASE sender' = [sender EXCEPT !.phase = "flush"] /\ UNCHANGED <<order, hand>>
  <2>1. sender'.rx = sender.rx /\ sender'.phase = "flush"
    BY <1>1, <1>2 DEF Worker
  <2>2. Stay({})
    BY <1>1, <1>2, <2>1, StayBy
  <2> QED  BY <1>1, <2>1, <2>2, StayPlaces DEF PInv, Gathers, Switched, Steady
<1>3. CASE /\ order # <<>> /\ hand' = hand \o Head(order).ctrs /\ order' = Tail(order)
           /\ UNCHANGED sender
  <2>1. Stay({"order", "hand"})
    BY <1>1, <1>3, StayBy
  <2>2. \A n, i, c : ~Has("awaited", n, i, c)
    BY <1>1, SelectTyped, HasView DEF In
  <2>3. hand \in Seq(Nat) /\ Head(order).ctrs \in Seq(Nat)
    BY <1>3, Shapes, OrderPopped DEF Job, Wires
  <2>4. ASSUME NEW n, NEW i, NEW c, Has("hand", n, i, c)'
        PROVE  n = 1 /\ (\/ i <= Len(hand) /\ Has("hand", 1, i, c)
                         \/ i > Len(hand) /\ Has("order", 1, i - Len(hand), c))
    <3>1. n = 1 /\ In(hand \o Head(order).ctrs, i, c)
      BY <1>3, <2>4, HasViewNext
    <3>2. \/ i <= Len(hand) /\ In(hand, i, c)
          \/ i > Len(hand) /\ In(Head(order).ctrs, i - Len(hand), c)
      BY <2>3, <3>1, InJoined
    <3> QED  BY <1>3, <3>1, <3>2, HasView, OrderPopped
  <2>5. Adds
    BY <1>3, <2>1, <2>2, <2>4, OrderPopped DEF Adds
  <2>6. Known' /\ Single' /\ Lined'
    BY <1>1, <2>5, AddsPlaces DEF PInv
  <2> QED  BY <1>1, <1>3, <2>6 DEF PInv, Gathers, Switched, Steady
<1>4. CASE /\ order # <<>> /\ sender' = [phase |-> "flush", rx |-> Head(order)]
           /\ order' = Tail(order) /\ UNCHANGED hand
  <2>1. sender'.rx = Head(order) /\ sender'.phase = "flush"
    BY <1>4
  <2>2. Known' /\ Single' /\ Lined'
    BY <1>1, <1>4, <2>1, AwaitsHead
  <2> QED  BY <1>1, <2>1, <2>2 DEF PInv, Gathers, Switched, Steady
<1> QED  BY <1>2, <1>3, <1>4 DEF SenderGather

LEMMA SenderFlushPInv == Typed /\ PInv /\ SenderFlush => PInv'
<1> SUFFICES ASSUME Typed, PInv, SenderFlush PROVE PInv'
  OBVIOUS
<1>1. /\ Steady /\ UNCHANGED <<loop, order, send_q, pipe, frame>>
      /\ sender.phase = "flush" /\ sender \in Worker /\ hand \in Seq(Nat)
  BY Shapes DEF SenderFlush, Steady, Typed
<1>2. CASE hand = <<>> /\ sender' = [sender EXCEPT !.phase = "await"] /\ UNCHANGED <<hand, wire>>
  <2>1. sender'.rx = sender.rx /\ sender'.phase = "await"
    BY <1>1, <1>2 DEF Worker
  <2>2. Stay({})
    BY <1>1, <1>2, <2>1, StayBy
  <2> QED  BY <1>1, <2>1, <2>2, StayPlaces DEF PInv, Gathers, Switched, Steady
<1>3. CASE /\ hand # <<>> /\ wire' = Append(wire, Head(hand)) /\ hand' = Tail(hand)
           /\ UNCHANGED sender
  <2>1. Stay({"hand", "wire"})
    BY <1>1, <1>3, StayBy
  <2>2. /\ \A i, c : In(hand, i, c) => Has("hand", 1, i, c)
        /\ \A n, i, c : Has("hand", n, i, c)' => n = 1 /\ In(Tail(hand), i, c)
    BY <1>3, HasView, HasViewNext
  <2>3. Sends("hand")
    BY <1>1, <1>3, <2>1, <2>2, SendsBy
  <2> QED  BY <1>1, <1>3, <2>3, SendsPlaces DEF PInv, Gathers, Switched, Steady
<1> QED  BY <1>2, <1>3 DEF SenderFlush

LEMMA PipeTakePInv == Typed /\ PInv /\ PipeTake => PInv'
<1> SUFFICES ASSUME Typed, PInv, PipeTake PROVE PInv'
  OBVIOUS
<1>1. /\ Steady /\ UNCHANGED <<loop, order, sender, hand, frame, wire>>
      /\ send_q # <<>> /\ pipe' = Head(send_q) /\ send_q' = Tail(send_q)
  BY DEF PipeTake, Steady
<1>2. Stay({"pipe", "send_q"})
  BY <1>1, StayBy
<1>3. Pops("send_q", "pipe")
  <2>1. \A n, i, c : Has("pipe", n, i, c)' => n = 1 /\ Has("send_q", 1, i, c)
    BY <1>1, HasViewNext, QueuePopped
  <2> QED  BY <1>1, <1>2, <2>1, QueuePopped DEF Pops
<1>4. {"pipe", "send_q"} \subseteq Kinds
  BY DEF Kinds
<1>5. Known' /\ Single'
  BY <1>1, <1>3, <1>4, PopsPlaces DEF PInv
<1>6. Lined'
  <2> SUFFICES ASSUME switches = 0 PROVE InLine' /\ Ascending'
    BY <1>1 DEF Lined, Steady
  <2>1. InLine /\ Ascending
    BY DEF PInv, Lined
  <2>2. \A n, i, c : ~Has("send_q", n, i, c)
    BY <1>4, <2>1 DEF InLine
  <2>3. \A k \in Kinds : \A n, i, c : Has(k, n, i, c)' => Has(k, n, i, c)
    BY <1>3, <2>2 DEF Pops, Stay
  <2> QED  BY <1>1, <2>1, <2>3, OrdinaryKept DEF InLine, Ascending, Steady
<1> QED  BY <1>1, <1>5, <1>6 DEF PInv, Gathers, Switched, Steady

LEMMA PipeSendPInv == Typed /\ PInv /\ PipeSend => PInv'
<1> SUFFICES ASSUME Typed, PInv, PipeSend PROVE PInv'
  OBVIOUS
<1>1. /\ Steady /\ UNCHANGED <<loop, order, sender, hand, send_q, frame>> /\ pipe \in Seq(Nat)
      /\ pipe # <<>> /\ wire' = Append(wire, Head(pipe)) /\ pipe' = Tail(pipe)
  BY Shapes DEF PipeSend, Steady
<1>2. Stay({"pipe", "wire"})
  BY <1>1, StayBy
<1>3. /\ \A i, c : In(pipe, i, c) => Has("pipe", 1, i, c)
      /\ \A n, i, c : Has("pipe", n, i, c)' => n = 1 /\ In(Tail(pipe), i, c)
  BY <1>1, HasView, HasViewNext
<1>4. Sends("pipe")
  BY <1>1, <1>2, <1>3, SendsBy
<1> QED  BY <1>1, <1>4, SendsPlaces DEF PInv, Gathers, Switched, Steady

LEMMA DirectSendPInv == Typed /\ PInv /\ DirectSend => PInv'
<1> SUFFICES ASSUME Typed, PInv, DirectSend PROVE PInv'
  OBVIOUS
<1>1. /\ Steady /\ UNCHANGED <<loop, order, sender, hand, send_q, pipe>>
      /\ wire' = wire \o frame /\ frame' = <<>> /\ wire \in Seq(Nat) /\ frame \in Seq(Nat)
  BY Shapes DEF DirectSend, Steady
<1>2. Stay({"frame", "wire"})
  BY <1>1, StayBy
<1>3. \A n, i, c : ~Has("frame", n, i, c)'
  BY <1>1, HasViewNext DEF In
<1>4. ASSUME NEW n, NEW i, NEW c, Has("wire", n, i, c)'
      PROVE  n = 1 /\ (\/ i <= Len(wire) /\ Has("wire", 1, i, c)
                       \/ i > Len(wire) /\ Has("frame", 1, i - Len(wire), c))
  <2>1. n = 1 /\ In(wire \o frame, i, c)
    BY <1>1, <1>4, HasViewNext
  <2>2. \/ i <= Len(wire) /\ In(wire, i, c)
        \/ i > Len(wire) /\ In(frame, i - Len(wire), c)
    BY <1>1, <2>1, InJoined
  <2> QED  BY <2>1, <2>2, HasView
<1>5. SendsFrame
  BY <1>2, <1>3, <1>4 DEF SendsFrame
<1>6. Known' /\ Single' /\ Lined'
  BY <1>1, <1>5, SendsFramePlaces DEF PInv
<1> QED  BY <1>1, <1>6 DEF PInv, Gathers, Switched, Steady

\* What a seal adds to sealed, and the counters it takes.
LEMMA SealsMore ==
    ASSUME Typed, NEW q \in Seq(Nat), sealed' = sealed \o q, direct' = 0 => direct = 0
    PROVE  /\ Grown /\ Len(sealed') = Len(sealed) + Len(q)
           /\ \A i, c : In(Upto(Len(sealed), Len(q)), i, c) => c = Len(sealed) + i /\ c <= Len(sealed')
<1>0. sealed \in Seq(Nat) /\ Len(sealed) \in Nat /\ Len(q) \in Nat
  BY Shapes
<1>1. /\ Len(sealed') = Len(sealed) + Len(q)
      /\ \A c \in 1 .. Len(sealed) : sealed'[c] = sealed[c]
  BY <1>0, Joined
<1>2. Grown
  BY <1>0, <1>1 DEF Grown
<1>3. ASSUME NEW i, NEW c, In(Upto(Len(sealed), Len(q)), i, c)
      PROVE  c = Len(sealed) + i /\ c <= Len(sealed')
  <2>1. i \in 1 .. Len(q) /\ c = Len(sealed) + i
    BY <1>0, <1>3, UptoFacts DEF In
  <2> QED  BY <1>0, <1>1, <2>1
<1> QED  BY <1>1, <1>2, <1>3

LEMMA RecvManyPInv == Typed /\ PInv /\ RecvMany => PInv'
<1> SUFFICES ASSUME Typed, PInv, RecvMany PROVE PInv'
  OBVIOUS
<1>1. /\ UNCHANGED <<order, sender, hand, send_q, pipe, frame, wire>>
      /\ UNCHANGED <<paced, switches, direct>> /\ loop.at = "select"
  BY RecvManyDoes DEF Idles
<1>2. PICK n \in Nat \ {0} :
         \/ paced /\ UNCHANGED <<sealed, loop>>
         \/ /\ ~paced /\ sealed' = sealed \o Upto(read, n)
            /\ loop'.at = "order" /\ loop'.wires = <<>> /\ loop'.rx.ctrs = Upto(Len(sealed), n)
  BY RecvManyDoes
<1>3. CASE paced /\ UNCHANGED <<sealed, loop>>
  <2>1. Stay({}) /\ Steady
    BY <1>1, <1>3, StayBy DEF Steady
  <2> QED  BY <1>1, <1>3, <2>1, StayPlaces DEF PInv, Gathers, Switched
<1>4. CASE /\ ~paced /\ sealed' = sealed \o Upto(read, n)
           /\ loop'.at = "order" /\ loop'.wires = <<>> /\ loop'.rx.ctrs = Upto(Len(sealed), n)
  <2>r. read \in Nat
    BY Bounds DEF Typed
  <2>0. Upto(read, n) \in Seq(Nat) /\ Len(Upto(read, n)) = n
    BY <2>r, UptoFacts DEF Wires
  <2>1. Grown /\ \A i, c : In(Upto(Len(sealed), n), i, c) => c = Len(sealed) + i /\ c <= Len(sealed')
    BY <1>1, <1>4, <2>0, SealsMore
  <2>2. Stay({"batch"})
    BY <1>1, <1>4, StayBy
  <2>3. Fresh("batch")
    BY <1>4, <2>1, <2>2, HasViewNext DEF Fresh
  <2>4. Known' /\ Single'
    BY <2>1, <2>3, FreshPlaces DEF PInv
  <2>5. Lined'
    BY <1>1, <1>4, <2>1, <2>3, FreshLined DEF PInv, Lined
  <2> QED  BY <1>1, <1>4, <2>4, <2>5 DEF PInv, Gathers, Switched
<1> QED  BY <1>2, <1>3, <1>4

LEMMA TickPInv == Typed /\ PInv /\ Tick => PInv'
<1> SUFFICES ASSUME Typed, PInv, Tick PROVE PInv'
  OBVIOUS
<1>1. /\ UNCHANGED <<order, sender, hand, send_q, pipe, frame, wire>>
      /\ UNCHANGED <<paced, switches, direct>> /\ paced
  BY TickDoes DEF Idles
<1>2. PICK s \in Wires : /\ sealed' = sealed \o s /\ loop'.at = "slot" /\ loop'.rx.ctrs = <<>>
                         /\ loop'.wires = Upto(Len(sealed), Len(s))
  BY TickDoes
<1>3. Grown /\ \A i, c : In(Upto(Len(sealed), Len(s)), i, c) => c = Len(sealed) + i /\ c <= Len(sealed')
  BY <1>1, <1>2, SealsMore DEF Wires
<1>4. Stay({"slot"})
  BY <1>1, <1>2, StayBy
<1>5. Fresh("slot")
  BY <1>2, <1>3, <1>4, HasViewNext DEF Fresh
<1>6. Known' /\ Single'
  BY <1>3, <1>5, FreshPlaces DEF PInv
<1>7. Lined'
  BY <1>1, <1>3, <1>5, FreshLined DEF PInv, Lined
<1> QED  BY <1>1, <1>2, <1>6, <1>7 DEF PInv, Gathers, Switched

LEMMA SwitchPInv == ASSUME Typed, PInv, NEW t \in Targets, Switch(t) PROVE PInv'
<1>1. /\ UNCHANGED <<order, sender, hand, send_q, pipe, frame, wire>>
      /\ UNCHANGED direct /\ switches' = switches + 1 /\ switches \in Nat
  BY SwitchDoes, Bounds DEF Idles, Typed
<1>2. switches' # 0
  BY <1>1
<1>3. CASE UNCHANGED sealed /\ loop'.wires \in {loop.wires, <<>>} /\ loop'.rx.ctrs \in {loop.rx.ctrs, <<>>}
  <2>1. Stay({})
    BY <1>1, <1>3, StayBy
  <2>2. \A k \in Kinds : \A n, i, c : Has(k, n, i, c)' => Has(k, n, i, c)
    BY <2>1 DEF Stay
  <2>3. Known' /\ Single'
    BY <1>3, <2>2 DEF PInv, Known, Single
  <2> QED  BY <1>1, <1>2, <2>3 DEF PInv, Lined, Gathers, Switched
<1>4. CASE /\ sealed' = sealed \o pending /\ loop'.rx.ctrs = <<>>
           /\ loop'.wires = Upto(Len(sealed), Len(pending))
  <2>1. pending \in Seq(Nat)
    BY DEF Typed, Wires
  <2>2. Grown /\ \A i, c : In(Upto(Len(sealed), Len(pending)), i, c) => c = Len(sealed) + i /\ c <= Len(sealed')
    BY <1>1, <1>4, <2>1, SealsMore
  <2>3. Stay({"slot"})
    BY <1>1, <1>4, StayBy
  <2>4. Fresh("slot")
    BY <1>4, <2>2, <2>3, HasViewNext DEF Fresh
  <2>5. Known' /\ Single'
    BY <2>2, <2>4, FreshPlaces DEF PInv
  <2> QED  BY <1>1, <1>2, <2>5 DEF PInv, Lined, Gathers, Switched
<1> QED  BY <1>3, <1>4, SwitchDoes

LEMMA DirectSealPInv == Typed /\ PInv /\ DirectSeal => PInv'
<1> SUFFICES ASSUME Typed, PInv, DirectSeal PROVE PInv'
  OBVIOUS
<1>1. /\ UNCHANGED <<loop, order, sender, hand, send_q, pipe, wire, paced, switches>>
      /\ direct' = direct + 1 /\ direct \in Nat
      /\ sealed' = Append(sealed, Filler) /\ frame' = <<Len(sealed) + 1>>
  BY Bounds DEF DirectSeal, Typed
<1>2. sealed \in Seq(Nat) /\ Len(sealed) \in Nat /\ Filler \in Nat /\ direct' # 0
  BY <1>1, Shapes DEF Filler
<1>3. /\ Len(sealed') = Len(sealed) + 1 /\ sealed'[Len(sealed) + 1] = Filler
      /\ \A c \in 1 .. Len(sealed) : sealed'[c] = sealed[c]
  BY <1>1, <1>2, Appended
<1>4. Grown
  BY <1>2, <1>3 DEF Grown
<1>5. \A n, i, c : Has("frame", n, i, c)' => n = 1 /\ i = 1 /\ c = Len(sealed) + 1
  BY <1>1, HasViewNext DEF In
<1>6. Stay({"frame"})
  BY <1>1, StayBy
<1>7. Fresh("frame")
  BY <1>2, <1>3, <1>5, <1>6 DEF Fresh
<1>8. \A n, i, c : Has("frame", n, i, c)' => ~Ordinary(c)'
  BY <1>2, <1>3, <1>5 DEF Ordinary
<1>9. Known' /\ Single'
  BY <1>4, <1>7, FreshPlaces DEF PInv
<1>10. Lined'
  BY <1>1, <1>4, <1>7, <1>8, FreshLined DEF PInv, Lined
<1> QED  BY <1>1, <1>9, <1>10 DEF PInv, Gathers, Switched

LEMMA NextPInv == Typed /\ PInv /\ [Next]_vars => PInv'
<1> SUFFICES ASSUME Typed, PInv, [Next]_vars PROVE PInv'
  OBVIOUS
<1>1. CASE UNCHANGED vars
  <2>1. Steady /\ UNCHANGED <<loop, order, sender, hand, send_q, pipe, frame, wire>>
    BY <1>1 DEF vars, Steady
  <2>2. Stay({})
    BY <2>1, StayBy
  <2> QED  BY <2>1, <2>2, StayPlaces DEF PInv, Gathers, Switched, Steady
<1>2. CASE LoopAwait
  BY <1>2, OrderSendPInv, SlotSendPInv, DrainedPInv, ResidueSendPInv DEF LoopAwait
<1>3. CASE Sender
  BY <1>3, SenderRecvPInv, SenderAwaitPInv, SenderGatherPInv, SenderFlushPInv DEF Sender
<1>4. CASE Pipe \/ DirectSeal \/ DirectSend
  BY <1>4, PipeTakePInv, PipeSendPInv, DirectSealPInv, DirectSendPInv DEF Pipe
<1>5. CASE RecvMany \/ Tick
  BY <1>5, RecvManyPInv, TickPInv
<1>6. ASSUME NEW t \in Targets, Switch(t) PROVE PInv'
  BY <1>6, SwitchPInv
<1>7. ASSUME NEW ok \in BOOLEAN, SealDone(ok) PROVE PInv'
  BY <1>7, SealDonePInv
<1> QED  BY <1>1, <1>2, <1>3, <1>4, <1>5, <1>6, <1>7 DEF Next

-----------------------------------------------------------------------------
IInv == Typed /\ Staged /\ PInv

LEMMA Inductive == Spec => []IInv
<1>1. Init => IInv
  BY InitTyped, InitStaged, InitPInv DEF IInv
<1>2. IInv /\ [Next]_vars => IInv'
  BY NextTyped, NextStaged, NextPInv DEF IInv
<1> QED  BY <1>1, <1>2, PTL DEF Spec

(***************************************************************************)
(* As long as traffic has not been switched, the socket gets what          *)
(* dispatch_seal reserved in the order of the counters, and once other     *)
(* tasks sent frames of their own it still gets the packets so, whatever   *)
(* the seals at rayon do.                                                  *)
(***************************************************************************)
THEOREM WireKeepsOrder == Spec => []WireOrdered
<1>1. ASSUME IInv PROVE WireOrdered
  <2> SUFFICES ASSUME switches = 0, NEW i \in 1 .. Len(wire), NEW j \in 1 .. Len(wire), i < j,
                      direct > 0 => sealed[wire[i]] # Filler /\ sealed[wire[j]] # Filler
               PROVE  wire[i] < wire[j]
    BY DEF WireOrdered
  <2>1. Ascending
    BY <1>1 DEF IInv, PInv, Lined
  <2>2. Has("wire", 1, i, wire[i]) /\ Has("wire", 1, j, wire[j])
    BY HasView DEF In
  <2>3. direct \in Nat
    BY <1>1, Bounds DEF IInv, Typed
  <2>4. Ordinary(wire[i]) /\ Ordinary(wire[j])
    BY <2>3 DEF Ordinary
  <2>5. "wire" \in Kinds
    BY DEF Kinds
  <2>6. Ahead("wire", 1, i, "wire", 1, j)
    BY DEF Ahead
  <2> QED  BY <2>1, <2>2, <2>4, <2>5, <2>6 DEF Ascending
<1> QED  BY <1>1, Inductive, PTL

(***************************************************************************)
(* Through all hand-overs of the loop, the channels and the senders, and   *)
(* across live switches, a sealed datagram is in one place: nothing is     *)
(* sent twice.                                                             *)
(***************************************************************************)
THEOREM OneHolder == Spec => []OnePlace
<1>1. ASSUME IInv PROVE OnePlace
  <2> SUFFICES ASSUME NEW s \in Spots, NEW t \in Spots, At(s) = At(t) PROVE s = t
    BY DEF OnePlace
  <2>1. PICK k \in Kinds : \E m \in 1 .. Depth(k) : \E i \in 1 .. Len(Held(k, m)) : s = <<k, m, i>>
    BY DEF Spots
  <2>1a. PICK m \in 1 .. Depth(k) : \E i \in 1 .. Len(Held(k, m)) : s = <<k, m, i>>
    BY <2>1
  <2>1b. PICK i \in 1 .. Len(Held(k, m)) : s = <<k, m, i>>
    BY <2>1a
  <2>2. PICK l \in Kinds : \E n \in 1 .. Depth(l) : \E j \in 1 .. Len(Held(l, n)) : t = <<l, n, j>>
    BY DEF Spots
  <2>2a. PICK n \in 1 .. Depth(l) : \E j \in 1 .. Len(Held(l, n)) : t = <<l, n, j>>
    BY <2>2
  <2>2b. PICK j \in 1 .. Len(Held(l, n)) : t = <<l, n, j>>
    BY <2>2a
  <2>3. At(s) = Held(k, m)[i] /\ At(t) = Held(l, n)[j]
    BY <2>1b, <2>2b DEF At
  <2>4. Has(k, m, i, At(s)) /\ Has(l, n, j, At(s))
    BY <2>3 DEF Has
  <2>5. k = l /\ m = n /\ i = j
    BY <1>1, <2>4 DEF IInv, PInv, Single
  <2> QED  BY <2>1b, <2>2b, <2>5
<1> QED  BY <1>1, Inductive, PTL

\* A sequence whose elements are in a smaller set.
LEMMA Within ==
    ASSUME NEW S, NEW T, NEW q \in Seq(S), \A i \in 1 .. Len(q) : q[i] \in T
    PROVE  q \in Seq(T)
  OBVIOUS

(***************************************************************************)
(* What is queued, held or sent anywhere has been reserved, and every      *)
(* packet that is staged or sealed was read from the TUN.                  *)
(***************************************************************************)
THEOREM LoopTypeCorrect == Spec => []TypeOK
<1>1. ASSUME IInv PROVE TypeOK
  <2>0. Typed /\ Staged /\ Known
    BY <1>1 DEF IInv, PInv
  <2>1. \A k \in Kinds : \A n, i, c : Has(k, n, i, c) => c \in Reserved
    BY <2>0 DEF Known, Reserved
  <2>2. ASSUME NEW q \in Seq(Nat), NEW k \in Kinds, NEW n, \A i, c : In(q, i, c) => Has(k, n, i, c)
        PROVE  q \in Seq(Reserved)
    <3>1. \A i \in 1 .. Len(q) : q[i] \in Reserved
      BY <2>1, <2>2 DEF In
    <3> QED  BY <3>1, Within
  <2>k. /\ "slot" \in Kinds /\ "batch" \in Kinds /\ "order" \in Kinds /\ "awaited" \in Kinds
        /\ "hand" \in Kinds /\ "send_q" \in Kinds /\ "pipe" \in Kinds /\ "frame" \in Kinds
        /\ "wire" \in Kinds
    BY DEF Kinds
  <2>h. \A i, c : /\ In(loop.wires, i, c) => Has("slot", 1, i, c)
                  /\ In(loop.rx.ctrs, i, c) => Has("batch", 1, i, c)
                  /\ In(sender.rx.ctrs, i, c) => Has("awaited", 1, i, c)
                  /\ In(hand, i, c) => Has("hand", 1, i, c)
                  /\ In(pipe, i, c) => Has("pipe", 1, i, c)
                  /\ In(frame, i, c) => Has("frame", 1, i, c)
                  /\ In(wire, i, c) => Has("wire", 1, i, c)
    BY HasView
  <2>3. /\ loop.wires \in Seq(Reserved) /\ loop.rx.ctrs \in Seq(Reserved)
        /\ sender.rx.ctrs \in Seq(Reserved)
    <3>0. loop.wires \in Seq(Nat) /\ loop.rx.ctrs \in Seq(Nat) /\ sender.rx.ctrs \in Seq(Nat)
      BY <2>0, Shapes
    <3>1. loop.wires \in Seq(Reserved)
      BY <2>2, <2>h, <2>k, <3>0
    <3>2. loop.rx.ctrs \in Seq(Reserved)
      BY <2>2, <2>h, <2>k, <3>0
    <3>3. sender.rx.ctrs \in Seq(Reserved)
      BY <2>2, <2>h, <2>k, <3>0
    <3> QED  BY <3>1, <3>2, <3>3
  <2>4. hand \in Seq(Reserved) /\ pipe \in Seq(Reserved) /\ frame \in Seq(Reserved)
        /\ wire \in Seq(Reserved)
    <3>0. hand \in Seq(Nat) /\ pipe \in Seq(Nat) /\ frame \in Seq(Nat) /\ wire \in Seq(Nat)
      BY <2>0, Shapes
    <3>1. hand \in Seq(Reserved)
      BY <2>2, <2>h, <2>k, <3>0
    <3>2. pipe \in Seq(Reserved)
      BY <2>2, <2>h, <2>k, <3>0
    <3>3. frame \in Seq(Reserved)
      BY <2>2, <2>h, <2>k, <3>0
    <3>4. wire \in Seq(Reserved)
      BY <2>2, <2>h, <2>k, <3>0
    <3> QED  BY <3>1, <3>2, <3>3, <3>4
  <2>5. order \in Seq(Batch)
    <3>0. order \in Seq(Job)
      BY <2>0, Shapes
    <3>1. ASSUME NEW n \in 1 .. Len(order) PROVE order[n] \in Batch
      <4>0. order[n] \in Job
        BY <3>0
      <4>1. order[n].ctrs \in Seq(Nat)
        BY <4>0 DEF Job, Wires
      <4>2. \A i, c : In(order[n].ctrs, i, c) => Has("order", n, i, c)
        BY HasView
      <4>3. order[n].ctrs \in Seq(Reserved)
        BY <2>2, <2>k, <4>1, <4>2
      <4> QED  BY <4>0, <4>3 DEF Job, Batch
    <3> QED  BY <3>0, <3>1, Within
  <2>6. send_q \in Seq(Seq(Reserved))
    <3>0. send_q \in Seq(Seq(Nat))
      BY <2>0, Shapes DEF Wires
    <3>1. ASSUME NEW n \in 1 .. Len(send_q) PROVE send_q[n] \in Seq(Reserved)
      <4>1. send_q[n] \in Seq(Nat)
        BY <3>0
      <4>2. \A i, c : In(send_q[n], i, c) => Has("send_q", n, i, c)
        BY HasView
      <4> QED  BY <2>2, <2>k, <4>1, <4>2
    <3> QED  BY <3>0, <3>1, Within
  <2>7. pending \in Seq(1 .. read) /\ sealed \in Seq(0 .. read)
    <3>0. pending \in Seq(Nat) /\ sealed \in Seq(Nat) /\ read \in Nat
      BY <2>0, Bounds DEF Typed, Wires
    <3>1. /\ \A i \in 1 .. Len(pending) : pending[i] \in 1 .. read
          /\ \A i \in 1 .. Len(sealed) : sealed[i] \in 0 .. read
      <4>1. /\ \A i \in 1 .. Len(pending) : 0 < pending[i] /\ pending[i] <= read
            /\ \A i \in 1 .. Len(sealed) : sealed[i] <= read
        BY <2>0 DEF Staged
      <4>2. /\ \A i \in 1 .. Len(pending) : pending[i] \in Nat
            /\ \A i \in 1 .. Len(sealed) : sealed[i] \in Nat
        BY <3>0
      <4>3. ASSUME NEW i \in 1 .. Len(pending) PROVE pending[i] \in 1 .. read
        BY <3>0, <4>1, <4>2
      <4>4. ASSUME NEW i \in 1 .. Len(sealed) PROVE sealed[i] \in 0 .. read
        BY <3>0, <4>1, <4>2
      <4> QED  BY <4>3, <4>4
    <3> QED  BY <3>0, <3>1, Within
  <2>8. loop \in [at : {"select", "order", "slot", "drain", "residue"}, wires : Seq(Reserved),
                  rx : Batch, to : BOOLEAN]
    BY <2>0, <2>3 DEF Typed, Place, Job, Batch
  <2>9. sender \in [phase : {"await", "gather", "flush"}, rx : Batch]
    BY <2>0, <2>3 DEF Typed, Worker, Job, Batch
  <2> QED  BY <2>0, <2>4, <2>5, <2>6, <2>7, <2>8, <2>9 DEF Typed, TypeOK
<1> QED  BY <1>1, Inductive, PTL
=============================================================================
