---------------------------- MODULE SystemProofs ----------------------------
(***************************************************************************)
(* Proofs about the life of a System, whatever blocks there are and        *)
(* whoever uses it, as long as no port is connected twice.  However often  *)
(* it was run, extended, or abandoned half-way, the two ports of a         *)
(* connection share a buffer when blocks are executed, and a run starts or *)
(* fails depending on the signals of the blocks alone.  In a system that   *)
(* is run once the samples are delivered without a race, and nothing ends  *)
(* the program if it is complete and has no circle.                        *)
(***************************************************************************)
EXTENDS System, LinearizationProofs

-----------------------------------------------------------------------------
(* Kinds of blocks, and the calls that connect them *)

OutOf(c) == <<c[1], c[2]>>
InOf(c) == <<c[3], c[4]>>
CallAt(b, i) == <<b, calls[b][i][1], calls[b][i][2], calls[b][i][3]>>

KindInv ==
    /\ kind \in [Block -> Kinds \cup {None}]
    /\ numIn \in [Block -> Nat] /\ numOut \in [Block -> Nat]
    /\ \A b \in Block : numIn[b] = kind[b].ins /\ numOut[b] = kind[b].outs

\* Calls connect ports there are, each to one other.
CallsInv ==
    /\ calls \in [Block -> Seq(Nat \X Block \X Nat)]
    /\ \A c \in Calls :
          /\ OutOf(c) \in Ports /\ c[2] <= numOut[c[1]]
          /\ InOf(c) \in Ports /\ c[4] <= numIn[c[3]]
    /\ \A c, d \in Calls : OutOf(c) = OutOf(d) \/ InOf(c) = InOf(d) => c = d
    /\ connections = {<<c[1], c[3]>> : c \in Calls}

\* The ports that have a buffer are those of the calls that have been carried out, and both
\* have the same.
BufInv ==
    /\ buffers \in Nat
    /\ inBuf \in [Ports -> 0..buffers] /\ outBuf \in [Ports -> 0..buffers]
    /\ sent \subseteq Ports
    /\ \A x \in Ports : outBuf[x] # 0 <=> x \in sent
    /\ \A x \in sent : \E c \in Calls : x = OutOf(c)
    /\ \A x \in Ports : inBuf[x] # 0 => \E c \in Calls : x = InOf(c)
    /\ \A c \in Calls : inBuf[InOf(c)] = outBuf[OutOf(c)]
    /\ \A x, y \in Ports : outBuf[x] # 0 /\ outBuf[x] = outBuf[y] => x = y

SetUp(x) == IsSet(outAttr[x]) /\ outAttr[x] = OutputAttr(kind[x[1]], inAttr[<<x[1], 1>>])

\* Where a call has been carried out, the attributes of its ports are the same, and no
\* later setup_output_ports changes them.
AttrInv ==
    /\ inAttr \in [Ports -> Attr] /\ outAttr \in [Ports -> Attr]
    /\ \A x \in sent : SetUp(x)
    /\ \A c \in Calls : OutOf(c) \in sent => inAttr[InOf(c)] = outAttr[OutOf(c)]

WiringInv == KindInv /\ CallsInv /\ BufInv /\ AttrInv

LEMMA PortBound ==
    /\ MaxPorts \in Nat
    /\ \A k \in Kinds : k \in Kind /\ k # None /\ k.ins <= MaxPorts /\ k.outs <= MaxPorts
<1>1. Kinds \subseteq Kind /\ \A k \in Kinds : k.ins + k.outs > 0
  BY PortsAssumption
<1>2. \A k \in Kinds : k.ins \in Nat /\ k.outs \in Nat
  BY <1>1 DEF Kind
<1>3. /\ MaxPorts \in UNION {{k.ins, k.outs} : k \in Kinds}
      /\ \A k \in Kinds : k.ins <= MaxPorts /\ k.outs <= MaxPorts
  BY PortsAssumption DEF MaxPorts
<1>4. MaxPorts \in Nat
  BY <1>2, <1>3
<1>5. \A k \in Kinds : k # None
  BY <1>1, <1>2 DEF None
<1> QED
  BY <1>1, <1>3, <1>4, <1>5

LEMMA BlockPorts ==
    ASSUME KindInv, NEW b \in Block
    PROVE  /\ numIn[b] \in 0..MaxPorts /\ numOut[b] \in 0..MaxPorts
           /\ kind[b] # None <=> kind[b] \in Kinds
           /\ kind[b] = None => numIn[b] = 0 /\ numOut[b] = 0
<1>1. kind[b] \in Kinds \cup {None} /\ numIn[b] = kind[b].ins /\ numOut[b] = kind[b].outs
  BY DEF KindInv
<1>2. None.ins = 0 /\ None.outs = 0
  BY DEF None
<1>3. \A k \in Kinds : k.ins \in Nat /\ k.outs \in Nat
  BY PortBound DEF Kind
<1> QED
  BY <1>1, <1>2, <1>3, PortBound

LEMMA CallFacts ==
    /\ \A c : c \in Calls <=> \E b \in Block : \E i \in DOMAIN calls[b] : c = CallAt(b, i)
    /\ \A c \in Calls : c = <<c[1], c[2], c[3], c[4]>>
BY DEF Calls, CallAt

LEMMA PortFacts ==
    ASSUME WiringInv, NEW c \in Calls
    PROVE  /\ c[1] \in Block /\ c[2] \in Nat /\ 1 <= c[2] /\ c[2] <= MaxPorts
           /\ c[3] \in Block /\ c[4] \in Nat /\ 1 <= c[4] /\ c[4] <= MaxPorts
           /\ c[2] <= numOut[c[1]] /\ c[4] <= numIn[c[3]]
           /\ numOut[c[1]] > 0 /\ numIn[c[3]] > 0
           /\ kind[c[1]] # None /\ kind[c[3]] # None
           /\ IsSource(c[1]) /\ <<c[1], 1>> \in Ports /\ <<c[3], 1>> \in Ports
<1>1. /\ <<c[1], c[2]>> \in Ports /\ c[2] <= numOut[c[1]]
      /\ <<c[3], c[4]>> \in Ports /\ c[4] <= numIn[c[3]]
  BY DEF WiringInv, CallsInv, OutOf, InOf
<1>2. c[1] \in Block /\ c[2] \in 1..MaxPorts /\ c[3] \in Block /\ c[4] \in 1..MaxPorts
  BY <1>1 DEF Ports
<1>3. numOut[c[1]] \in Nat /\ numIn[c[3]] \in Nat /\ MaxPorts \in Nat
  BY <1>2, PortBound DEF WiringInv, KindInv
<1>4. /\ c[2] \in Nat /\ 1 <= c[2] /\ c[2] <= MaxPorts
      /\ c[4] \in Nat /\ 1 <= c[4] /\ c[4] <= MaxPorts
      /\ numOut[c[1]] > 0 /\ numIn[c[3]] > 0 /\ 1 \in 1..MaxPorts
  BY <1>1, <1>2, <1>3
<1>5. kind[c[1]] # None /\ kind[c[3]] # None
  BY <1>2, <1>4, BlockPorts DEF WiringInv
<1> QED
  BY <1>1, <1>2, <1>4, <1>5 DEF IsSource, Ports

\* What linearize and the passes need to know of ports.
LEMMA WiringPorts == WiringInv => PortsInv
<1> SUFFICES ASSUME WiringInv PROVE PortsInv
  OBVIOUS
<1>1. connections = {<<c[1], c[3]>> : c \in Calls}
  BY DEF WiringInv, CallsInv
<1>2. ASSUME NEW c \in Calls, NEW d \in Calls
      PROVE  /\ numOut[c[1]] = 1 /\ d[1] = c[1] => d = c
             /\ numIn[c[3]] = 1 /\ d[3] = c[3] => d = c
  <2>3. /\ c[2] \in Nat /\ 1 <= c[2] /\ c[2] <= numOut[c[1]]
        /\ c[4] \in Nat /\ 1 <= c[4] /\ c[4] <= numIn[c[3]]
    BY PortFacts
  <2>4. /\ d[2] \in Nat /\ 1 <= d[2] /\ d[2] <= numOut[d[1]]
        /\ d[4] \in Nat /\ 1 <= d[4] /\ d[4] <= numIn[d[3]]
    BY PortFacts
  <2>1. numOut[c[1]] = 1 /\ d[1] = c[1] => OutOf(d) = OutOf(c)
    BY <2>3, <2>4 DEF OutOf
  <2>2. numIn[c[3]] = 1 /\ d[3] = c[3] => InOf(d) = InOf(c)
    BY <2>3, <2>4 DEF InOf
  <2> QED
    BY <2>1, <2>2 DEF WiringInv, CallsInv
<1>3. ASSUME NEW e \in connections
      PROVE  \E c \in Calls : e = <<c[1], c[3]>> /\ e[1] = c[1] /\ e[2] = c[3]
  BY <1>1
<1>4. ASSUME NEW e \in connections
      PROVE  e \in Block \X Block /\ IsSource(e[1])
  <2>1. PICK c \in Calls : e = <<c[1], c[3]>> /\ e[1] = c[1] /\ e[2] = c[3]
    BY <1>3
  <2>2. c[1] \in Block /\ c[3] \in Block /\ IsSource(c[1])
    BY PortFacts
  <2> QED
    BY <2>1, <2>2
<1>5. ASSUME NEW e \in connections, NEW f \in connections
      PROVE  /\ numOut[e[1]] = 1 /\ f[1] = e[1] => f = e
             /\ numIn[e[2]] = 1 /\ f[2] = e[2] => f = e
  <2>1. PICK c \in Calls : e = <<c[1], c[3]>> /\ e[1] = c[1] /\ e[2] = c[3]
    BY <1>3
  <2>2. PICK d \in Calls : f = <<d[1], d[3]>> /\ f[1] = d[1] /\ f[2] = d[3]
    BY <1>3
  <2> QED
    BY <1>2, <2>1, <2>2
<1> QED
  BY <1>4, <1>5 DEF PortsInv

-----------------------------------------------------------------------------
(* What the user and propagate_signal_attributes do to ports *)

LEMMA WiringSteady ==
    ASSUME WiringInv, UNCHANGED <<numIn, numOut, connections, portVars>>
    PROVE  WiringInv' /\ Calls' = Calls
<1>1. /\ numIn' = numIn /\ numOut' = numOut /\ connections' = connections /\ kind' = kind
      /\ calls' = calls /\ inAttr' = inAttr /\ outAttr' = outAttr /\ inBuf' = inBuf
      /\ outBuf' = outBuf /\ sent' = sent /\ buffers' = buffers
  BY DEF portVars
<1>2. Calls' = Calls
  BY <1>1 DEF Calls
<1>3. KindInv'
  BY <1>1 DEF WiringInv, KindInv
<1>4. CallsInv'
  BY <1>1, <1>2 DEF WiringInv, CallsInv
<1>5. BufInv'
  BY <1>1, <1>2 DEF WiringInv, BufInv
<1>6. AttrInv'
  BY <1>1, <1>2 DEF WiringInv, AttrInv, SetUp
<1> QED
  BY <1>2, <1>3, <1>4, <1>5, <1>6 DEF WiringInv

LEMMA OutputIsAttr ==
    ASSUME NEW k \in Kinds, NEW in \in Attr
    PROVE  OutputAttr(k, in) \in Attr /\ k.in \in Attr
BY PortBound DEF OutputAttr, Kind, Attr

LEMMA WiringAdd ==
    ASSUME WiringInv, NEW b \in Block, NEW k \in Kinds, AddBlockOfKind(b, k)
    PROVE  WiringInv' /\ Calls' = Calls
<1>1. /\ kind[b] = None
      /\ kind' = [kind EXCEPT ![b] = k]
      /\ numIn' = [numIn EXCEPT ![b] = k.ins]
      /\ numOut' = [numOut EXCEPT ![b] = k.outs]
      /\ inAttr' = [x \in Ports |-> IF x[1] = b /\ x[2] <= k.ins THEN k.in ELSE inAttr[x]]
      /\ outAttr' = [x \in Ports |->
                       IF x[1] = b /\ x[2] <= k.outs THEN OutputAttr(k, k.in) ELSE outAttr[x]]
      /\ connections' = connections /\ calls' = calls /\ inBuf' = inBuf /\ outBuf' = outBuf
      /\ sent' = sent /\ buffers' = buffers
  BY DEF AddBlockOfKind
<1>2. Calls' = Calls
  BY <1>1 DEF Calls
<1>3. k.ins \in Nat /\ k.outs \in Nat
  BY PortBound DEF Kind
<1>4. KindInv'
  BY <1>1, <1>3 DEF WiringInv, KindInv
<1>5. ASSUME NEW c \in Calls
      PROVE  /\ c[1] # b /\ c[3] # b
             /\ numOut'[c[1]] = numOut[c[1]] /\ numIn'[c[3]] = numIn[c[3]]
  <2>1. c[1] \in Block /\ c[3] \in Block /\ c[1] # b /\ c[3] # b
    BY <1>1, PortFacts
  <2> QED
    BY <1>1, <2>1 DEF WiringInv, KindInv
<1>6. CallsInv'
  BY <1>1, <1>2, <1>5 DEF WiringInv, CallsInv
<1>7. BufInv'
  BY <1>1, <1>2 DEF WiringInv, BufInv
<1>8. AttrInv'
  <2>1. inAttr' \in [Ports -> Attr] /\ outAttr' \in [Ports -> Attr]
    <3>1. OutputAttr(k, k.in) \in Attr /\ k.in \in Attr
      BY OutputIsAttr, PortBound DEF Kind
    <3> QED
      BY <1>1, <3>1 DEF WiringInv, AttrInv
  <2>2. ASSUME NEW x \in Ports, x[1] # b
        PROVE  inAttr'[x] = inAttr[x] /\ outAttr'[x] = outAttr[x]
    BY <1>1, <2>2
  <2>3. ASSUME NEW x \in sent
        PROVE  SetUp(x)'
    <3>1. SetUp(x)
      BY DEF WiringInv, AttrInv
    <3>2. PICK c \in Calls : x = OutOf(c)
      BY DEF WiringInv, BufInv
    <3>3. x[1] = c[1] /\ x[1] \in Block /\ x[1] # b /\ x \in Ports /\ <<x[1], 1>> \in Ports
      BY <1>5, <3>2, PortFacts DEF OutOf, WiringInv, BufInv
    <3>4. /\ outAttr'[x] = outAttr[x] /\ inAttr'[<<x[1], 1>>] = inAttr[<<x[1], 1>>]
          /\ kind'[x[1]] = kind[x[1]]
      BY <1>1, <2>2, <3>3 DEF WiringInv, KindInv
    <3> QED
      BY <3>1, <3>4 DEF SetUp
  <2>4. ASSUME NEW c \in Calls, OutOf(c) \in sent
        PROVE  inAttr'[InOf(c)] = outAttr'[OutOf(c)]
    <3>1. OutOf(c) \in Ports /\ InOf(c) \in Ports
      BY DEF WiringInv, CallsInv
    <3>2. OutOf(c)[1] # b /\ InOf(c)[1] # b
      BY <1>5 DEF OutOf, InOf
    <3> QED
      BY <2>2, <2>4, <3>1, <3>2 DEF WiringInv, AttrInv
  <2> QED
    BY <1>1, <1>2, <2>1, <2>3, <2>4 DEF AttrInv
<1> QED
  BY <1>2, <1>4, <1>6, <1>7, <1>8 DEF WiringInv

LEMMA CallsGrow ==
    ASSUME WiringInv, NEW b \in Block, NEW p \in Nat, NEW c \in Block, NEW q \in Nat,
           calls' = [calls EXCEPT ![b] = Append(@, <<p, c, q>>)]
    PROVE  Calls' = Calls \cup {<<b, p, c, q>>} /\ calls' \in [Block -> Seq(Nat \X Block \X Nat)]
<1>1. calls \in [Block -> Seq(Nat \X Block \X Nat)]
  BY DEF WiringInv, CallsInv
<1> DEFINE s == calls[b]
           t == Append(s, <<p, c, q>>)
<1>2. s \in Seq(Nat \X Block \X Nat) /\ <<p, c, q>> \in Nat \X Block \X Nat
  BY <1>1
<1>3. PICK n \in Nat : n = Len(s) /\ DOMAIN s = 1..n
  BY <1>2, LenProperties
<1>4. /\ t \in Seq(Nat \X Block \X Nat) /\ DOMAIN t = 1..(n + 1) /\ t[n + 1] = <<p, c, q>>
      /\ \A i \in 1..n : t[i] = s[i]
  BY <1>2, <1>3, AppendProperties, LenProperties
<1>5. calls' = [calls EXCEPT ![b] = t]
  OBVIOUS
<1>6. calls'[b] = t /\ \A d \in Block : d # b => calls'[d] = calls[d]
  BY <1>1, <1>5
<1> HIDE DEF s, t
<1>7. calls' \in [Block -> Seq(Nat \X Block \X Nat)]
  BY <1>1, <1>4, <1>5
<1>8. ASSUME NEW x
      PROVE  x \in Calls' <=> \E d \in Block : \E i \in DOMAIN calls'[d] :
                x = <<d, calls'[d][i][1], calls'[d][i][2], calls'[d][i][3]>>
  BY DEF Calls
<1>9. ASSUME NEW x \in Calls'
      PROVE  x \in Calls \cup {<<b, p, c, q>>}
  <2>5. PICK d \in Block : \E i \in DOMAIN calls'[d] :
           x = <<d, calls'[d][i][1], calls'[d][i][2], calls'[d][i][3]>>
    BY <1>8
  <2>1. PICK i \in DOMAIN calls'[d] : x = <<d, calls'[d][i][1], calls'[d][i][2], calls'[d][i][3]>>
    BY <2>5
  <2>2. CASE d = b /\ i = n + 1
    BY <1>4, <1>6, <2>1, <2>2
  <2>3. CASE d = b /\ i # n + 1
    <3>1. i \in 1..(n + 1)
      BY <1>4, <1>6, <2>1, <2>3
    <3>2. i \in 1..n
      BY <2>3, <3>1
    <3>3. calls'[d][i] = calls[b][i] /\ i \in DOMAIN calls[b]
      BY <1>3, <1>4, <1>6, <2>3, <3>2 DEF s
    <3>4. x = CallAt(b, i)
      BY <2>1, <2>3, <3>3 DEF CallAt
    <3> QED
      BY <3>3, <3>4, CallFacts
  <2>4. CASE d # b
    BY <1>6, <2>1, <2>4, CallFacts DEF CallAt
  <2> QED
    BY <2>2, <2>3, <2>4
<1>10. ASSUME NEW x \in Calls
       PROVE  x \in Calls'
  <2>4. PICK d \in Block : \E i \in DOMAIN calls[d] : x = CallAt(d, i)
    BY CallFacts
  <2>1. PICK i \in DOMAIN calls[d] : x = CallAt(d, i)
    BY <2>4
  <2>2. CASE d = b
    <3>1. i \in 1..n /\ i \in 1..(n + 1)
      BY <1>3, <2>2 DEF s
    <3> QED
      BY <1>4, <1>6, <1>8, <2>1, <2>2, <3>1 DEF CallAt, s
  <2>3. CASE d # b
    BY <1>6, <1>8, <2>1, <2>3 DEF CallAt
  <2> QED
    BY <2>2, <2>3
<1>11. <<b, p, c, q>> \in Calls'
  <2>1. n + 1 \in DOMAIN calls'[b] /\ calls'[b][n + 1] = <<p, c, q>>
    BY <1>4, <1>6
  <2>2. <<b, p, c, q>> = <<b, calls'[b][n + 1][1], calls'[b][n + 1][2], calls'[b][n + 1][3]>>
    BY <2>1
  <2> QED
    BY <1>8, <2>1, <2>2
<1> QED
  BY <1>7, <1>9, <1>10, <1>11

LEMMA WiringConnect ==
    ASSUME WiringInv, SharedPorts = FALSE, NEW b \in Block, NEW c \in Block,
           NEW p \in 1..MaxPorts, NEW q \in 1..MaxPorts, Connect(b, p, c, q)
    PROVE  WiringInv'
<1>1. /\ p \in 1..numOut[b] /\ q \in 1..numIn[c] /\ <<b, p>> \notin sent
      /\ \A d \in Calls : <<d[1], d[2]>> # <<b, p>> /\ <<d[3], d[4]>> # <<c, q>>
      /\ calls' = [calls EXCEPT ![b] = Append(@, <<p, c, q>>)]
      /\ connections' = connections \cup {<<b, c>>}
      /\ numIn' = numIn /\ numOut' = numOut /\ kind' = kind /\ inAttr' = inAttr
      /\ outAttr' = outAttr /\ inBuf' = inBuf /\ outBuf' = outBuf /\ sent' = sent
      /\ buffers' = buffers
  BY DEF Connect, ConnectPorts
<1>2. p \in Nat /\ q \in Nat
  BY PortBound
<1> DEFINE new == <<b, p, c, q>>
<1>3. Calls' = Calls \cup {new} /\ calls' \in [Block -> Seq(Nat \X Block \X Nat)]
  BY <1>1, <1>2, CallsGrow
<1>4. new[1] = b /\ new[2] = p /\ new[3] = c /\ new[4] = q
  OBVIOUS
<1>5. OutOf(new) = <<b, p>> /\ InOf(new) = <<c, q>>
  BY DEF OutOf, InOf
<1>6. /\ OutOf(new) \in Ports /\ new[2] <= numOut[new[1]]
      /\ InOf(new) \in Ports /\ new[4] <= numIn[new[3]]
  <2>1. numOut[b] \in Nat /\ numIn[c] \in Nat
    BY DEF WiringInv, KindInv
  <2> QED
    BY <1>1, <1>4, <1>5, <2>1 DEF Ports
<1>7. \A d \in Calls : OutOf(d) # OutOf(new) /\ InOf(d) # InOf(new)
  BY <1>1, <1>5 DEF OutOf, InOf
<1> HIDE DEF new
<1>8. KindInv'
  BY <1>1 DEF WiringInv, KindInv
<1>9. CallsInv'
  <2>1. connections' = {<<d[1], d[3]>> : d \in Calls'}
    BY <1>1, <1>3, <1>4 DEF WiringInv, CallsInv
  <2>2. \A d \in Calls' : /\ OutOf(d) \in Ports /\ d[2] <= numOut[d[1]]
                          /\ InOf(d) \in Ports /\ d[4] <= numIn[d[3]]
    BY <1>3, <1>6 DEF WiringInv, CallsInv
  <2>3. \A d, e \in Calls' : OutOf(d) = OutOf(e) \/ InOf(d) = InOf(e) => d = e
    BY <1>3, <1>7 DEF WiringInv, CallsInv
  <2> QED
    BY <1>1, <1>3, <2>1, <2>2, <2>3 DEF CallsInv
<1>10. BufInv'
  <2>1. outBuf[OutOf(new)] = 0
    BY <1>1, <1>5, <1>6 DEF WiringInv, BufInv
  <2>2. inBuf[InOf(new)] = 0
    BY <1>6, <1>7 DEF WiringInv, BufInv
  <2>3. \A d \in Calls' : inBuf[InOf(d)] = outBuf[OutOf(d)]
    BY <1>3, <2>1, <2>2 DEF WiringInv, BufInv
  <2>4. /\ \A x \in sent : \E d \in Calls' : x = OutOf(d)
        /\ \A x \in Ports : inBuf[x] # 0 => \E d \in Calls' : x = InOf(d)
    BY <1>3 DEF WiringInv, BufInv
  <2> QED
    BY <1>1, <2>3, <2>4 DEF WiringInv, BufInv
<1>11. AttrInv'
  <2>1. \A d \in Calls' : OutOf(d) \in sent => inAttr[InOf(d)] = outAttr[OutOf(d)]
    BY <1>1, <1>3, <1>5 DEF WiringInv, AttrInv
  <2>2. \A x \in sent : SetUp(x)'
    BY <1>1 DEF WiringInv, AttrInv, SetUp
  <2> QED
    BY <1>1, <2>1, <2>2 DEF WiringInv, AttrInv
<1> QED
  BY <1>8, <1>9, <1>10, <1>11 DEF WiringInv

LEMMA SettledOutput ==
    ASSUME NEW k, NEW in \in Attr, NEW more \in Attr, k.out \in Attr, IsSet(OutputAttr(k, in)),
           \A a \in Aspect : in[a] # Unset => more[a] = in[a]
    PROVE  OutputAttr(k, more) = OutputAttr(k, in)
BY DEF OutputAttr, IsSet

LEMMA KindOut ==
    ASSUME KindInv, NEW b \in Block
    PROVE  kind[b].out \in Attr /\ kind[b].in \in Attr
<1>1. None.out \in Attr /\ None.in \in Attr
  BY DEF None, Attr
<1>2. kind[b] \in Kinds \cup {None}
  BY DEF KindInv
<1> QED
  BY <1>1, <1>2, PortBound DEF Kind

\* setup_output_ports gives the ports what they had if it set them up before.
LEMMA WiringSetup ==
    ASSUME WiringInv, NEW b \in Block, IsSet(OutputAttr(kind[b], inAttr[<<b, 1>>])),
           numOut[b] > 0, outAttr' = SetupOutputPorts(b),
           UNCHANGED <<numIn, numOut, connections, kind, calls, inAttr, inBuf, outBuf, sent,
                       buffers>>
    PROVE  /\ WiringInv'
           /\ \A p \in 1..numOut[b] : SetUp(<<b, p>>)'
<1>1. /\ numIn' = numIn /\ numOut' = numOut /\ connections' = connections /\ kind' = kind
      /\ calls' = calls /\ inAttr' = inAttr /\ inBuf' = inBuf
      /\ outBuf' = outBuf /\ sent' = sent /\ buffers' = buffers
  OBVIOUS
<1> DEFINE o == OutputAttr(kind[b], inAttr[<<b, 1>>])
<1>2. outAttr' = [x \in Ports |-> IF x[1] = b /\ x[2] <= numOut[b] THEN o ELSE outAttr[x]]
  BY DEF SetupOutputPorts
<1>3. Calls' = Calls
  BY <1>1 DEF Calls
<1>4. numOut[b] \in 0..MaxPorts /\ MaxPorts \in Nat
  BY BlockPorts, PortBound DEF WiringInv
<1>5. <<b, 1>> \in Ports /\ \A p \in 1..numOut[b] : <<b, p>> \in Ports
  BY <1>4 DEF Ports
<1>6. o \in Attr
  <2>1. inAttr[<<b, 1>>] \in Attr
    BY <1>5 DEF WiringInv, AttrInv
  <2>2. kind[b].out \in Attr
    BY KindOut DEF WiringInv
  <2> QED
    BY <2>1, <2>2 DEF OutputAttr, Attr
<1>7. ASSUME NEW x \in sent
      PROVE  outAttr'[x] = outAttr[x]
  <2>1. x \in Ports /\ SetUp(x)
    BY DEF WiringInv, BufInv, AttrInv
  <2> QED
    BY <1>2, <2>1 DEF SetUp
<1> HIDE DEF o
<1>8. KindInv'
  BY <1>1 DEF WiringInv, KindInv
<1>9. CallsInv'
  BY <1>1, <1>3 DEF WiringInv, CallsInv
<1>10. BufInv'
  BY <1>1, <1>3 DEF WiringInv, BufInv
<1>11. AttrInv'
  <2>1. outAttr' \in [Ports -> Attr]
    BY <1>2, <1>6 DEF WiringInv, AttrInv
  <2>2. \A x \in sent : SetUp(x)'
    BY <1>1, <1>7 DEF WiringInv, AttrInv, SetUp
  <2>3. \A c \in Calls : OutOf(c) \in sent => inAttr[InOf(c)] = outAttr'[OutOf(c)]
    BY <1>7 DEF WiringInv, AttrInv
  <2> QED
    BY <1>1, <1>3, <2>1, <2>2, <2>3 DEF WiringInv, AttrInv
<1>12. ASSUME NEW p \in 1..numOut[b]
       PROVE  SetUp(<<b, p>>)'
  <2>1. outAttr'[<<b, p>>] = o
    <3>1. <<b, p>>[1] = b /\ <<b, p>>[2] = p /\ p <= numOut[b]
      OBVIOUS
    <3> QED
      BY <1>2, <1>5, <3>1
  <2> QED
    BY <1>1, <2>1 DEF SetUp, o
<1> QED
  BY <1>8, <1>9, <1>10, <1>11, <1>12 DEF WiringInv

\* OutPort::connect keeps what an input port has received, and so what was set up from it.
LEMMA ReceivedKeeps ==
    ASSUME NEW out \in Attr, NEW in \in Attr
    PROVE  /\ Received(out, in) \in Attr
           /\ \A a \in Aspect : in[a] # Unset => Received(out, in)[a] = in[a]
           /\ Mismatch(out, in) => Received(out, in) = in
           /\ ~Mismatch(out, in) => Received(out, in) = out
BY DEF Received, Mismatch

LEMMA WiringMake ==
    ASSUME WiringInv, MakeConnection, BlockOf(stages[curr]) \in Block,
           \A p \in 1..numOut[BlockOf(stages[curr])] : SetUp(<<BlockOf(stages[curr]), p>>)
    PROVE  /\ WiringInv' /\ Calls' = Calls
           /\ sent \subseteq sent'
           /\ \A x \in Ports : SetUp(x) => SetUp(x)'
           /\ pc' # "idle" =>
                <<BlockOf(stages[curr]), calls[BlockOf(stages[curr])][next][1]>> \in sent'
<1> DEFINE b == BlockOf(stages[curr])
           call == calls[b][next]
           c == CallAt(b, next)
           out == <<b, call[1]>>
           in == <<call[2], call[3]>>
<1>1. /\ next \in DOMAIN calls[b]
      /\ inAttr' = [inAttr EXCEPT ![in] = Received(outAttr[out], @)]
      /\ IF Mismatch(outAttr[out], inAttr[in])
         THEN pc' = "idle" /\ UNCHANGED <<next, sent, buffers, inBuf, outBuf>>
         ELSE /\ sent' = sent \cup {out}
              /\ buffers' = buffers + 1
              /\ outBuf' = [outBuf EXCEPT ![out] = buffers + 1]
              /\ inBuf' = [inBuf EXCEPT ![in] = buffers + 1]
      /\ numIn' = numIn /\ numOut' = numOut /\ connections' = connections
      /\ kind' = kind /\ calls' = calls /\ outAttr' = outAttr
  BY DEF MakeConnection, NewBuffer, matrixVars
<1>2. (pc' = pc /\ pc = "propagate") \/ pc' = "idle"
  BY DEF MakeConnection
<1>3. c \in Calls /\ OutOf(c) = out /\ InOf(c) = in
  BY <1>1, CallFacts DEF CallAt, OutOf, InOf
<1>4. /\ out \in Ports /\ in \in Ports /\ c[1] = b /\ c[2] = call[1]
      /\ call[1] \in 1..numOut[b]
  <2>1. c[2] \in Nat /\ 1 <= c[2] /\ c[2] <= numOut[c[1]] /\ c[1] = b /\ c[2] = call[1]
    BY <1>3, PortFacts DEF CallAt
  <2>2. numOut[b] \in Nat
    BY DEF WiringInv, KindInv
  <2>3. OutOf(c) \in Ports /\ InOf(c) \in Ports
    BY <1>3 DEF WiringInv, CallsInv
  <2>4. c[2] \in 1..numOut[b]
    BY <2>1, <2>2
  <2> HIDE DEF c, call, out, in
  <2> QED
    BY <1>3, <2>1, <2>3, <2>4
<1>5. SetUp(out)
  BY <1>4
<1> HIDE DEF b, call, c, out, in
<1>6. Calls' = Calls
  BY <1>1 DEF Calls
<1> DEFINE new == Received(outAttr[out], inAttr[in])
<1>7. /\ outAttr[out] \in Attr /\ inAttr[in] \in Attr /\ new \in Attr
      /\ \A a \in Aspect : inAttr[in][a] # Unset => new[a] = inAttr[in][a]
      /\ Mismatch(outAttr[out], inAttr[in]) => new = inAttr[in]
      /\ ~Mismatch(outAttr[out], inAttr[in]) => new = outAttr[out]
  BY <1>4, ReceivedKeeps DEF WiringInv, AttrInv
<1> HIDE DEF new
<1>8. /\ inAttr' \in [Ports -> Attr] /\ inAttr'[in] = new
      /\ \A x \in Ports : x # in => inAttr'[x] = inAttr[x]
  BY <1>1, <1>4, <1>7 DEF WiringInv, AttrInv, new
<1>9. ASSUME NEW x \in Ports, SetUp(x)
      PROVE  SetUp(x)'
  <2>1. x[1] \in Block /\ <<x[1], 1>> \in Ports
    BY PortBound DEF Ports
  <2>2. /\ inAttr[<<x[1], 1>>] \in Attr /\ inAttr'[<<x[1], 1>>] \in Attr
        /\ \A a \in Aspect : inAttr[<<x[1], 1>>][a] # Unset =>
              inAttr'[<<x[1], 1>>][a] = inAttr[<<x[1], 1>>][a]
    BY <1>7, <1>8, <2>1 DEF WiringInv, AttrInv
  <2>3. kind[x[1]].out \in Attr
    BY <2>1, KindOut DEF WiringInv
  <2>4. OutputAttr(kind[x[1]], inAttr'[<<x[1], 1>>]) = OutputAttr(kind[x[1]], inAttr[<<x[1], 1>>])
    BY <1>9, <2>2, <2>3, SettledOutput DEF SetUp
  <2> QED
    BY <1>1, <1>9, <2>4 DEF SetUp
<1>10. KindInv'
  BY <1>1 DEF WiringInv, KindInv
<1>11. CallsInv'
  BY <1>1, <1>6 DEF WiringInv, CallsInv
<1>12. CASE Mismatch(outAttr[out], inAttr[in])
  <2>1. /\ sent' = sent /\ buffers' = buffers /\ inBuf' = inBuf /\ outBuf' = outBuf
        /\ pc' = "idle"
    BY <1>1, <1>12
  <2>2. \A x \in Ports : inAttr'[x] = inAttr[x]
    BY <1>7, <1>8, <1>12
  <2>3. BufInv'
    BY <1>6, <2>1 DEF WiringInv, BufInv
  <2>4. AttrInv'
    <3>1. \A x \in sent : SetUp(x)'
      BY <1>9 DEF WiringInv, AttrInv, BufInv
    <3>2. \A d \in Calls : OutOf(d) \in sent => inAttr'[InOf(d)] = outAttr[OutOf(d)]
      BY <2>2 DEF WiringInv, AttrInv, CallsInv
    <3> QED
      BY <1>1, <1>6, <1>8, <2>1, <3>1, <3>2 DEF WiringInv, AttrInv
  <2> QED
    BY <1>6, <1>9, <1>10, <1>11, <2>1, <2>3, <2>4 DEF WiringInv
<1>13. CASE ~Mismatch(outAttr[out], inAttr[in])
  <2>1. /\ sent' = sent \cup {out} /\ buffers' = buffers + 1
        /\ outBuf' = [outBuf EXCEPT ![out] = buffers + 1]
        /\ inBuf' = [inBuf EXCEPT ![in] = buffers + 1]
    BY <1>1, <1>13
  <2>2. /\ buffers \in Nat /\ inBuf \in [Ports -> 0..buffers] /\ outBuf \in [Ports -> 0..buffers]
        /\ sent \subseteq Ports
    BY DEF WiringInv, BufInv
  <2>3. /\ \A x \in Ports : outBuf'[x] = IF x = out THEN buffers + 1 ELSE outBuf[x]
        /\ \A x \in Ports : inBuf'[x] = IF x = in THEN buffers + 1 ELSE inBuf[x]
    BY <2>1, <2>2
  <2>4. \A x \in Ports : outBuf[x] # buffers + 1 /\ inBuf[x] # buffers + 1
    BY <2>2
  <2>5. /\ inBuf' \in [Ports -> 0..buffers'] /\ outBuf' \in [Ports -> 0..buffers']
        /\ buffers' \in Nat
        /\ buffers + 1 # 0
    <3>1. /\ buffers' \in Nat /\ buffers + 1 # 0 /\ buffers + 1 \in 0..buffers'
          /\ 0..buffers \subseteq 0..buffers'
      BY <2>1, <2>2
    <3>2. inBuf \in [Ports -> 0..buffers'] /\ outBuf \in [Ports -> 0..buffers']
      BY <2>2, <3>1
    <3> QED
      BY <2>1, <3>1, <3>2
  <2>6. \A d \in Calls : /\ OutOf(d) \in Ports /\ InOf(d) \in Ports
                         /\ OutOf(d) = out \/ InOf(d) = in => d = c
    BY <1>3 DEF WiringInv, CallsInv
  <2>7. BufInv'
    <3>1. \A x \in Ports : outBuf'[x] # 0 <=> x \in sent'
      BY <2>1, <2>3, <2>5 DEF WiringInv, BufInv
    <3>2. \A x \in sent' : \E d \in Calls : x = OutOf(d)
      BY <1>3, <2>1 DEF WiringInv, BufInv
    <3>3. \A x \in Ports : inBuf'[x] # 0 => \E d \in Calls : x = InOf(d)
      BY <1>3, <2>3 DEF WiringInv, BufInv
    <3>4. \A d \in Calls : inBuf'[InOf(d)] = outBuf'[OutOf(d)]
      BY <1>3, <2>3, <2>6 DEF WiringInv, BufInv
    <3>5. \A x, y \in Ports : outBuf'[x] # 0 /\ outBuf'[x] = outBuf'[y] => x = y
      BY <2>3, <2>4 DEF WiringInv, BufInv
    <3>6. sent' \subseteq Ports
      BY <1>4, <2>1, <2>2
    <3> QED
      BY <1>6, <2>5, <3>1, <3>2, <3>3, <3>4, <3>5, <3>6 DEF BufInv
  <2>8. AttrInv'
    <3>1. \A x \in sent' : SetUp(x)'
      BY <1>4, <1>5, <1>9, <2>1, <2>2 DEF WiringInv, AttrInv
    <3>2. ASSUME NEW d \in Calls, OutOf(d) \in sent'
          PROVE  inAttr'[InOf(d)] = outAttr[OutOf(d)]
      <4>1. CASE d = c
        BY <1>3, <1>7, <1>8, <1>13, <4>1
      <4>2. CASE d # c
        BY <1>8, <2>1, <2>6, <3>2, <4>2 DEF WiringInv, AttrInv
      <4> QED
        BY <4>1, <4>2
    <3> QED
      BY <1>1, <1>6, <1>8, <3>1, <3>2 DEF WiringInv, AttrInv
  <2>9. <<b, call[1]>> \in sent'
    BY <2>1 DEF out
  <2> QED
    BY <1>6, <1>9, <1>10, <1>11, <2>1, <2>7, <2>8, <2>9 DEF WiringInv, b, call
<1> QED
  BY <1>12, <1>13

-----------------------------------------------------------------------------
(* Blocks in the matrix *)

LEMMA PlacedIs ==
    ASSUME stages \in Matrix
    PROVE  \A b : IsPlaced(b) <=> Has(stages, b)
<1>1. ASSUME NEW b, IsPlaced(b)
      PROVE  Has(stages, b)
  <2>1. PICK i \in DOMAIN stages : \E p \in DOMAIN stages[i] : \E k \in DOMAIN stages[i][p] :
           b = stages[i][p][k]
    BY <1>1 DEF IsPlaced, BlocksOf, ToSet
  <2>2. PICK p \in DOMAIN stages[i] : \E k \in DOMAIN stages[i][p] : b = stages[i][p][k]
    BY <2>1
  <2>3. PICK k \in DOMAIN stages[i][p] : b = stages[i][p][k]
    BY <2>2
  <2>4. <<i, p, k>> \in PlacesIn(stages) /\ BlockAt(stages, <<i, p, k>>) = b
    BY <2>3, PlaceFacts
  <2> QED
    BY <2>4 DEF Has
<1>2. ASSUME NEW b, Has(stages, b)
      PROVE  IsPlaced(b)
  <2>1. PICK x \in PlacesIn(stages) : BlockAt(stages, x) = b
    BY <1>2 DEF Has
  <2>2. /\ x[1] \in DOMAIN stages /\ x[2] \in DOMAIN stages[x[1]]
        /\ x[3] \in DOMAIN stages[x[1]][x[2]] /\ b = stages[x[1]][x[2]][x[3]]
    BY <2>1, PlaceFacts DEF BlockAt
  <2> QED
    BY <2>2 DEF IsPlaced, BlocksOf, ToSet
<1> QED
  BY <1>1, <1>2

LEMMA HeadIs ==
    ASSUME NEW s \in Matrix, NEW i \in DOMAIN s
    PROVE  /\ BlockOf(s[i]) = s[i][1][1] /\ s[i][1][1] \in Block
           /\ <<i, 1, 1>> \in PlacesIn(s) /\ BlockAt(s, <<i, 1, 1>>) = BlockOf(s[i])
           /\ Has(s, BlockOf(s[i]))
<1>1. Head(s[i]) = s[i][1] /\ 1 \in DOMAIN s[i]
  BY MatrixFacts
<1>2. Head(s[i][1]) = s[i][1][1] /\ 1 \in DOMAIN s[i][1] /\ s[i][1][1] \in Block
  BY <1>1, MatrixFacts
<1>3. <<i, 1, 1>> \in PlacesIn(s) /\ BlockAt(s, <<i, 1, 1>>) = s[i][1][1]
  BY <1>1, <1>2, PlaceFacts
<1> QED
  BY <1>1, <1>2, <1>3 DEF BlockOf, Has

Added(b) == kind[b] # None

\* All output ports of a block have a buffer.
Full(b) == \A p \in 1..numOut[b] : <<b, p>> \in sent

\* All calls of a block have been carried out; the first of them have.
CarriedOut(b) == \A i \in DOMAIN calls[b] : <<b, calls[b][i][1]>> \in sent
CarriedOutBefore(b, n) == \A i \in DOMAIN calls[b] : i < n => <<b, calls[b][i][1]>> \in sent

\* Blocks that propagate_signal_attributes does not come to have their buffers from an
\* earlier run.
InnerFull(s) == \A x \in PlacesIn(s) : x[2] # 1 \/ x[3] # 1 => Full(BlockAt(s, x))

\* Matrix t is s with a stage for b at n.
Extends(t, s, n, b) ==
    /\ t \in Matrix /\ Len(t) = Len(s) + 1
    /\ n \in 1..(Len(s) + 1) /\ t[n] = NewStage(b)
    /\ \A i \in 1..(Len(s) + 1) : i # n => t[i] = IF i < n THEN s[i] ELSE s[i - 1]

LEMMA StageOfOne ==
    ASSUME NEW b \in Block
    PROVE  /\ NewStage(b) \in Stage
           /\ DOMAIN NewStage(b) = {1} /\ DOMAIN NewStage(b)[1] = {1} /\ NewStage(b)[1][1] = b
BY DEF NewStage, Stage, Path

LEMMA ExtendedPlaces ==
    ASSUME NEW s \in Matrix, NEW t, NEW n, NEW b \in Block, Extends(t, s, n, b)
    PROVE  /\ \A c : Has(t, c) <=> Has(s, c) \/ c = b
           /\ InnerFull(s) => InnerFull(t)
<1>1. PICK m \in Nat : Len(s) = m /\ DOMAIN s = 1..m /\ DOMAIN t = 1..(m + 1) /\ n \in 1..(m + 1)
  BY LenProperties DEF Extends, Matrix
<1>2. ASSUME NEW x \in PlacesIn(t)
      PROVE  \/ x[2] = 1 /\ x[3] = 1 /\ BlockAt(t, x) = b
             \/ \E y \in PlacesIn(s) : BlockAt(t, x) = BlockAt(s, y) /\ y[2] = x[2] /\ y[3] = x[3]
  <2>1. x[1] \in 1..(m + 1) /\ x[2] \in DOMAIN t[x[1]] /\ x[3] \in DOMAIN t[x[1]][x[2]]
    BY <1>1, PlaceFacts
  <2>2. CASE x[1] = n
    BY <2>1, <2>2, StageOfOne DEF Extends, BlockAt
  <2>3. CASE x[1] < n
    <3>1. x[1] \in DOMAIN s /\ t[x[1]] = s[x[1]]
      BY <1>1, <2>1, <2>3 DEF Extends
    <3>2. <<x[1], x[2], x[3]>> \in PlacesIn(s)
      BY <2>1, <3>1, PlaceFacts
    <3> QED
      BY <3>1, <3>2 DEF BlockAt
  <2>4. CASE x[1] > n
    <3>1. x[1] - 1 \in DOMAIN s /\ t[x[1]] = s[x[1] - 1]
      BY <1>1, <2>1, <2>4 DEF Extends
    <3>2. <<x[1] - 1, x[2], x[3]>> \in PlacesIn(s)
      BY <2>1, <3>1, PlaceFacts
    <3> QED
      BY <3>1, <3>2 DEF BlockAt
  <2> QED
    BY <1>1, <2>1, <2>2, <2>3, <2>4
<1>3. ASSUME NEW y \in PlacesIn(s)
      PROVE  \E x \in PlacesIn(t) : BlockAt(t, x) = BlockAt(s, y)
  <2>1. y[1] \in 1..m /\ y[2] \in DOMAIN s[y[1]] /\ y[3] \in DOMAIN s[y[1]][y[2]]
    BY <1>1, PlaceFacts
  <2>2. CASE y[1] < n
    <3>1. y[1] \in DOMAIN t /\ t[y[1]] = s[y[1]]
      BY <1>1, <2>1, <2>2 DEF Extends
    <3>2. <<y[1], y[2], y[3]>> \in PlacesIn(t)
      BY <2>1, <3>1, PlaceFacts
    <3> QED
      BY <3>1, <3>2 DEF BlockAt
  <2>3. CASE y[1] >= n
    <3>1. y[1] + 1 \in DOMAIN t /\ t[y[1] + 1] = s[y[1]]
      <4>1. PICK i \in 1..(m + 1) : i = y[1] + 1 /\ i # n /\ ~(i < n) /\ i - 1 = y[1]
        BY <1>1, <2>1, <2>3
      <4>2. t[i] = s[i - 1]
        BY <1>1, <4>1 DEF Extends
      <4> QED
        BY <1>1, <4>1, <4>2
    <3>2. <<y[1] + 1, y[2], y[3]>> \in PlacesIn(t)
      BY <2>1, <3>1, PlaceFacts
    <3> QED
      BY <3>1, <3>2 DEF BlockAt
  <2> QED
    BY <1>1, <2>1, <2>2, <2>3
<1>4. Has(t, b)
  <2>1. n \in DOMAIN t /\ 1 \in DOMAIN t[n] /\ 1 \in DOMAIN t[n][1] /\ t[n][1][1] = b
    BY <1>1, StageOfOne DEF Extends
  <2>2. <<n, 1, 1>> \in PlacesIn(t) /\ BlockAt(t, <<n, 1, 1>>) = b
    BY <2>1, PlaceFacts
  <2> QED
    BY <2>2 DEF Has
<1>5. ASSUME NEW c
      PROVE  Has(t, c) <=> Has(s, c) \/ c = b
  BY <1>2, <1>3, <1>4 DEF Has
<1>6. InnerFull(s) => InnerFull(t)
  BY <1>2 DEF InnerFull
<1> QED
  BY <1>5, <1>6

\* Both forms of add_block extend the matrix, if they do anything.
LEMMA AddExtends ==
    ASSUME stages \in Matrix, NEW b \in Block, IsSource(b), AddBlock(b)
    PROVE  Extends(stages', stages, 1, b)
<1> DEFINE e == NewStage(b)
<1>1. e \in Stage /\ <<e>> \in Seq(Stage) /\ Len(<<e>>) = 1 /\ <<e>>[1] = e
  BY StageOfOne
<1>2. stages' = <<e>> \o stages
  BY DEF AddBlock
<1>3. stages \in Seq(Stage) /\ Len(stages) \in Nat
  BY LenProperties DEF Matrix
<1> HIDE DEF e
<1>4. /\ stages' \in Seq(Stage) /\ Len(stages') = Len(stages) + 1
      /\ \A i \in 1..(Len(stages) + 1) : stages'[i] = IF i <= 1 THEN <<e>>[i] ELSE stages[i - 1]
  BY <1>1, <1>2, <1>3, ConcatProperties
<1> QED
  BY <1>1, <1>3, <1>4 DEF Extends, Matrix, e

LEMMA PlaceExtends ==
    ASSUME stages \in Matrix, NEW b \in Block, NEW after, PlaceBlock(b, after)
    PROVE  stages' = stages \/ \E n : Extends(stages', stages, n, b)
<1> DEFINE at == {i \in DOMAIN stages : after \in BlocksOf(stages[i])}
<1>1. CASE at = {}
  BY <1>1 DEF PlaceBlock
<1>2. CASE at # {}
  <2>1. PICK i \in DOMAIN stages : stages' = InsertAt(stages, i + 1, NewStage(b))
    BY <1>2 DEF PlaceBlock
  <2>2. stages \in Seq(Stage) /\ Len(stages) \in Nat /\ i + 1 \in 1..(Len(stages) + 1)
    BY LenProperties DEF Matrix
  <2>3. NewStage(b) \in Stage
    BY StageOfOne
  <2> DEFINE n == i + 1
           t == InsertAt(stages, n, NewStage(b))
  <2> HIDE DEF at, n
  <2>4. /\ t \in Seq(Stage) /\ Len(t) = Len(stages) + 1
        /\ \A j \in 1..(Len(stages) + 1) : t[j] =
              IF j < n THEN stages[j] ELSE IF j = n THEN NewStage(b) ELSE stages[j - 1]
    <3>1. stages \in Seq(Stage) /\ n \in 1..(Len(stages) + 1) /\ NewStage(b) \in Stage
      BY <2>2, <2>3 DEF n
    <3> QED
      BY ONLY <3>1, Inserted
  <2>8. stages' = t /\ n \in 1..(Len(stages) + 1)
    BY <2>1, <2>2 DEF n
  <2> HIDE DEF t
  <2>5. t[n] = NewStage(b)
    BY <2>2, <2>4, <2>8 DEF n
  <2>6. \A j \in 1..(Len(stages) + 1) : j # n =>
           t[j] = IF j < n THEN stages[j] ELSE stages[j - 1]
    BY <2>4
  <2>7. Extends(stages', stages, n, b)
    BY <2>2, <2>4, <2>5, <2>6, <2>8 DEF Extends, Matrix
  <2> QED
    BY <2>7
<1> QED
  BY <1>1, <1>2

\* What is left when a stage goes, and the one it goes to has only blocks there are.
LEMMA GonePlaces ==
    ASSUME NEW s \in Matrix, NEW c \in 1..Len(s), NEW n \in 1..Len(s), c < n, NEW st \in Stage,
           \A p \in DOMAIN st : \A k \in DOMAIN st[p] : Has(s, st[p][k])
    PROVE  /\ Gone(s, c, n, st) \in Matrix
           /\ \A b : Has(Gone(s, c, n, st), b) => Has(s, b)
<1> DEFINE t == Gone(s, c, n, st)
<1>1. IsGone(t, s, c, n, st)
  BY GoneFacts
<1> HIDE DEF t
<1>2. PICK m \in Nat : Len(s) = m /\ DOMAIN s = 1..m /\ DOMAIN t = 1..(m - 1) /\ t \in Matrix
  BY <1>1, LenProperties DEF IsGone, Matrix
<1>3. ASSUME NEW x \in PlacesIn(t)
      PROVE  Has(s, BlockAt(t, x))
  <2>1. x[1] \in 1..(m - 1) /\ x[2] \in DOMAIN t[x[1]] /\ x[3] \in DOMAIN t[x[1]][x[2]]
    BY <1>2, PlaceFacts
  <2>2. CASE x[1] = c
    BY <1>1, <2>1, <2>2 DEF IsGone, BlockAt
  <2>3. CASE x[1] # c
    <3>1. PICK i \in DOMAIN s : t[x[1]] = s[i]
      <4>1. x[1] \in 1..m /\ x[1] + 1 \in 1..m
        BY <2>1
      <4> QED
        BY <1>1, <1>2, <2>1, <2>3, <4>1 DEF IsGone
    <3>2. <<i, x[2], x[3]>> \in PlacesIn(s) /\ BlockAt(s, <<i, x[2], x[3]>>) = BlockAt(t, x)
      BY <2>1, <3>1, PlaceFacts DEF BlockAt
    <3> QED
      BY <3>2 DEF Has
  <2> QED
    BY <2>2, <2>3
<1> QED
  BY <1>2, <1>3 DEF Has, t

-----------------------------------------------------------------------------
(* How far a run has come *)

\* What is in the matrix has been added, and every Source gets there.
PlacedAt(s, f, todo, at) ==
    /\ s \in Matrix
    /\ \A b : Has(s, b) => b \in Block /\ Added(b)
    /\ f \in Seq(Frame)
    /\ \A j \in DOMAIN f : \A b \in f[j].left : Added(b)
    /\ at = "linearize" => f # <<>>
    /\ at \in {"start", "linearize"} =>
          /\ todo \subseteq StartBlocks
          /\ \A b \in StartBlocks : b \in todo \/ Has(s, b)
    /\ at = "propagate" => \A b \in StartBlocks : Has(s, b)

\* The calls of the blocks in front of stage c have been carried out, and the first n - 1 of
\* the block in it.
CarriedTo(s, c, n) ==
    /\ c \in Nat /\ c >= 1 /\ n \in Nat
    /\ \A j \in DOMAIN s : j < c => CarriedOut(BlockOf(s[j]))
    /\ n > 0 /\ c \in DOMAIN s =>
          /\ \A p \in 1..numOut[BlockOf(s[c])] : SetUp(<<BlockOf(s[c]), p>>)
          /\ CarriedOutBefore(BlockOf(s[c]), n)

SettledAt(s, at, c, n) ==
    /\ at \in {"idle", "start", "linearize", "propagate"} => InnerFull(s)
    /\ at = "propagate" => CarriedTo(s, c, n)
    /\ at \in {"combine", "parallelize", "ready", "running"} => \A d \in Calls : OutOf(d) \in sent
    /\ at \in {"combine", "parallelize"} => c \in Nat /\ c >= 1 /\ n \in Nat /\ c <= n
    /\ at = "running" => \A b : Has(s, b) => Full(b)

PlacedInv == PlacedAt(stages, frames, starts, pc)
SettledInv == SettledAt(stages, pc, curr, next)

SysInv == WiringInv /\ PlacedInv /\ SettledInv

\* A step that leaves the ports alone.
LEMMA SteadyStep ==
    ASSUME WiringInv, UNCHANGED <<numIn, numOut, connections, portVars>>,
           PlacedAt(stages', frames', starts', pc'), SettledAt(stages', pc', curr', next')
    PROVE  SysInv'
<1>1. WiringInv' /\ Calls' = Calls
  BY WiringSteady
<1>2. /\ numIn' = numIn /\ numOut' = numOut /\ kind' = kind /\ calls' = calls /\ sent' = sent
      /\ inAttr' = inAttr /\ outAttr' = outAttr
  BY DEF portVars
<1>3. PlacedInv'
  BY <1>2 DEF PlacedInv, PlacedAt, Added, StartBlocks, IsSource
<1>4. InnerFull(stages') => InnerFull(stages)'
  BY <1>2 DEF InnerFull, Full
<1>5. CarriedTo(stages', curr', next') => CarriedTo(stages, curr, next)'
  BY <1>2 DEF CarriedTo, CarriedOut, CarriedOutBefore, SetUp
<1>6. SettledInv'
  BY <1>1, <1>2, <1>4, <1>5 DEF SettledInv, SettledAt, Full
<1> QED
  BY <1>1, <1>3, <1>6 DEF SysInv

-----------------------------------------------------------------------------
(* linearize *)

LEMMA RunStep ==
    ASSUME SysInv, Run
    PROVE  SysInv'
<1>1. /\ pc = "idle" /\ pc' = "start" /\ starts' = StartBlocks /\ stages' = stages
      /\ frames' = frames /\ curr' = curr /\ next' = next
      /\ UNCHANGED <<numIn, numOut, connections, portVars>>
  BY DEF Run, matrixVars
<1>2. PlacedAt(stages', frames', starts', pc')
  BY <1>1 DEF SysInv, PlacedInv, PlacedAt
<1>3. SettledAt(stages', pc', curr', next')
  BY <1>1 DEF SysInv, SettledInv, SettledAt
<1> QED
  BY <1>1, <1>2, <1>3, SteadyStep DEF SysInv

LEMMA FrameOf ==
    ASSUME WiringInv, NEW b \in Block
    PROVE  Visit(b) \in Frame /\ Visit(b).block = b /\ \A c \in Visit(b).left : Added(c)
<1>1. \A c \in Connections(b) : c \in Block /\ Added(c)
  <2> SUFFICES ASSUME NEW c \in Connections(b)
               PROVE  c \in Block /\ Added(c)
    OBVIOUS
  <2>1. <<b, c>> \in connections
    BY DEF Connections
  <2>2. PICK d \in Calls : <<b, c>> = <<d[1], d[3]>>
    BY <2>1 DEF WiringInv, CallsInv
  <2>3. d[3] = c /\ d[3] \in Block /\ kind[d[3]] # None
    BY <2>2, PortFacts
  <2> QED
    BY <2>3 DEF Added
<1> QED
  BY <1>1 DEF Visit, Frame

LEMMA StartBlockPlaces ==
    ASSUME SysInv, NEW b \in Block, StartBlock(b), UNCHANGED portVars
    PROVE  SysInv'
<1>1. /\ pc = "start" /\ b \in starts /\ starts' = starts \ {b} /\ curr' = curr /\ next' = next
      /\ UNCHANGED <<numIn, numOut, connections>>
      /\ IF IsPlaced(b) THEN stages' = stages /\ frames' = frames /\ pc' = pc
         ELSE AddBlock(b) /\ frames' = <<Visit(b)>> /\ pc' = "linearize"
  BY DEF StartBlock, IsNextStart
<1>2. /\ stages \in Matrix /\ frames \in Seq(Frame) /\ b \in StartBlocks /\ IsSource(b)
      /\ starts \subseteq StartBlocks /\ \A c \in StartBlocks : c \in starts \/ Has(stages, c)
      /\ \A c : Has(stages, c) => c \in Block /\ Added(c)
      /\ \A j \in DOMAIN frames : \A c \in frames[j].left : Added(c)
  BY <1>1 DEF SysInv, PlacedInv, PlacedAt, StartBlocks
<1>3. InnerFull(stages)
  BY <1>1 DEF SysInv, SettledInv, SettledAt
<1>4. CASE IsPlaced(b)
  <2>1. Has(stages, b)
    BY <1>2, <1>4, PlacedIs
  <2>2. PlacedAt(stages', frames', starts', pc')
    BY <1>1, <1>2, <1>4, <2>1 DEF PlacedAt
  <2>3. SettledAt(stages', pc', curr', next')
    BY <1>1, <1>3, <1>4 DEF SettledAt
  <2> QED
    BY <1>1, <2>2, <2>3, SteadyStep DEF SysInv
<1>5. CASE ~IsPlaced(b)
  <2>1. /\ AddBlock(b) /\ frames' = <<Visit(b)>> /\ pc' = "linearize"
    BY <1>1, <1>5
  <2>2. Extends(stages', stages, 1, b)
    BY <1>2, <2>1, AddExtends
  <2>3. /\ \A c : Has(stages', c) <=> Has(stages, c) \/ c = b
        /\ InnerFull(stages') /\ stages' \in Matrix
    BY <1>2, <1>3, <2>2, ExtendedPlaces DEF Extends
  <2>4. Visit(b) \in Frame /\ \A c \in Visit(b).left : Added(c)
    BY FrameOf DEF SysInv
  <2>5. frames' \in Seq(Frame) /\ frames' # <<>> /\ DOMAIN frames' = {1} /\ frames'[1] = Visit(b)
    BY <2>1, <2>4
  <2>6. Added(b)
    BY <1>2, BlockPorts DEF SysInv, WiringInv, Added, IsSource
  <2>7. PlacedAt(stages', frames', starts', pc')
    BY <1>1, <1>2, <2>1, <2>3, <2>4, <2>5, <2>6 DEF PlacedAt
  <2>8. SettledAt(stages', pc', curr', next')
    BY <2>1, <2>3 DEF SettledAt
  <2> QED
    BY <1>1, <2>7, <2>8, SteadyStep DEF SysInv
<1> QED
  BY <1>4, <1>5

LEMMA LinearizeNextPlaces ==
    ASSUME SysInv, LinearizeNext, UNCHANGED portVars
    PROVE  SysInv'
<1> DEFINE top == Last(frames)
<1>1. /\ pc = "linearize" /\ pc' = pc /\ starts' = starts /\ curr' = curr /\ next' = next
      /\ UNCHANGED <<numIn, numOut, connections>>
  BY DEF LinearizeNext
<1>2. /\ stages \in Matrix /\ frames \in Seq(Frame) /\ frames # <<>>
      /\ starts \subseteq StartBlocks /\ \A c \in StartBlocks : c \in starts \/ Has(stages, c)
      /\ \A c : Has(stages, c) => c \in Block /\ Added(c)
      /\ \A j \in DOMAIN frames : \A c \in frames[j].left : Added(c)
  BY <1>1 DEF SysInv, PlacedInv, PlacedAt
<1>3. InnerFull(stages)
  BY <1>1 DEF SysInv, SettledInv, SettledAt
<1>4. PICK b \in top.left :
         LET rest == Append(Front(frames), [top EXCEPT !.left = @ \ {b}]) IN
         IF IsPlaced(b) THEN frames' = rest /\ stages' = stages
         ELSE frames' = Append(rest, Visit(b)) /\ PlaceBlock(b, top.block)
  BY DEF LinearizeNext
<1> DEFINE rest == Append(Front(frames), [top EXCEPT !.left = @ \ {b}])
<1>5. PICK m \in Nat : m = Len(frames) /\ m >= 1 /\ DOMAIN frames = 1..m
  BY <1>2, EndOf
<1>6. /\ top = frames[m] /\ top \in Frame
      /\ rest \in Seq(Frame) /\ Len(rest) = m /\ DOMAIN rest = 1..m
      /\ \A j \in 1..(m - 1) : rest[j] = frames[j]
      /\ rest[m].left = top.left \ {b}
  BY <1>2, <1>5, TopFacts
<1>7. b \in Block /\ Added(b)
  BY <1>2, <1>5, <1>6 DEF Frame
<1>8. IF IsPlaced(b) THEN frames' = rest /\ stages' = stages
      ELSE frames' = Append(rest, Visit(b)) /\ PlaceBlock(b, top.block)
  BY <1>4
<1> HIDE DEF top, rest
<1>9. \A j \in DOMAIN rest : \A c \in rest[j].left : Added(c)
  <2> SUFFICES ASSUME NEW j \in 1..m, NEW c \in rest[j].left
               PROVE  Added(c)
    BY <1>6
  <2>1. c \in frames[j].left
    BY <1>5, <1>6
  <2> QED
    BY <1>2, <1>5, <2>1
<1>10. CASE IsPlaced(b)
  <2>1. frames' = rest /\ stages' = stages /\ rest # <<>>
    BY <1>5, <1>6, <1>8, <1>10
  <2>2. PlacedAt(stages', frames', starts', pc')
    BY <1>1, <1>2, <1>6, <1>9, <2>1 DEF PlacedAt
  <2>3. SettledAt(stages', pc', curr', next')
    BY <1>1, <1>3, <2>1 DEF SettledAt
  <2> QED
    BY <1>1, <2>2, <2>3, SteadyStep DEF SysInv
<1>11. CASE ~IsPlaced(b)
  <2>1. frames' = Append(rest, Visit(b)) /\ PlaceBlock(b, top.block)
    BY <1>8, <1>11
  <2>2. stages' = stages \/ \E n : Extends(stages', stages, n, b)
    BY <1>2, <1>7, <2>1, PlaceExtends
  <2>3. /\ stages' \in Matrix /\ InnerFull(stages')
        /\ \A c : Has(stages, c) => Has(stages', c)
        /\ \A c : Has(stages', c) => Has(stages, c) \/ c = b
    <3>1. CASE stages' = stages
      BY <1>2, <1>3, <3>1
    <3>2. ASSUME NEW n, Extends(stages', stages, n, b)
          PROVE  /\ \A c : Has(stages', c) <=> Has(stages, c) \/ c = b
                 /\ InnerFull(stages') /\ stages' \in Matrix
      BY <1>2, <1>3, <1>7, <3>2, ExtendedPlaces DEF Extends
    <3> QED
      BY <2>2, <3>1, <3>2
  <2>4. Visit(b) \in Frame /\ \A c \in Visit(b).left : Added(c)
    BY <1>7, FrameOf DEF SysInv
  <2>5. /\ frames' \in Seq(Frame) /\ frames' # <<>> /\ DOMAIN frames' = 1..(m + 1)
        /\ \A j \in 1..m : frames'[j] = rest[j]
        /\ frames'[m + 1] = Visit(b)
    <3> DEFINE e == Visit(b)
    <3> HIDE DEF e
    <3>1. rest \in Seq(Frame) /\ Len(rest) = m /\ e \in Frame /\ frames' = Append(rest, e)
      BY <1>6, <2>1, <2>4 DEF e
    <3>2. /\ frames' \in Seq(Frame) /\ Len(frames') = m + 1
          /\ \A j \in 1..m : frames'[j] = rest[j]
          /\ frames'[m + 1] = e
      BY <3>1, AppendProperties
    <3>3. DOMAIN frames' = 1..(m + 1) /\ frames' # <<>>
      BY <1>5, <3>2, LenProperties
    <3> QED
      BY <3>2, <3>3 DEF e
  <2>6. \A j \in DOMAIN frames' : \A c \in frames'[j].left : Added(c)
    <3> SUFFICES ASSUME NEW j \in 1..(m + 1), NEW c \in frames'[j].left
                 PROVE  Added(c)
      BY <2>5
    <3>1. CASE j = m + 1
      BY <2>4, <2>5, <3>1
    <3>2. CASE j # m + 1
      <4>1. j \in 1..m
        BY <3>2
      <4> QED
        BY <1>6, <1>9, <2>5, <4>1
    <3> QED
      BY <3>1, <3>2
  <2>7. PlacedAt(stages', frames', starts', pc')
    BY <1>1, <1>2, <1>7, <2>3, <2>5, <2>6 DEF PlacedAt
  <2>8. SettledAt(stages', pc', curr', next')
    BY <1>1, <2>3 DEF SettledAt
  <2> QED
    BY <1>1, <2>7, <2>8, SteadyStep DEF SysInv
<1> QED
  BY <1>10, <1>11

LEMMA LinearizeReturnPlaces ==
    ASSUME SysInv, LinearizeReturn, UNCHANGED portVars
    PROVE  SysInv'
<1>1. /\ pc = "linearize" /\ frames' = Front(frames) /\ stages' = stages /\ starts' = starts
      /\ pc' = (IF Len(frames) = 1 THEN "start" ELSE pc) /\ curr' = curr /\ next' = next
      /\ UNCHANGED <<numIn, numOut, connections>>
  BY DEF LinearizeReturn, matrixVars
<1>2. /\ stages \in Matrix /\ frames \in Seq(Frame) /\ frames # <<>>
      /\ starts \subseteq StartBlocks /\ \A c \in StartBlocks : c \in starts \/ Has(stages, c)
      /\ \A c : Has(stages, c) => c \in Block /\ Added(c)
      /\ \A j \in DOMAIN frames : \A c \in frames[j].left : Added(c)
  BY <1>1 DEF SysInv, PlacedInv, PlacedAt
<1>3. PICK m \in Nat : m = Len(frames) /\ m >= 1 /\ DOMAIN frames = 1..m
  BY <1>2, EndOf
<1>4. /\ frames' \in Seq(Frame) /\ Len(frames') = m - 1
      /\ \A i \in 1..(m - 1) : frames'[i] = frames[i]
  BY <1>1, <1>2, <1>3, FrontOf
<1>5. /\ DOMAIN frames' = 1..(m - 1)
      /\ m # 1 => frames' # <<>>
  BY <1>3, <1>4, LenProperties
<1>6. \A j \in DOMAIN frames' : \A c \in frames'[j].left : Added(c)
  BY <1>2, <1>3, <1>4, <1>5
<1>7. pc' = "linearize" => frames' # <<>>
  BY <1>1, <1>3, <1>5
<1>8. pc' \in {"start", "linearize"}
  BY <1>1
<1>9. PlacedAt(stages', frames', starts', pc')
  BY <1>1, <1>2, <1>4, <1>6, <1>7, <1>8 DEF PlacedAt
<1>10. SettledAt(stages', pc', curr', next')
  BY <1>1, <1>8 DEF SysInv, SettledInv, SettledAt
<1> QED
  BY <1>1, <1>9, <1>10, SteadyStep DEF SysInv

LEMMA LinearizedPlaces ==
    ASSUME SysInv, Linearized
    PROVE  SysInv'
<1>1. /\ pc = "start" /\ starts = {} /\ pc' = "propagate" /\ curr' = 1 /\ next' = 0
      /\ stages' = stages /\ frames' = frames /\ starts' = starts
      /\ UNCHANGED <<numIn, numOut, connections, portVars>>
  BY DEF Linearized, matrixVars
<1>2. PlacedAt(stages', frames', starts', pc')
  BY <1>1 DEF SysInv, PlacedInv, PlacedAt
<1>3. InnerFull(stages) /\ stages \in Matrix
  BY <1>1 DEF SysInv, SettledInv, SettledAt, PlacedInv, PlacedAt
<1>4. CarriedTo(stages, 1, 0)
  <2>1. \A j \in DOMAIN stages : ~(j < 1)
    BY <1>3, LenProperties DEF Matrix
  <2> QED
    BY <2>1 DEF CarriedTo
<1>5. SettledAt(stages', pc', curr', next')
  BY <1>1, <1>3, <1>4 DEF SettledAt
<1> QED
  BY <1>1, <1>2, <1>5, SteadyStep DEF SysInv

-----------------------------------------------------------------------------
(* propagate_signal_attributes *)

\* When it is through all stages every call has been carried out, in this run or an earlier one.
LEMMA AllCarriedOut ==
    ASSUME SysInv, pc = "propagate", \A j \in DOMAIN stages : CarriedOut(BlockOf(stages[j]))
    PROVE  \A d \in Calls : OutOf(d) \in sent
<1> SUFFICES ASSUME NEW d \in Calls
             PROVE  OutOf(d) \in sent
  OBVIOUS
<1>1. stages \in Matrix /\ InnerFull(stages)
  BY DEF SysInv, PlacedInv, PlacedAt, SettledInv, SettledAt
<1>2. d[1] \in Block /\ IsSource(d[1]) /\ d[2] \in 1..numOut[d[1]]
  <2>1. d[1] \in Block /\ IsSource(d[1]) /\ d[2] \in Nat /\ 1 <= d[2] /\ d[2] <= numOut[d[1]]
    BY PortFacts DEF SysInv
  <2>2. numOut[d[1]] \in Nat
    BY <2>1 DEF SysInv, WiringInv, KindInv
  <2> QED
    BY <2>1, <2>2
<1>3. Has(stages, d[1])
  BY <1>2 DEF SysInv, PlacedInv, PlacedAt, StartBlocks
<1>4. PICK x \in PlacesIn(stages) : BlockAt(stages, x) = d[1]
  BY <1>3 DEF Has
<1>5. CASE x[2] # 1 \/ x[3] # 1
  BY <1>1, <1>2, <1>4, <1>5 DEF InnerFull, Full, OutOf
<1>6. CASE x[2] = 1 /\ x[3] = 1
  <2>1. x[1] \in DOMAIN stages /\ stages[x[1]][1][1] = d[1]
    BY <1>4, <1>6, PlaceFacts DEF BlockAt
  <2>2. BlockOf(stages[x[1]]) = d[1]
    BY <1>1, <2>1, HeadIs
  <2>3. CarriedOut(d[1])
    BY <2>1, <2>2
  <2>4. PICK b \in Block : \E i \in DOMAIN calls[b] : d = CallAt(b, i)
    BY CallFacts
  <2>5. PICK i \in DOMAIN calls[b] : d = CallAt(b, i)
    BY <2>4
  <2>6. d[1] = b /\ d[2] = calls[b][i][1]
    BY <2>5 DEF CallAt
  <2> QED
    BY <2>3, <2>5, <2>6 DEF CarriedOut, OutOf
<1> QED
  BY <1>5, <1>6

LEMMA PropagatedPlaces ==
    ASSUME SysInv, Propagated
    PROVE  SysInv'
<1>1. /\ pc = "propagate" /\ curr > Len(stages) /\ pc' = "combine" /\ curr' = 1 /\ next' = 1
      /\ stages' = stages /\ starts' = starts /\ frames' = frames
      /\ UNCHANGED <<numIn, numOut, connections, portVars>>
  BY DEF Propagated, matrixVars
<1>2. stages \in Matrix /\ CarriedTo(stages, curr, next)
  BY <1>1 DEF SysInv, PlacedInv, PlacedAt, SettledInv, SettledAt
<1>3. ASSUME NEW j \in DOMAIN stages
      PROVE  CarriedOut(BlockOf(stages[j]))
  <2>1. PICK m \in Nat : m = Len(stages) /\ DOMAIN stages = 1..m
    BY <1>2, LenProperties DEF Matrix
  <2>2. curr \in Nat
    BY <1>2 DEF CarriedTo
  <2>3. j < curr
    BY <1>1, <2>1, <2>2
  <2> QED
    BY <1>2, <2>3 DEF CarriedTo
<1>4. \A d \in Calls : OutOf(d) \in sent
  BY <1>1, <1>3, AllCarriedOut
<1>5. PlacedAt(stages', frames', starts', pc')
  BY <1>1 DEF SysInv, PlacedInv, PlacedAt
<1>6. SettledAt(stages', pc', curr', next')
  BY <1>1, <1>4 DEF SettledAt
<1> QED
  BY <1>1, <1>5, <1>6, SteadyStep DEF SysInv

\* Where propagation is.
LEMMA PropagationAt ==
    ASSUME SysInv, pc = "propagate", curr <= Len(stages)
    PROVE  /\ curr \in DOMAIN stages /\ curr \in Nat /\ curr >= 1 /\ next \in Nat
           /\ BlockOf(stages[curr]) \in Block
           /\ calls[BlockOf(stages[curr])] \in Seq(Nat \X Block \X Nat)
           /\ CarriedTo(stages, curr, next) /\ InnerFull(stages) /\ stages \in Matrix
<1>1. stages \in Matrix /\ CarriedTo(stages, curr, next) /\ InnerFull(stages)
  BY DEF SysInv, PlacedInv, PlacedAt, SettledInv, SettledAt
<1>2. curr \in Nat /\ curr >= 1 /\ next \in Nat
  BY <1>1 DEF CarriedTo
<1>3. curr \in DOMAIN stages
  <2>1. PICK m \in Nat : m = Len(stages) /\ DOMAIN stages = 1..m
    BY <1>1, LenProperties DEF Matrix
  <2> QED
    BY <1>2, <2>1
<1>4. BlockOf(stages[curr]) \in Block
  BY <1>1, <1>3, HeadIs
<1> QED
  BY <1>1, <1>2, <1>3, <1>4 DEF SysInv, WiringInv, CallsInv

\* To the next block: this one has no call left.
LEMMA ToNextCarried ==
    ASSUME SysInv, pc = "propagate", curr <= Len(stages), CarriedOut(BlockOf(stages[curr]))
    PROVE  CarriedTo(stages, curr + 1, 0)
<1>1. /\ CarriedTo(stages, curr, next) /\ curr \in Nat /\ curr >= 1 /\ stages \in Matrix
  BY PropagationAt
<1>2. ASSUME NEW j \in DOMAIN stages, j < curr + 1
      PROVE  CarriedOut(BlockOf(stages[j]))
  <2>1. j \in Nat
    BY <1>1, LenProperties DEF Matrix
  <2>2. j < curr \/ j = curr
    BY <1>1, <1>2, <2>1
  <2> QED
    BY <1>1, <2>2 DEF CarriedTo
<1>3. curr + 1 \in Nat /\ curr + 1 >= 1
  BY <1>1
<1> QED
  BY <1>2, <1>3 DEF CarriedTo

LEMMA PropagateNextPlaces ==
    ASSUME SysInv, PropagateNext
    PROVE  SysInv'
<1> DEFINE b == BlockOf(stages[curr])
<1>1. /\ pc = "propagate" /\ curr <= Len(stages) /\ next > Len(calls[b]) /\ next > 0
      /\ pc' = pc /\ curr' = curr + 1 /\ next' = 0
      /\ stages' = stages /\ starts' = starts /\ frames' = frames
      /\ UNCHANGED <<numIn, numOut, connections, portVars>>
  BY DEF PropagateNext, ToNextBlock, matrixVars
<1>2. CarriedOut(b)
  <2>1. CarriedOutBefore(b, next) /\ next \in Nat /\ calls[b] \in Seq(Nat \X Block \X Nat)
    BY <1>1, PropagationAt DEF CarriedTo
  <2>2. PICK m \in Nat : m = Len(calls[b]) /\ DOMAIN calls[b] = 1..m
    BY <2>1, LenProperties
  <2>3. \A i \in DOMAIN calls[b] : i < next
    BY <1>1, <2>1, <2>2
  <2> QED
    BY <2>1, <2>3 DEF CarriedOut, CarriedOutBefore
<1>3. CarriedTo(stages', curr', next')
  BY <1>1, <1>2, ToNextCarried
<1>4. PlacedAt(stages', frames', starts', pc')
  BY <1>1 DEF SysInv, PlacedInv, PlacedAt
<1>5. SettledAt(stages', pc', curr', next')
  BY <1>1, <1>3 DEF SysInv, SettledInv, SettledAt
<1> QED
  BY <1>1, <1>4, <1>5, SteadyStep DEF SysInv

\* A block without outputs makes no connections.
LEMMA NoCalls ==
    ASSUME WiringInv, NEW b \in Block, ~IsSource(b)
    PROVE  CarriedOut(b)
<1> SUFFICES ASSUME NEW i \in DOMAIN calls[b]
             PROVE  FALSE
  BY DEF CarriedOut
<1>1. CallAt(b, i) \in Calls /\ CallAt(b, i)[1] = b
  BY CallFacts DEF CallAt
<1> QED
  BY <1>1, PortFacts

LEMMA PropagateSetupPlaces ==
    ASSUME SysInv, PropagateSetup
    PROVE  SysInv'
<1>2. /\ pc = "propagate" /\ curr <= Len(stages) /\ next = 0
      /\ stages' = stages /\ starts' = starts /\ frames' = frames
      /\ UNCHANGED <<numIn, numOut, connections, kind, calls, inAttr, inBuf, outBuf, sent, buffers>>
  BY DEF PropagateSetup, matrixVars
<1>6. PICK b \in Block : b = BlockOf(stages[curr])
  BY <1>2, PropagationAt
<1>7. /\ curr \in DOMAIN stages /\ curr \in Nat /\ curr >= 1
      /\ CarriedTo(stages, curr, next) /\ InnerFull(stages) /\ stages \in Matrix
      /\ calls[b] \in Seq(Nat \X Block \X Nat)
  BY <1>2, <1>6, PropagationAt
<1>1. IF ~IsSource(b)
      THEN curr' = curr + 1 /\ next' = 0 /\ pc' = pc /\ outAttr' = outAttr
      ELSE IF IsSet(OutputAttr(kind[b], inAttr[<<b, 1>>]))
      THEN outAttr' = SetupOutputPorts(b) /\ next' = 1 /\ pc' = pc /\ curr' = curr
      ELSE pc' = "aborted" /\ curr' = curr /\ next' = next /\ outAttr' = outAttr
  BY <1>6 DEF PropagateSetup, ToNextBlock
<1>3. CASE ~IsSource(b)
  <2>1. CarriedOut(b)
    BY <1>3, NoCalls DEF SysInv
  <2>2. /\ curr' = curr + 1 /\ next' = 0 /\ pc' = pc
        /\ UNCHANGED <<numIn, numOut, connections, portVars>>
    BY <1>1, <1>2, <1>3 DEF portVars
  <2>3. CarriedTo(stages', curr', next')
    BY <1>2, <1>6, <2>1, <2>2, ToNextCarried
  <2>4. PlacedAt(stages', frames', starts', pc')
    BY <1>2, <2>2 DEF SysInv, PlacedInv, PlacedAt
  <2>5. SettledAt(stages', pc', curr', next')
    BY <1>2, <2>2, <2>3 DEF SysInv, SettledInv, SettledAt
  <2> QED
    BY <1>2, <2>2, <2>4, <2>5, SteadyStep DEF SysInv
<1>4. CASE IsSource(b) /\ IsSet(OutputAttr(kind[b], inAttr[<<b, 1>>]))
  <2>1. outAttr' = SetupOutputPorts(b) /\ next' = 1 /\ pc' = pc /\ curr' = curr
    BY <1>1, <1>4
  <2>2. WiringInv' /\ \A p \in 1..numOut[b] : SetUp(<<b, p>>)'
    <3>1. /\ WiringInv /\ b \in Block /\ IsSet(OutputAttr(kind[b], inAttr[<<b, 1>>]))
          /\ numOut[b] > 0 /\ outAttr' = SetupOutputPorts(b)
          /\ UNCHANGED <<numIn, numOut, connections, kind, calls, inAttr, inBuf, outBuf, sent,
                         buffers>>
      BY <1>2, <1>4, <2>1, BlockPorts DEF SysInv, WiringInv, IsSource
    <3> QED
      BY <3>1, WiringSetup
  <2>3. /\ numIn' = numIn /\ numOut' = numOut /\ kind' = kind /\ calls' = calls /\ sent' = sent
        /\ stages' = stages
    BY <1>2
  <2>4. PlacedInv'
    BY <1>2, <2>1, <2>3 DEF SysInv, PlacedInv, PlacedAt, Added, StartBlocks, IsSource
  <2>5. InnerFull(stages)'
    BY <1>7, <2>3 DEF InnerFull, Full
  <2>6. CarriedTo(stages, curr, next)'
    <3>1. \A j \in DOMAIN stages' : j < curr' => CarriedOut(BlockOf(stages[j]))'
      BY <1>7, <2>1, <2>3 DEF CarriedTo, CarriedOut
    <3>2. \A p \in 1..numOut'[BlockOf(stages'[curr'])] : SetUp(<<BlockOf(stages[curr]), p>>)'
      BY <1>6, <2>1, <2>2, <2>3 DEF SetUp
    <3>3. CarriedOutBefore(BlockOf(stages[curr]), 1)'
      <4>1. \A i \in DOMAIN calls[b] : ~(i < 1)
        BY <1>7, LenProperties
      <4> QED
        BY <1>6, <2>1, <2>3, <4>1 DEF CarriedOutBefore
    <3> QED
      BY <1>7, <2>1, <3>1, <3>2, <3>3 DEF CarriedTo
  <2>7. SettledInv'
    BY <1>2, <2>1, <2>5, <2>6 DEF SettledInv, SettledAt
  <2> QED
    BY <2>2, <2>4, <2>7 DEF SysInv
<1>5. CASE IsSource(b) /\ ~IsSet(OutputAttr(kind[b], inAttr[<<b, 1>>]))
  <2>1. pc' = "aborted" /\ curr' = curr /\ next' = next
        /\ UNCHANGED <<numIn, numOut, connections, portVars>>
    BY <1>1, <1>2, <1>5 DEF portVars
  <2>2. PlacedAt(stages', frames', starts', pc')
    BY <1>2, <2>1 DEF SysInv, PlacedInv, PlacedAt
  <2>3. SettledAt(stages', pc', curr', next')
    BY <2>1 DEF SettledAt
  <2> QED
    BY <1>2, <2>1, <2>2, <2>3, SteadyStep DEF SysInv
<1> QED
  BY <1>3, <1>4, <1>5

LEMMA MakeConnectionPlaces ==
    ASSUME SysInv, MakeConnection
    PROVE  SysInv'
<1>1. /\ pc = "propagate" /\ curr <= Len(stages)
      /\ stages' = stages /\ starts' = starts /\ frames' = frames /\ curr' = curr
      /\ numIn' = numIn /\ numOut' = numOut /\ kind' = kind /\ calls' = calls /\ outAttr' = outAttr
  BY DEF MakeConnection, matrixVars
<1>11. pc' = "idle" \/ (pc' = pc /\ next' = next + 1)
  BY DEF MakeConnection
<1>12. PICK b \in Block : b = BlockOf(stages[curr])
  BY <1>1, PropagationAt
<1>13. next \in DOMAIN calls[b]
  BY <1>12 DEF MakeConnection
<1>2. /\ curr \in DOMAIN stages /\ curr \in Nat /\ curr >= 1 /\ next \in Nat
      /\ CarriedTo(stages, curr, next) /\ InnerFull(stages) /\ stages \in Matrix
      /\ calls[b] \in Seq(Nat \X Block \X Nat)
  BY <1>1, <1>12, PropagationAt
<1>3. next > 0
  BY <1>2, <1>13, LenProperties
<1>4. (\A p \in 1..numOut[b] : SetUp(<<b, p>>)) /\ CarriedOutBefore(b, next)
  BY <1>2, <1>3, <1>12 DEF CarriedTo
<1>5. /\ WiringInv' /\ sent \subseteq sent'
      /\ \A x \in Ports : SetUp(x) => SetUp(x)'
      /\ pc' # "idle" => <<b, calls[b][next][1]>> \in sent'
  BY <1>4, <1>12, WiringMake DEF SysInv
<1>6. PlacedInv'
  BY <1>1, <1>11 DEF SysInv, PlacedInv, PlacedAt, Added, StartBlocks, IsSource
<1>7. InnerFull(stages)'
  BY <1>1, <1>2, <1>5 DEF InnerFull, Full
<1>8. ASSUME pc' # "idle"
      PROVE  CarriedTo(stages, curr, next)'
  <2>1. next' = next + 1 /\ <<b, calls[b][next][1]>> \in sent'
    BY <1>5, <1>8, <1>11
  <2>2. \A j \in DOMAIN stages' : j < curr' => CarriedOut(BlockOf(stages[j]))'
    BY <1>1, <1>2, <1>5 DEF CarriedTo, CarriedOut
  <2>3. ASSUME NEW p \in 1..numOut[b]
        PROVE  SetUp(<<b, p>>)'
    <3>1. numOut[b] \in 0..MaxPorts /\ MaxPorts \in Nat
      BY BlockPorts, PortBound DEF SysInv, WiringInv
    <3>2. <<b, p>> \in Ports
      BY <3>1 DEF Ports
    <3> QED
      BY <1>4, <1>5, <3>2
  <2>4. \A p \in 1..numOut'[BlockOf(stages'[curr'])] : SetUp(<<BlockOf(stages[curr]), p>>)'
    BY <1>1, <1>12, <2>3 DEF SetUp
  <2>5. CarriedOutBefore(BlockOf(stages[curr]), next)'
    <3>1. ASSUME NEW i \in DOMAIN calls[b], i < next + 1
          PROVE  <<b, calls[b][i][1]>> \in sent'
      <4>1. i \in Nat
        BY <1>2, LenProperties
      <4>2. i = next \/ i < next
        BY <1>2, <3>1, <4>1
      <4> QED
        BY <1>4, <1>5, <2>1, <4>2 DEF CarriedOutBefore
    <3> QED
      BY <1>1, <1>12, <2>1, <3>1 DEF CarriedOutBefore
  <2>6. curr' \in Nat /\ curr' >= 1 /\ next' \in Nat
    BY <1>1, <1>2, <2>1
  <2> QED
    BY <2>2, <2>4, <2>5, <2>6 DEF CarriedTo
<1>9. pc' \in {"idle", "propagate"}
  BY <1>1, <1>11
<1>10. SettledInv'
  BY <1>7, <1>8, <1>9 DEF SettledInv, SettledAt
<1> QED
  BY <1>5, <1>6, <1>10 DEF SysInv

-----------------------------------------------------------------------------
(* The passes *)

LEMMA HasAt ==
    ASSUME NEW s, NEW i \in DOMAIN s, NEW p \in DOMAIN s[i], NEW k \in DOMAIN s[i][p]
    PROVE  Has(s, s[i][p][k])
<1>1. <<i, p, k>> \in PlacesIn(s)
  BY PlaceFacts
<1>2. BlockAt(s, <<i, p, k>>) = s[i][p][k]
  BY PlaceFacts
<1> QED
  BY <1>1, <1>2 DEF Has

\* A stage with one more block in its first path, or with one more path.
LEMMA LongerStage ==
    ASSUME NEW s \in Matrix, NEW c \in DOMAIN s, NEW b, Has(s, b),
           NEW st, st = [s[c] EXCEPT ![1] = Append(@, b)]
    PROVE  st \in Stage /\ \A p \in DOMAIN st : \A k \in DOMAIN st[p] : Has(s, st[p][k])
<1>1. PICK n \in Nat : /\ n = Len(s[c]) /\ n >= 1 /\ DOMAIN s[c] = 1..n /\ s[c] \in Seq(Path)
  BY MatrixFacts
<1>2. 1 \in DOMAIN s[c] /\ 1 \in 1..Len(s[c])
  BY <1>1
<1>3. s[c][1] \in Seq(Block)
  BY <1>2, MatrixFacts
<1>4. PICK l \in Nat : l = Len(s[c][1]) /\ DOMAIN s[c][1] = 1..l
  BY <1>3, LenProperties
<1>5. b \in Block
  <2>1. PICK x \in PlacesIn(s) : BlockAt(s, x) = b
    BY DEF Has
  <2>2. /\ x[1] \in DOMAIN s /\ x[2] \in DOMAIN s[x[1]] /\ x[3] \in DOMAIN s[x[1]][x[2]]
        /\ s[x[1]][x[2]][x[3]] = b
    BY <2>1, PlaceFacts DEF BlockAt
  <2> QED
    BY <2>2, MatrixFacts
<1> DEFINE q == Append(s[c][1], b)
<1>6. /\ q \in Seq(Block) /\ Len(q) = l + 1
      /\ \A k \in 1..l : q[k] = s[c][1][k]
      /\ q[l + 1] = b
  BY <1>3, <1>4, <1>5, AppendProperties
<1>7. st = [s[c] EXCEPT ![1] = q]
  OBVIOUS
<1> HIDE DEF q
<1>8. q \in Path /\ DOMAIN q = 1..(l + 1)
  <2>1. q # <<>>
    BY <1>4, <1>6
  <2> QED
    BY <1>6, <2>1, LenProperties DEF Path
<1>9. /\ st \in Seq(Path) /\ Len(st) = n
      /\ \A j \in 1..n : st[j] = IF j = 1 THEN q ELSE s[c][j]
  <2> DEFINE a == s[c]
  <2>1. a \in Seq(Path) /\ 1 \in 1..Len(a) /\ st = [a EXCEPT ![1] = q] /\ Len(a) = n
    BY <1>1, <1>2, <1>7
  <2> HIDE DEF a
  <2> DEFINE e == [a EXCEPT ![1] = q]
  <2>3. a \in Seq(Path) /\ 1 \in 1..Len(a) /\ q \in Path
    BY <1>8, <2>1
  <2>4. e \in Seq(Path) /\ Len(e) = Len(a) /\ \A j \in 1..Len(a) : e[j] = IF j = 1 THEN q ELSE a[j]
    BY ONLY <2>3, ExceptSeq
  <2>5. st = e
    BY <2>1
  <2> HIDE DEF e
  <2>2. /\ st \in Seq(Path) /\ Len(st) = n
        /\ \A j \in 1..n : st[j] = IF j = 1 THEN q ELSE a[j]
    BY <2>1, <2>4, <2>5
  <2> QED
    BY <2>2 DEF a
<1>10. st \in Stage /\ DOMAIN st = 1..n
  BY <1>1, <1>9, LenProperties DEF Stage
<1>11. ASSUME NEW p \in DOMAIN s[c], NEW k \in DOMAIN s[c][p]
       PROVE  Has(s, s[c][p][k])
  BY HasAt
<1>12. ASSUME NEW p \in DOMAIN st, NEW k \in DOMAIN st[p]
       PROVE  Has(s, st[p][k])
  <2>1. CASE p = 1
    <3>1. st[p] = q
      BY <1>9, <1>10, <2>1
    <3>2. k \in 1..(l + 1)
      BY <1>8, <3>1
    <3>3. CASE k = l + 1
      BY <1>6, <3>1, <3>3
    <3>4. CASE k # l + 1
      <4>1. k \in 1..l
        BY <3>2, <3>4
      <4> QED
        BY <1>2, <1>4, <1>6, <1>11, <3>1, <4>1
    <3> QED
      BY <3>3, <3>4
  <2>2. CASE p # 1
    BY <1>1, <1>9, <1>10, <1>11, <2>2
  <2> QED
    BY <2>1, <2>2
<1> QED
  BY <1>10, <1>12

LEMMA WiderStage ==
    ASSUME NEW s \in Matrix, NEW c \in DOMAIN s, NEW n \in DOMAIN s,
           NEW st, st = Append(s[c], Head(s[n]))
    PROVE  st \in Stage /\ \A p \in DOMAIN st : \A k \in DOMAIN st[p] : Has(s, st[p][k])
<1>1. PICK m \in Nat : /\ m = Len(s[c]) /\ m >= 1 /\ DOMAIN s[c] = 1..m /\ s[c] \in Seq(Path)
  BY MatrixFacts
<1>2. Head(s[n]) = s[n][1] /\ 1 \in DOMAIN s[n]
  BY MatrixFacts
<1>3. s[n][1] \in Path
  BY <1>2, MatrixFacts
<1> DEFINE q == s[n][1]
<1>4. st = Append(s[c], q)
  BY <1>2
<1> HIDE DEF q
<1>5. /\ st \in Seq(Path) /\ Len(st) = m + 1
      /\ \A k \in 1..m : st[k] = s[c][k]
      /\ st[m + 1] = q
  BY <1>1, <1>3, <1>4, AppendProperties DEF q
<1>6. st \in Stage /\ DOMAIN st = 1..(m + 1)
  BY <1>1, <1>5, LenProperties DEF Stage
<1>7. ASSUME NEW i \in DOMAIN s, NEW p \in DOMAIN s[i], NEW k \in DOMAIN s[i][p]
      PROVE  Has(s, s[i][p][k])
  BY HasAt
<1>8. ASSUME NEW p \in DOMAIN st, NEW k \in DOMAIN st[p]
      PROVE  Has(s, st[p][k])
  <2>1. CASE p = m + 1
    BY <1>2, <1>5, <1>7, <2>1 DEF q
  <2>2. CASE p # m + 1
    <3>1. p \in 1..m
      BY <1>6, <2>2
    <3> QED
      BY <1>1, <1>5, <1>7, <3>1
  <2> QED
    BY <2>1, <2>2
<1> QED
  BY <1>6, <1>8

\* What every step of the passes does to the matrix.
LEMMA PassStage ==
    ASSUME SysInv, pc \in {"combine", "parallelize"},
           CombineAdvance \/ CombineStage \/ ParallelizeStage \/ ParallelizeDone
    PROVE  /\ stages' \in Matrix /\ \A b : Has(stages', b) => Has(stages, b)
           /\ pc' \in {"combine", "parallelize", "ready", "crashed"}
           /\ pc' \in {"combine", "parallelize"} =>
                curr' \in Nat /\ curr' >= 1 /\ next' \in Nat /\ curr' <= next'
<1>1. /\ stages \in Matrix /\ curr \in Nat /\ curr >= 1 /\ next \in Nat /\ curr <= next
  BY DEF SysInv, PlacedInv, PlacedAt, SettledInv, SettledAt
<1>2. PICK m \in Nat : m = Len(stages) /\ DOMAIN stages = 1..m
  BY <1>1, LenProperties DEF Matrix
<1>3. CASE CombineAdvance
  BY <1>1, <1>3 DEF CombineAdvance
<1>4. CASE ParallelizeDone
  BY <1>1, <1>4 DEF ParallelizeDone
<1>5. ASSUME ToNextStage \/ SkipNextStage
      PROVE  /\ stages' = stages /\ pc' = pc
             /\ curr' \in Nat /\ curr' >= 1 /\ next' \in Nat /\ curr' <= next'
  BY <1>1, <1>5 DEF ToNextStage, SkipNextStage
<1>6. ASSUME next < Len(stages)
      PROVE  /\ curr \in DOMAIN stages /\ next + 1 \in DOMAIN stages
             /\ curr \in 1..Len(stages) /\ next + 1 \in 1..Len(stages) /\ curr < next + 1
  BY <1>1, <1>2, <1>6
<1>7. ASSUME next < Len(stages), NEW st \in Stage, stages' = Gone(stages, curr, next + 1, st),
             \A p \in DOMAIN st : \A k \in DOMAIN st[p] : Has(stages, st[p][k])
      PROVE  stages' \in Matrix /\ \A b : Has(stages', b) => Has(stages, b)
  <2> DEFINE n == next + 1
  <2>1. /\ curr \in 1..Len(stages) /\ n \in 1..Len(stages) /\ curr < n
        /\ stages' = Gone(stages, curr, n, st)
    BY <1>6, <1>7
  <2> HIDE DEF n
  <2> QED
    BY <1>1, <1>7, <2>1, GonePlaces
<1>8. CASE CombineStage
  <2> DEFINE this == stages[curr]
             last == Last(Head(this))
             first == Head(Head(stages[next + 1]))
  <2>1. next < Len(stages) /\ pc = "combine"
    BY <1>8 DEF CombineStage
  <2>2. \/ ToNextStage \/ SkipNextStage
        \/ pc' = "crashed" /\ UNCHANGED <<stages, curr, next>>
        \/ /\ stages' = RemoveAt([stages EXCEPT ![curr][1] = Append(@, first)], next + 1)
           /\ next' = curr /\ UNCHANGED <<pc, curr>>
    <3>1. CASE RightTerminated(Last(this))
      BY <1>8, <3>1 DEF CombineStage
    <3>2. CASE ~RightTerminated(Last(this)) /\ LeftTerminated(Head(stages[next + 1]))
      BY <1>8, <3>2 DEF CombineStage
    <3>3. CASE ~RightTerminated(Last(this)) /\ ~LeftTerminated(Head(stages[next + 1]))
      BY <1>8, <3>3 DEF CombineStage
    <3> QED
      BY <3>1, <3>2, <3>3
  <2>3. CASE /\ stages' = RemoveAt([stages EXCEPT ![curr][1] = Append(@, first)], next + 1)
             /\ next' = curr /\ UNCHANGED <<pc, curr>>
    <3>1. first = stages[next + 1][1][1] /\ Has(stages, first)
      <4>1. 1 \in DOMAIN stages[next + 1] /\ Head(stages[next + 1]) = stages[next + 1][1]
        BY <1>1, <1>6, <2>1, MatrixFacts
      <4>2. first = BlockOf(stages[next + 1])
        BY DEF BlockOf
      <4> QED
        BY <1>1, <1>6, <2>1, <4>2, HeadIs
    <3> DEFINE st == [stages[curr] EXCEPT ![1] = Append(@, first)]
    <3>2. st \in Stage /\ \A p \in DOMAIN st : \A k \in DOMAIN st[p] : Has(stages, st[p][k])
      BY <1>1, <1>6, <2>1, <3>1, LongerStage
    <3>3. [stages EXCEPT ![curr][1] = Append(@, first)] = [stages EXCEPT ![curr] = st]
      BY <1>6, <2>1
    <3>4. stages' = Gone(stages, curr, next + 1, st)
      BY <2>3, <3>3 DEF Gone
    <3> HIDE DEF st
    <3>5. stages' \in Matrix /\ \A b : Has(stages', b) => Has(stages, b)
      BY <1>7, <2>1, <3>2, <3>4
    <3>6. pc' = pc /\ curr' = curr /\ next' = curr
      BY <2>3
    <3> QED
      BY <1>1, <3>5, <3>6
  <2>4. CASE pc' = "crashed" /\ UNCHANGED <<stages, curr, next>>
    BY <1>1, <2>4
  <2> QED
    BY <1>1, <1>5, <2>1, <2>2, <2>3, <2>4
<1>9. CASE ParallelizeStage
  <2>1. next < Len(stages) /\ pc = "parallelize"
    BY <1>9 DEF ParallelizeStage
  <2>2. \/ ToNextStage
        \/ /\ stages' = RemoveAt([stages EXCEPT ![curr] = Append(@, Head(stages[next + 1]))],
                                 next + 1)
           /\ next' = curr /\ UNCHANGED <<pc, curr>>
    BY <1>9 DEF ParallelizeStage
  <2>3. CASE /\ stages' = RemoveAt([stages EXCEPT ![curr] = Append(@, Head(stages[next + 1]))],
                                   next + 1)
             /\ next' = curr /\ UNCHANGED <<pc, curr>>
    <3> DEFINE st == Append(stages[curr], Head(stages[next + 1]))
    <3>1. st \in Stage /\ \A p \in DOMAIN st : \A k \in DOMAIN st[p] : Has(stages, st[p][k])
      BY <1>1, <1>6, <2>1, WiderStage
    <3>2. [stages EXCEPT ![curr] = Append(@, Head(stages[next + 1]))] = [stages EXCEPT ![curr] = st]
      BY <1>6, <2>1
    <3>3. stages' = Gone(stages, curr, next + 1, st)
      BY <2>3, <3>2 DEF Gone
    <3> HIDE DEF st
    <3>4. stages' \in Matrix /\ \A b : Has(stages', b) => Has(stages, b)
      BY <1>7, <2>1, <3>1, <3>3
    <3>5. pc' = pc /\ curr' = curr /\ next' = curr
      BY <2>3
    <3> QED
      BY <1>1, <3>4, <3>5
  <2> QED
    BY <1>1, <1>5, <2>1, <2>2, <2>3
<1> QED
  BY <1>3, <1>4, <1>8, <1>9

LEMMA PassPlaces ==
    ASSUME SysInv, Pass
    PROVE  SysInv'
<1>1. /\ CombineAdvance \/ CombineStage \/ ParallelizeStage \/ ParallelizeDone
      /\ starts' = starts /\ frames' = frames
      /\ UNCHANGED <<numIn, numOut, connections, portVars>>
  BY DEF Pass
<1>2. pc \in {"combine", "parallelize"}
  BY <1>1 DEF CombineAdvance, CombineStage, ParallelizeStage, ParallelizeDone
<1>3. /\ stages' \in Matrix /\ \A b : Has(stages', b) => Has(stages, b)
      /\ pc' \in {"combine", "parallelize", "ready", "crashed"}
      /\ pc' \in {"combine", "parallelize"} =>
            curr' \in Nat /\ curr' >= 1 /\ next' \in Nat /\ curr' <= next'
  BY <1>1, <1>2, PassStage
<1>4. PlacedAt(stages', frames', starts', pc')
  BY <1>1, <1>3 DEF SysInv, PlacedInv, PlacedAt
<1>5. SettledAt(stages', pc', curr', next')
  BY <1>2, <1>3 DEF SysInv, SettledInv, SettledAt
<1> QED
  BY <1>1, <1>4, <1>5, SteadyStep DEF SysInv

-----------------------------------------------------------------------------
(* Execution, and what a user does between runs *)

\* Blocks that fetch their buffers have them.
LEMMA InitBlocksPlaces ==
    ASSUME SysInv, InitBlocks
    PROVE  SysInv'
<1>1. /\ pc = "ready" /\ stages' = stages /\ starts' = starts /\ frames' = frames
      /\ UNCHANGED <<numIn, numOut, connections, portVars>>
  BY DEF InitBlocks, matrixVars
<1>2. \/ pc' = "aborted"
      \/ pc' = "running" /\ \A b \in Block : IsPlaced(b) => HasBuffers(b)
  BY DEF InitBlocks
<1>3. PlacedAt(stages', frames', starts', pc')
  BY <1>1, <1>2 DEF SysInv, PlacedInv, PlacedAt
<1>4. ASSUME pc' = "running", NEW b, Has(stages, b)
      PROVE  Full(b)
  <2>1. stages \in Matrix /\ b \in Block
    BY <1>4 DEF SysInv, PlacedInv, PlacedAt
  <2>2. HasBuffers(b)
    BY <1>2, <1>4, <2>1, PlacedIs
  <2>3. numOut[b] \in 0..MaxPorts /\ MaxPorts \in Nat
    BY <2>1, BlockPorts, PortBound DEF SysInv, WiringInv
  <2>4. \A p \in 1..numOut[b] : <<b, p>> \in Ports
    BY <2>1, <2>3 DEF Ports
  <2> QED
    BY <2>2, <2>4 DEF HasBuffers, Full, SysInv, WiringInv, BufInv
<1>5. \A d \in Calls : OutOf(d) \in sent
  BY <1>1 DEF SysInv, SettledInv, SettledAt
<1>6. SettledAt(stages', pc', curr', next')
  BY <1>1, <1>2, <1>4, <1>5 DEF SettledAt
<1> QED
  BY <1>1, <1>3, <1>6, SteadyStep DEF SysInv

LEMMA WakeupPlaces ==
    ASSUME SysInv, Wakeup
    PROVE  SysInv'
<1>1. /\ pc = "running" /\ pc' = pc /\ stages' = stages /\ starts' = starts /\ frames' = frames
      /\ UNCHANGED <<numIn, numOut, connections, portVars>>
  <2>1. ASSUME NEW p \in Block, ProcessBlock(p)
        PROVE  /\ pc = "running" /\ pc' = pc /\ UNCHANGED <<matrixVars, starts, frames, portVars>>
    BY <2>1 DEF ProcessBlock
  <2>2. ASSUME ExecuteAgain \/ ExecuteNext \/ NextStep
        PROVE  /\ pc = "running" /\ pc' = pc /\ UNCHANGED <<matrixVars, starts, frames, portVars>>
    BY <2>2 DEF ExecuteAgain, ExecuteNext, NextStep, StepDone
  <2>3. /\ pc = "running" /\ pc' = pc /\ UNCHANGED <<matrixVars, starts, frames, portVars>>
    BY <2>1, <2>2 DEF Wakeup
  <2> QED
    BY <2>3 DEF matrixVars
<1>2. PlacedAt(stages', frames', starts', pc')
  BY <1>1 DEF SysInv, PlacedInv, PlacedAt
<1>3. SettledAt(stages', pc', curr', next')
  BY <1>1 DEF SysInv, SettledInv, SettledAt
<1> QED
  BY <1>1, <1>2, <1>3, SteadyStep DEF SysInv

LEMMA FinalizePlaces ==
    ASSUME SysInv, Finalize
    PROVE  SysInv'
<1>1. /\ pc = "running" /\ pc' = "idle" /\ stages' = stages /\ starts' = starts /\ frames' = frames
      /\ UNCHANGED <<numIn, numOut, connections, portVars>>
  BY DEF Finalize, StepDone, matrixVars
<1>2. PlacedAt(stages', frames', starts', pc')
  BY <1>1 DEF SysInv, PlacedInv, PlacedAt
<1>3. InnerFull(stages)
  BY <1>1 DEF SysInv, SettledInv, SettledAt, InnerFull, Has
<1>4. SettledAt(stages', pc', curr', next')
  BY <1>1, <1>3 DEF SettledAt
<1> QED
  BY <1>1, <1>2, <1>4, SteadyStep DEF SysInv

LEMMA AddPlaces ==
    ASSUME SysInv, NEW b \in Block, NEW k \in Kinds, Add(b, k)
    PROVE  SysInv'
<1>1. AddBlockOfKind(b, k)
  BY DEF Add
<1>2. WiringInv'
  BY <1>1, WiringAdd DEF SysInv
<1>3. /\ pc = "idle" /\ pc' = pc /\ stages' = stages /\ frames' = frames /\ sent' = sent
      /\ kind[b] = None /\ kind' = [kind EXCEPT ![b] = k]
      /\ numOut' = [numOut EXCEPT ![b] = k.outs]
  BY <1>1 DEF AddBlockOfKind
<1>4. \A c : Added(c) => Added(c)'
  <2> SUFFICES ASSUME NEW c, Added(c)
               PROVE  kind'[c] # None
    BY DEF Added
  <2>1. k # None /\ kind \in [Block -> Kinds \cup {None}]
    BY PortBound DEF SysInv, WiringInv, KindInv
  <2> QED
    BY <1>3, <2>1 DEF Added
<1>5. PlacedInv'
  BY <1>3, <1>4 DEF SysInv, PlacedInv, PlacedAt, Added
<1>6. stages \in Matrix /\ InnerFull(stages) /\ \A c : Has(stages, c) => c \in Block /\ Added(c)
  BY <1>3 DEF SysInv, PlacedInv, PlacedAt, SettledInv, SettledAt
<1>7. ASSUME NEW c, Has(stages, c)
      PROVE  numOut'[c] = numOut[c]
  BY <1>3, <1>6, <1>7 DEF Added, SysInv, WiringInv, KindInv
<1>8. InnerFull(stages)'
  BY <1>3, <1>6, <1>7 DEF InnerFull, Full, Has
<1>9. SettledInv'
  BY <1>3, <1>8 DEF SettledInv, SettledAt
<1> QED
  BY <1>2, <1>5, <1>9 DEF SysInv

LEMMA ConnectPlaces ==
    ASSUME SysInv, SharedPorts = FALSE, NEW b \in Block, NEW c \in Block,
           NEW p \in 1..MaxPorts, NEW q \in 1..MaxPorts, Connect(b, p, c, q)
    PROVE  SysInv'
<1>1. /\ pc = "idle" /\ pc' = pc /\ stages' = stages /\ frames' = frames /\ sent' = sent
      /\ kind' = kind /\ numOut' = numOut
  BY DEF Connect, ConnectPorts
<1>2. WiringInv'
  BY WiringConnect DEF SysInv
<1>3. PlacedInv'
  BY <1>1 DEF SysInv, PlacedInv, PlacedAt, Added
<1>4. InnerFull(stages)'
  BY <1>1 DEF SysInv, SettledInv, SettledAt, InnerFull, Full
<1>5. SettledInv'
  BY <1>1, <1>4 DEF SettledInv, SettledAt
<1> QED
  BY <1>2, <1>3, <1>5 DEF SysInv

-----------------------------------------------------------------------------
(* Systems without shared ports *)

LEMMA SysInvInit == Init => SysInv
<1> SUFFICES ASSUME Init PROVE SysInv
  OBVIOUS
<1>1. /\ kind = [b \in Block |-> None] /\ calls = [b \in Block |-> <<>>]
      /\ numIn = [b \in Block |-> 0] /\ numOut = [b \in Block |-> 0] /\ connections = {}
      /\ inAttr = [x \in Ports |-> None.in] /\ outAttr = [x \in Ports |-> None.out]
      /\ inBuf = [x \in Ports |-> 0] /\ outBuf = [x \in Ports |-> 0] /\ sent = {} /\ buffers = 0
      /\ stages = <<>> /\ pc = "idle" /\ frames = <<>>
  BY DEF Init
<1>2. Calls = {}
  BY <1>1 DEF Calls
<1>3. None.in \in Attr /\ None.out \in Attr /\ None.ins = 0 /\ None.outs = 0
  BY DEF None, Attr
<1>4. KindInv
  BY <1>1, <1>3 DEF KindInv
<1>5. CallsInv
  BY <1>1, <1>2 DEF CallsInv
<1>6. BufInv
  BY <1>1, <1>2 DEF BufInv
<1>7. AttrInv
  BY <1>1, <1>2, <1>3 DEF AttrInv
<1>8. stages \in Matrix /\ PlacesIn(stages) = {} /\ frames \in Seq(Frame) /\ DOMAIN frames = {}
  BY <1>1 DEF Matrix, PlacesIn
<1>9. PlacedInv
  BY <1>1, <1>8 DEF PlacedInv, PlacedAt, Has
<1>10. SettledInv
  BY <1>1, <1>8 DEF SettledInv, SettledAt, InnerFull
<1> QED
  BY <1>4, <1>5, <1>6, <1>7, <1>9, <1>10 DEF SysInv, WiringInv

LEMMA SysInvSame ==
    ASSUME SysInv, UNCHANGED vars
    PROVE  SysInv'
<1>1. /\ pc' = pc /\ curr' = curr /\ next' = next /\ stages' = stages /\ starts' = starts
      /\ frames' = frames /\ UNCHANGED <<numIn, numOut, connections, portVars>>
  BY DEF vars, matrixVars
<1>2. PlacedAt(stages', frames', starts', pc')
  BY <1>1 DEF SysInv, PlacedInv
<1>3. SettledAt(stages', pc', curr', next')
  BY <1>1 DEF SysInv, SettledInv
<1> QED
  BY <1>1, <1>2, <1>3, SteadyStep DEF SysInv

LEMMA SysInvStep == SharedPorts = FALSE => (SysInv /\ [Next]_vars => SysInv')
<1> SUFFICES ASSUME SharedPorts = FALSE, SysInv, [Next]_vars PROVE SysInv'
  OBVIOUS
<1>1. CASE UNCHANGED vars
  BY <1>1, SysInvSame
<1>2. CASE \E b \in Block, k \in Kinds : Add(b, k)
  BY <1>2, AddPlaces
<1>3. CASE \E b, c \in Block, p, q \in 1..MaxPorts : Connect(b, p, c, q)
  BY <1>3, ConnectPlaces
<1>4. CASE Run
  BY <1>4, RunStep
<1>5. CASE Linearize
  <2>1. UNCHANGED portVars
    BY <1>5 DEF Linearize
  <2>2. CASE \E b \in Block : StartBlock(b)
    BY <2>1, <2>2, StartBlockPlaces
  <2>3. CASE LinearizeNext
    BY <2>1, <2>3, LinearizeNextPlaces
  <2>4. CASE LinearizeReturn
    BY <2>1, <2>4, LinearizeReturnPlaces
  <2> QED
    BY <1>5, <2>2, <2>3, <2>4 DEF Linearize
<1>6. CASE Linearized
  BY <1>6, LinearizedPlaces
<1>7. CASE Propagate
  BY <1>7, PropagateSetupPlaces, MakeConnectionPlaces, PropagateNextPlaces, PropagatedPlaces
  DEF Propagate
<1>8. CASE Pass
  BY <1>8, PassPlaces
<1>9. CASE InitBlocks
  BY <1>9, InitBlocksPlaces
<1>10. CASE Wakeup
  BY <1>10, WakeupPlaces
<1>11. CASE Finalize
  BY <1>11, FinalizePlaces
<1>12. CASE Ended
  BY <1>12, SysInvSame DEF Ended
<1> QED
  BY <1>1, <1>2, <1>3, <1>4, <1>5, <1>6, <1>7, <1>8, <1>9, <1>10, <1>11, <1>12 DEF Next, Step

LEMMA SysInvAlways == SharedPorts = FALSE /\ Spec => []SysInv
<1> SUFFICES ASSUME SharedPorts = FALSE
             PROVE  Spec => []SysInv
  OBVIOUS
<1>1. SysInv /\ [Next]_vars => SysInv'
  BY SysInvStep
<1> QED
  BY <1>1, SysInvInit, PTL DEF Spec

\* If no port is connected twice, then whenever blocks are executed the two ports of each
\* connection use one buffer of its own and have the same attributes: of any system, after
\* any number of runs, also abandoned ones, with blocks and connections added in between
\* (make_connection of block.cpp, propagate_signal_attributes of system.cpp).
THEOREM UnsharedBuffersJoined == SharedPorts = FALSE /\ Spec => []BuffersJoined
<1>1. SysInv => BuffersJoined
  <2> SUFFICES ASSUME SysInv, pc = "running", NEW c \in Calls, NEW d \in Calls
               PROVE  /\ inBuf[<<c[3], c[4]>>] = outBuf[<<d[1], d[2]>>] <=> c = d
                      /\ inAttr[<<c[3], c[4]>>] = outAttr[<<c[1], c[2]>>]
    BY DEF BuffersJoined
  <2>1. OutOf(c) \in sent /\ OutOf(d) \in sent
    BY DEF SysInv, SettledInv, SettledAt
  <2>2. /\ OutOf(c) \in Ports /\ OutOf(d) \in Ports
        /\ OutOf(c) = OutOf(d) => c = d
    BY DEF SysInv, WiringInv, CallsInv
  <2>3. /\ inBuf[InOf(c)] = outBuf[OutOf(c)] /\ outBuf[OutOf(c)] # 0
        /\ outBuf[OutOf(c)] = outBuf[OutOf(d)] => OutOf(c) = OutOf(d)
    BY <2>1, <2>2 DEF SysInv, WiringInv, BufInv
  <2>4. inAttr[InOf(c)] = outAttr[OutOf(c)]
    BY <2>1 DEF SysInv, WiringInv, AttrInv
  <2> QED
    BY <2>2, <2>3, <2>4 DEF OutOf, InOf
<1> QED
  BY <1>1, SysInvAlways, PTL

-----------------------------------------------------------------------------
(* Whether a run starts, or fails, depends on the system alone               *)

Signals == [Ports -> [Aspect -> Value]]

\* The input ports get u and the output ports v: every connection hands its signal on, input
\* ports accept what they get, and output ports get what their block gives them.
Solves(u, v) ==
    /\ \A c \in Calls : u[InOf(c)] = v[OutOf(c)]
    /\ \A x \in Ports, a \in Aspect :
          /\ x[2] <= numIn[x[1]] => kind[x[1]].in[a] \in {Unset, u[x][a]}
          /\ x[2] <= numOut[x[1]] => v[x][a] = OutputAttr(kind[x[1]], u[<<x[1], 1>>])[a]

\* What ports have so far is what they have in every solution, and input ports keep what they
\* require; after an exception there is none.
MeritInv ==
    /\ \A x \in Ports, a \in Aspect :
          x[2] <= numIn[x[1]] /\ kind[x[1]].in[a] # Unset => inAttr[x][a] = kind[x[1]].in[a]
    /\ \A u, v \in Signals : Solves(u, v) =>
          \A x \in Ports, a \in Aspect :
             /\ x[2] <= numIn[x[1]] => inAttr[x][a] \in {Unset, u[x][a]}
             /\ x[2] <= numOut[x[1]] => outAttr[x][a] \in {Unset, v[x][a]}
    /\ failed => Calls # {} /\ \A u, v \in Signals : ~Solves(u, v)

LEMMA MeritSteady ==
    ASSUME MeritInv, UNCHANGED <<numIn, numOut, portVars>>, failed' => failed
    PROVE  MeritInv'
<1>1. /\ numIn' = numIn /\ numOut' = numOut /\ kind' = kind /\ calls' = calls
      /\ inAttr' = inAttr /\ outAttr' = outAttr
  BY DEF portVars
<1>2. Calls' = Calls
  BY <1>1 DEF Calls
<1>3. \A u, v : Solves(u, v)' <=> Solves(u, v)
  BY <1>1, <1>2 DEF Solves, InOf, OutOf
<1> QED
  BY <1>1, <1>2, <1>3 DEF MeritInv

LEMMA MeritInit == Init => MeritInv
<1> SUFFICES ASSUME Init PROVE MeritInv
  OBVIOUS
<1>1. /\ numIn = [b \in Block |-> 0] /\ numOut = [b \in Block |-> 0] /\ failed = FALSE
  BY DEF Init
<1>2. ASSUME NEW x \in Ports
      PROVE  ~(x[2] <= numIn[x[1]]) /\ ~(x[2] <= numOut[x[1]])
  <2>1. x[1] \in Block /\ x[2] \in 1..MaxPorts /\ MaxPorts \in Nat
    BY PortBound DEF Ports
  <2> QED
    BY <1>1, <2>1
<1> QED
  BY <1>1, <1>2 DEF MeritInv

\* A system that has grown asks for more.
LEMMA MeritAdd ==
    ASSUME WiringInv, MeritInv, NEW b \in Block, NEW k \in Kinds, AddBlockOfKind(b, k),
           failed' = failed
    PROVE  MeritInv'
<1>1. /\ kind[b] = None
      /\ kind' = [kind EXCEPT ![b] = k]
      /\ numIn' = [numIn EXCEPT ![b] = k.ins]
      /\ numOut' = [numOut EXCEPT ![b] = k.outs]
      /\ inAttr' = [x \in Ports |-> IF x[1] = b /\ x[2] <= k.ins THEN k.in ELSE inAttr[x]]
      /\ outAttr' = [x \in Ports |->
                       IF x[1] = b /\ x[2] <= k.outs THEN OutputAttr(k, k.in) ELSE outAttr[x]]
      /\ calls' = calls
  BY DEF AddBlockOfKind
<1>2. Calls' = Calls
  BY <1>1 DEF Calls
<1>3. k.ins \in Nat /\ k.outs \in Nat
  BY PortBound DEF Kind
<1>4. /\ kind'[b] = k /\ numIn'[b] = k.ins /\ numOut'[b] = k.outs
      /\ numIn[b] = 0 /\ numOut[b] = 0
  BY <1>1, BlockPorts DEF WiringInv, KindInv
<1>5. \A c \in Block : c # b => kind'[c] = kind[c] /\ numIn'[c] = numIn[c] /\ numOut'[c] = numOut[c]
  BY <1>1 DEF WiringInv, KindInv
<1>6. \A x \in Ports : x[1] \in Block /\ x[2] \in Nat /\ 1 <= x[2] /\ <<x[1], 1>> \in Ports
  <2> SUFFICES ASSUME NEW x \in Ports
               PROVE  x[1] \in Block /\ x[2] \in Nat /\ 1 <= x[2] /\ <<x[1], 1>> \in Ports
    OBVIOUS
  <2>1. x[1] \in Block /\ x[2] \in 1..MaxPorts /\ MaxPorts \in Nat
    BY PortBound DEF Ports
  <2> QED
    BY <2>1 DEF Ports
<1>7. ASSUME NEW u \in Signals, NEW v \in Signals, Solves(u, v)'
      PROVE  Solves(u, v)
  <2>1. \A c \in Calls : u[InOf(c)] = v[OutOf(c)]
    BY <1>2, <1>7 DEF Solves, InOf, OutOf
  <2>2. ASSUME NEW x \in Ports, NEW a \in Aspect
        PROVE  /\ x[2] <= numIn[x[1]] => kind[x[1]].in[a] \in {Unset, u[x][a]}
               /\ x[2] <= numOut[x[1]] => v[x][a] = OutputAttr(kind[x[1]], u[<<x[1], 1>>])[a]
    <3>1. CASE x[1] = b
      BY <1>4, <1>6, <3>1
    <3>2. CASE x[1] # b
      BY <1>5, <1>6, <1>7, <3>2 DEF Solves, OutputAttr
    <3> QED
      BY <3>1, <3>2
  <2> QED
    BY <2>1, <2>2 DEF Solves
<1>8. ASSUME NEW x \in Ports, x[1] # b
      PROVE  /\ inAttr'[x] = inAttr[x] /\ outAttr'[x] = outAttr[x]
             /\ kind'[x[1]] = kind[x[1]]
             /\ numIn'[x[1]] = numIn[x[1]] /\ numOut'[x[1]] = numOut[x[1]]
  BY <1>1, <1>5, <1>6, <1>8
<1>9. ASSUME NEW x \in Ports, x[1] = b
      PROVE  /\ x[2] <= k.ins => inAttr'[x] = k.in
             /\ x[2] <= k.outs => outAttr'[x] = OutputAttr(k, k.in)
  BY <1>1, <1>9
<1>10. ASSUME NEW x \in Ports, NEW a \in Aspect, x[2] <= numIn'[x[1]], kind'[x[1]].in[a] # Unset
       PROVE  inAttr'[x][a] = kind'[x[1]].in[a]
  <2>1. CASE x[1] = b
    BY <1>4, <1>9, <1>10, <2>1
  <2>2. CASE x[1] # b
    BY <1>8, <1>10, <2>2 DEF MeritInv
  <2> QED
    BY <2>1, <2>2
<1>11. ASSUME NEW u \in Signals, NEW v \in Signals, Solves(u, v)', NEW x \in Ports, NEW a \in Aspect
       PROVE  /\ x[2] <= numIn'[x[1]] => inAttr'[x][a] \in {Unset, u[x][a]}
              /\ x[2] <= numOut'[x[1]] => outAttr'[x][a] \in {Unset, v[x][a]}
  <2>1. CASE x[1] # b
    BY <1>7, <1>8, <1>11, <2>1 DEF MeritInv
  <2>2. CASE x[1] = b
    <3>1. x[2] <= k.ins => k.in[a] \in {Unset, u[x][a]}
      BY <1>4, <1>11, <2>2 DEF Solves
    <3>2. x[2] <= k.outs => v[x][a] = IF k.out[a] = Unset /\ k.ins > 0
                                      THEN u[<<b, 1>>][a] ELSE k.out[a]
      BY <1>4, <1>11, <2>2 DEF Solves, OutputAttr
    <3>3. k.ins > 0 => k.in[a] \in {Unset, u[<<b, 1>>][a]}
      <4>1. k.ins > 0 => 1 <= k.ins
        BY <1>3
      <4>2. <<b, 1>>[1] = b /\ <<b, 1>>[2] = 1 /\ <<b, 1>> \in Ports
        BY <1>6, <2>2
      <4> QED
        BY <1>4, <1>11, <4>1, <4>2 DEF Solves
    <3>4. x[2] <= k.outs => outAttr'[x][a] = IF k.out[a] = Unset /\ k.ins > 0
                                             THEN k.in[a] ELSE k.out[a]
      BY <1>9, <2>2 DEF OutputAttr
    <3> QED
      BY <1>4, <1>9, <2>2, <3>1, <3>2, <3>3, <3>4
  <2> QED
    BY <2>1, <2>2
<1> QED
  BY <1>2, <1>7, <1>10, <1>11 DEF MeritInv

LEMMA MeritConnect ==
    ASSUME WiringInv, MeritInv, SharedPorts = FALSE, NEW b \in Block, NEW c \in Block,
           NEW p \in 1..MaxPorts, NEW q \in 1..MaxPorts, Connect(b, p, c, q)
    PROVE  MeritInv'
<1>1. /\ calls' = [calls EXCEPT ![b] = Append(@, <<p, c, q>>)]
      /\ numIn' = numIn /\ numOut' = numOut /\ kind' = kind /\ inAttr' = inAttr
      /\ outAttr' = outAttr /\ failed' = failed
  BY DEF Connect, ConnectPorts
<1>2. p \in Nat /\ q \in Nat
  BY PortBound
<1>3. Calls' = Calls \cup {<<b, p, c, q>>}
  BY <1>1, <1>2, CallsGrow
<1>4. \A u, v : Solves(u, v)' => Solves(u, v)
  BY <1>1, <1>3 DEF Solves, InOf, OutOf
<1> QED
  BY <1>1, <1>3, <1>4 DEF MeritInv

LEMMA FirstInput ==
    ASSUME WiringInv, NEW b \in Block, kind[b].ins > 0
    PROVE  <<b, 1>> \in Ports /\ <<b, 1>>[2] <= numIn[<<b, 1>>[1]]
<1>1. numIn[b] = kind[b].ins /\ numIn[b] \in 0..MaxPorts /\ MaxPorts \in Nat
  BY BlockPorts, PortBound DEF WiringInv, KindInv
<1>2. 1 \in 1..MaxPorts /\ 1 <= numIn[b]
  BY <1>1
<1> QED
  BY <1>2 DEF Ports

LEMMA MeritPropagateSetup ==
    ASSUME SysInv, MeritInv, PropagateSetup, failed' = (failed \/ pc' = "idle")
    PROVE  MeritInv'
<1>1. /\ pc = "propagate" /\ curr <= Len(stages)
      /\ UNCHANGED <<numIn, numOut, kind, calls, inAttr>>
      /\ numIn' = numIn /\ numOut' = numOut /\ kind' = kind /\ calls' = calls /\ inAttr' = inAttr
  BY DEF PropagateSetup, matrixVars
<1>2. PICK b \in Block : b = BlockOf(stages[curr])
  BY <1>1, PropagationAt
<1>3. /\ pc' # "idle"
      /\ outAttr' = outAttr \/ (IsSource(b) /\ outAttr' = SetupOutputPorts(b))
  BY <1>1, <1>2 DEF PropagateSetup
<1>4. failed' => failed
  BY <1>3
<1>5. Calls' = Calls
  BY <1>1 DEF Calls
<1>6. \A u, v : Solves(u, v)' <=> Solves(u, v)
  BY <1>1, <1>5 DEF Solves, InOf, OutOf
<1>7. ASSUME NEW u \in Signals, NEW v \in Signals, Solves(u, v), NEW x \in Ports, NEW a \in Aspect,
             x[2] <= numOut[x[1]]
      PROVE  outAttr'[x][a] \in {Unset, v[x][a]}
  <2>1. outAttr[x][a] \in {Unset, v[x][a]}
    BY <1>7 DEF MeritInv
  <2>2. CASE outAttr'[x] = outAttr[x]
    BY <2>1, <2>2
  <2>3. CASE outAttr'[x] # outAttr[x]
    <3>1. x[1] = b /\ outAttr'[x] = OutputAttr(kind[b], inAttr[<<b, 1>>])
      BY <1>3, <2>3 DEF SetupOutputPorts
    <3>2. outAttr'[x][a] = IF kind[b].out[a] = Unset /\ kind[b].ins > 0
                           THEN inAttr[<<b, 1>>][a] ELSE kind[b].out[a]
      BY <3>1 DEF OutputAttr
    <3>3. v[x][a] = IF kind[b].out[a] = Unset /\ kind[b].ins > 0
                    THEN u[<<b, 1>>][a] ELSE kind[b].out[a]
      BY <1>7, <3>1 DEF Solves, OutputAttr
    <3>4. kind[b].ins > 0 => inAttr[<<b, 1>>][a] \in {Unset, u[<<b, 1>>][a]}
      BY <1>7, FirstInput DEF MeritInv, SysInv
    <3> QED
      BY <3>2, <3>3, <3>4
  <2> QED
    BY <2>2, <2>3
<1> QED
  BY <1>1, <1>4, <1>5, <1>6, <1>7 DEF MeritInv

LEMMA MeritMakeConnection ==
    ASSUME SysInv, MeritInv, MakeConnection, failed' = (failed \/ pc' = "idle")
    PROVE  MeritInv'
<1>1. /\ pc = "propagate" /\ curr <= Len(stages)
      /\ numIn' = numIn /\ numOut' = numOut /\ kind' = kind /\ calls' = calls /\ outAttr' = outAttr
  BY DEF MakeConnection, matrixVars
<1>2. PICK b \in Block : b = BlockOf(stages[curr])
  BY <1>1, PropagationAt
<1>3. PICK c : c = CallAt(b, next)
  OBVIOUS
<1>4. /\ next \in DOMAIN calls[b]
      /\ inAttr' = [inAttr EXCEPT ![InOf(c)] = Received(outAttr[OutOf(c)], @)]
      /\ pc' = "idle" <=> Mismatch(outAttr[OutOf(c)], inAttr[InOf(c)])
  <2>1. OutOf(c) = <<b, calls[b][next][1]>> /\ InOf(c) = <<calls[b][next][2], calls[b][next][3]>>
    BY <1>3 DEF CallAt, OutOf, InOf
  <2> QED
    BY <1>1, <1>2, <2>1 DEF MakeConnection
<1>5. c \in Calls
  BY <1>3, <1>4, CallFacts
<1>6. /\ OutOf(c) \in Ports /\ OutOf(c)[2] <= numOut[OutOf(c)[1]]
      /\ InOf(c) \in Ports /\ InOf(c)[2] <= numIn[InOf(c)[1]]
  BY <1>5 DEF SysInv, WiringInv, CallsInv, OutOf, InOf
<1>7. /\ outAttr[OutOf(c)] \in Attr /\ inAttr[InOf(c)] \in Attr
      /\ inAttr \in [Ports -> Attr]
  BY <1>6 DEF SysInv, WiringInv, AttrInv
<1>8. IsSet(outAttr[OutOf(c)])
  <2>1. CarriedTo(stages, curr, next) /\ curr \in DOMAIN stages
        /\ calls[b] \in Seq(Nat \X Block \X Nat)
    BY <1>1, <1>2, PropagationAt
  <2>2. next > 0
    BY <1>4, <2>1, LenProperties
  <2>3. c[1] = b /\ c[2] \in Nat /\ 1 <= c[2] /\ c[2] <= numOut[b] /\ numOut[b] \in Nat
    BY <1>3, <1>5, PortFacts DEF CallAt, SysInv, WiringInv, KindInv
  <2>4. c[2] \in 1..numOut[b]
    BY <2>3
  <2>5. SetUp(<<b, c[2]>>)
    BY <1>2, <2>1, <2>2, <2>4 DEF CarriedTo
  <2> QED
    BY <2>3, <2>5 DEF SetUp, OutOf
<1>9. Calls' = Calls
  BY <1>1 DEF Calls
<1>10. \A u, v : Solves(u, v)' <=> Solves(u, v)
  BY <1>1, <1>9 DEF Solves, InOf, OutOf
<1>11. /\ \A x \in Ports : x # InOf(c) => inAttr'[x] = inAttr[x]
       /\ \A a \in Aspect : inAttr[InOf(c)][a] # Unset => inAttr'[InOf(c)][a] = inAttr[InOf(c)][a]
       /\ Mismatch(outAttr[OutOf(c)], inAttr[InOf(c)]) => inAttr'[InOf(c)] = inAttr[InOf(c)]
       /\ ~Mismatch(outAttr[OutOf(c)], inAttr[InOf(c)]) => inAttr'[InOf(c)] = outAttr[OutOf(c)]
  <2>1. /\ \A x \in Ports : x # InOf(c) => inAttr'[x] = inAttr[x]
        /\ inAttr'[InOf(c)] = Received(outAttr[OutOf(c)], inAttr[InOf(c)])
    BY <1>4, <1>6, <1>7
  <2> QED
    BY <1>7, <2>1, ReceivedKeeps
<1>12. ASSUME NEW x \in Ports, NEW a \in Aspect, x[2] <= numIn[x[1]], kind[x[1]].in[a] # Unset
       PROVE  inAttr'[x][a] = kind[x[1]].in[a]
  BY <1>11, <1>12 DEF MeritInv
<1>13. ASSUME NEW u \in Signals, NEW v \in Signals, Solves(u, v), NEW x \in Ports, NEW a \in Aspect,
              x[2] <= numIn[x[1]]
       PROVE  inAttr'[x][a] \in {Unset, u[x][a]}
  <2>1. inAttr[x][a] \in {Unset, u[x][a]}
    BY <1>13 DEF MeritInv
  <2>2. CASE inAttr'[x] = inAttr[x]
    BY <2>1, <2>2
  <2>3. CASE inAttr'[x] # inAttr[x]
    <3>1. x = InOf(c) /\ inAttr'[x] = outAttr[OutOf(c)]
      BY <1>11, <2>3
    <3>2. outAttr[OutOf(c)][a] \in {Unset, v[OutOf(c)][a]}
      BY <1>6, <1>13 DEF MeritInv
    <3>3. u[x] = v[OutOf(c)]
      BY <1>5, <1>13, <3>1 DEF Solves
    <3> QED
      BY <3>1, <3>2, <3>3
  <2> QED
    BY <2>2, <2>3
<1>14. ASSUME pc' = "idle", NEW u \in Signals, NEW v \in Signals, Solves(u, v)
       PROVE  FALSE
  <2>1. PICK a \in Aspect : /\ inAttr[InOf(c)][a] # Unset
                            /\ inAttr[InOf(c)][a] # outAttr[OutOf(c)][a]
    BY <1>4, <1>14 DEF Mismatch
  <2>2. inAttr[InOf(c)][a] = u[InOf(c)][a]
    BY <1>6, <1>14, <2>1 DEF MeritInv
  <2>3. outAttr[OutOf(c)][a] = v[OutOf(c)][a]
    BY <1>6, <1>8, <1>14 DEF MeritInv, IsSet
  <2>4. u[InOf(c)] = v[OutOf(c)]
    BY <1>5, <1>14 DEF Solves
  <2> QED
    BY <2>1, <2>2, <2>3, <2>4
<1>15. failed' => Calls # {} /\ \A u, v \in Signals : ~Solves(u, v)
  BY <1>5, <1>14 DEF MeritInv
<1> QED
  BY <1>1, <1>9, <1>10, <1>12, <1>13, <1>15 DEF MeritInv

LEMMA PortsSteady ==
    ASSUME Run \/ Linearize \/ Linearized \/ Pass \/ InitBlocks \/ Wakeup \/ Finalize
    PROVE  UNCHANGED <<numIn, numOut, connections, portVars, failed>>
<1>1. CASE Run \/ Linearized
  BY <1>1 DEF Run, Linearized, matrixVars
<1>2. CASE Linearize
  <2>1. UNCHANGED <<portVars, failed>>
    BY <1>2 DEF Linearize
  <2>2. (\E b \in Block : StartBlock(b)) => UNCHANGED <<numIn, numOut, connections>>
    BY DEF StartBlock
  <2>3. LinearizeNext \/ LinearizeReturn => UNCHANGED <<numIn, numOut, connections>>
    BY DEF LinearizeNext, LinearizeReturn, matrixVars
  <2> QED
    BY <1>2, <2>1, <2>2, <2>3 DEF Linearize
<1>3. CASE Pass
  BY <1>3 DEF Pass
<1>4. CASE InitBlocks \/ Finalize
  BY <1>4 DEF InitBlocks, Finalize, matrixVars
<1>5. CASE Wakeup
  <2>1. (\E p \in Block : ProcessBlock(p)) => UNCHANGED <<matrixVars, portVars>>
    BY DEF ProcessBlock
  <2>2. ExecuteAgain \/ ExecuteNext \/ NextStep => UNCHANGED <<matrixVars, portVars>>
    BY DEF ExecuteAgain, ExecuteNext, NextStep
  <2> QED
    BY <1>5, <2>1, <2>2 DEF Wakeup, matrixVars
<1> QED
  BY <1>1, <1>2, <1>3, <1>4, <1>5

LEMMA MeritStep ==
    ASSUME SharedPorts = FALSE, SysInv, MeritInv, [Next]_vars
    PROVE  MeritInv'
<1>2. CASE \E b \in Block, k \in Kinds : Add(b, k)
  <2>1. PICK b \in Block, k \in Kinds : Add(b, k)
    BY <1>2
  <2>2. AddBlockOfKind(b, k) /\ failed' = failed
    BY <2>1 DEF Add
  <2> QED
    BY <2>2, MeritAdd DEF SysInv
<1>3. CASE \E b, c \in Block, p, q \in 1..MaxPorts : Connect(b, p, c, q)
  BY <1>3, MeritConnect DEF SysInv
<1>4. CASE Propagate
  <2>1. failed' = (failed \/ pc' = "idle")
    BY <1>4 DEF Propagate
  <2>2. CASE PropagateSetup
    BY <2>1, <2>2, MeritPropagateSetup
  <2>3. CASE MakeConnection
    BY <2>1, <2>3, MeritMakeConnection
  <2>4. CASE PropagateNext \/ Propagated
    <3>1. pc' # "idle" /\ UNCHANGED <<numIn, numOut, portVars>>
      BY <2>4 DEF PropagateNext, Propagated, matrixVars
    <3>2. failed' => failed
      BY <2>1, <3>1
    <3> QED
      BY <3>1, <3>2, MeritSteady
  <2> QED
    BY <1>4, <2>2, <2>3, <2>4 DEF Propagate
<1>5. CASE Run \/ Linearize \/ Linearized \/ Pass \/ InitBlocks \/ Wakeup \/ Finalize
  BY <1>5, PortsSteady, MeritSteady
<1>6. CASE UNCHANGED vars \/ Ended
  <2>1. UNCHANGED <<numIn, numOut, portVars, failed>>
    BY <1>6 DEF Ended, vars, matrixVars
  <2> QED
    BY <2>1, MeritSteady
<1> QED
  BY <1>2, <1>3, <1>4, <1>5, <1>6 DEF Next, Step

LEMMA MeritAlways == SharedPorts = FALSE /\ Spec => [](SysInv /\ MeritInv)
<1> SUFFICES ASSUME SharedPorts = FALSE
             PROVE  Spec => [](SysInv /\ MeritInv)
  OBVIOUS
<1>1. Init => SysInv /\ MeritInv
  BY SysInvInit, MeritInit
<1>2. SysInv /\ MeritInv /\ [Next]_vars => SysInv' /\ MeritInv'
  BY SysInvStep, MeritStep
<1> QED
  BY <1>1, <1>2, PTL DEF Spec

\* In a complete system every port has its call.
LEMMA CompletePorts ==
    ASSUME WiringInv, Complete, NEW x \in Ports
    PROVE  /\ x[2] <= numIn[x[1]] => \E c \in Calls : InOf(c) = x
           /\ x[2] <= numOut[x[1]] => \E c \in Calls : OutOf(c) = x
<1>1. x = <<x[1], x[2]>> /\ x[1] \in Block /\ x[2] \in 1..MaxPorts
  BY DEF Ports
<1>2. /\ <<x[1], "in", x[2]>> \in Block \X {"out", "in"} \X (1..MaxPorts)
      /\ <<x[1], "out", x[2]>> \in Block \X {"out", "in"} \X (1..MaxPorts)
  BY <1>1
<1>3. <<x[1], "in", x[2]>> \notin OpenPorts /\ <<x[1], "out", x[2]>> \notin OpenPorts
  BY DEF Complete
<1>4. x[2] <= numIn[x[1]] => \E c \in Calls : <<c[3], c[4]>> = <<x[1], x[2]>>
  BY <1>2, <1>3 DEF OpenPorts
<1>5. x[2] <= numOut[x[1]] => \E c \in Calls : <<c[1], c[2]>> = <<x[1], x[2]>>
  BY <1>2, <1>3 DEF OpenPorts
<1> QED
  BY <1>1, <1>4, <1>5 DEF InOf, OutOf

\* The call that feeds the first input of a block.
LEMMA FeedingIs ==
    ASSUME WiringInv, Complete, NEW b \in Block, kind[b].ins > 0
    PROVE  Feeding(b, 1) \in Calls /\ InOf(Feeding(b, 1)) = <<b, 1>>
<1>1. PICK c \in Calls : InOf(c) = <<b, 1>>
  BY FirstInput, CompletePorts
<1>2. c[3] = b /\ c[4] = 1
  BY <1>1 DEF InOf
<1>3. Feeding(b, 1) \in Calls /\ Feeding(b, 1)[3] = b /\ Feeding(b, 1)[4] = 1
  BY <1>2 DEF Feeding
<1> QED
  BY <1>3 DEF InOf

\* Blocks are executed with signals they agree on.
LEMMA RunningConsistent ==
    ASSUME SysInv, MeritInv, Complete, pc = "running"
    PROVE  Consistent
<1> DEFINE sig == [c \in Calls |-> outAttr[OutOf(c)]]
<1>1. ASSUME NEW c \in Calls
      PROVE  /\ OutOf(c) \in Ports /\ InOf(c) \in Ports /\ SetUp(OutOf(c))
             /\ inAttr[InOf(c)] = outAttr[OutOf(c)] /\ outAttr[OutOf(c)] \in [Aspect -> Value]
  <2>1. OutOf(c) \in sent
    BY DEF SysInv, SettledInv, SettledAt
  <2>2. OutOf(c) \in Ports /\ InOf(c) \in Ports
    BY DEF SysInv, WiringInv, CallsInv
  <2>3. SetUp(OutOf(c)) /\ inAttr[InOf(c)] = outAttr[OutOf(c)] /\ outAttr[OutOf(c)] \in Attr
    BY <2>1, <2>2 DEF SysInv, WiringInv, AttrInv
  <2> QED
    BY <2>2, <2>3 DEF SetUp, IsSet, Attr
<1>2. sig \in [Calls -> [Aspect -> Value]]
  BY <1>1
<1>3. ASSUME NEW c \in Calls, NEW a \in Aspect
      PROVE  /\ sig[c][a] = IF kind[c[1]].out[a] = Unset /\ kind[c[1]].ins > 0
                            THEN sig[Feeding(c[1], 1)][a] ELSE kind[c[1]].out[a]
             /\ kind[c[3]].in[a] \in {Unset, sig[c][a]}
  <2>1. c[1] \in Block /\ c[4] <= numIn[c[3]] /\ OutOf(c)[1] = c[1]
        /\ InOf(c)[1] = c[3] /\ InOf(c)[2] = c[4]
    BY PortFacts DEF SysInv, OutOf, InOf
  <2>2. sig[c][a] = OutputAttr(kind[c[1]], inAttr[<<c[1], 1>>])[a]
    BY <1>1, <2>1 DEF SetUp
  <2>3. sig[c][a] = IF kind[c[1]].out[a] = Unset /\ kind[c[1]].ins > 0
                    THEN inAttr[<<c[1], 1>>][a] ELSE kind[c[1]].out[a]
    BY <2>2 DEF OutputAttr
  <2>4. kind[c[1]].ins > 0 => inAttr[<<c[1], 1>>] = sig[Feeding(c[1], 1)]
    BY <1>1, <2>1, FeedingIs DEF SysInv
  <2>5. kind[c[3]].in[a] # Unset => inAttr[InOf(c)][a] = kind[c[3]].in[a]
    BY <1>1, <2>1 DEF MeritInv
  <2> QED
    BY <1>1, <2>3, <2>4, <2>5
<1> HIDE DEF sig
<1> QED
  BY <1>2, <1>3 DEF Consistent

\* Signals the blocks agree on are a solution.
LEMMA ConsistentSolves ==
    ASSUME WiringInv, Complete, Consistent, Calls # {}
    PROVE  \E u, v \in Signals : Solves(u, v)
<1>1. PICK sig \in [Calls -> [Aspect -> Value]] :
         \A c \in Calls, a \in Aspect :
            /\ sig[c][a] = IF kind[c[1]].out[a] = Unset /\ kind[c[1]].ins > 0
                           THEN sig[Feeding(c[1], 1)][a] ELSE kind[c[1]].out[a]
            /\ kind[c[3]].in[a] \in {Unset, sig[c][a]}
  BY DEF Consistent
<1>2. PICK e : e \in Calls
  OBVIOUS
<1> DEFINE into(x) == IF \E c \in Calls : InOf(c) = x
                      THEN CHOOSE c \in Calls : InOf(c) = x ELSE e
           from(x) == IF \E c \in Calls : OutOf(c) = x
                      THEN CHOOSE c \in Calls : OutOf(c) = x ELSE e
           u == [x \in Ports |-> sig[into(x)]]
           v == [x \in Ports |-> sig[from(x)]]
<1>3. \A x : into(x) \in Calls /\ from(x) \in Calls
  BY <1>2
<1>4. ASSUME NEW c \in Calls
      PROVE  into(InOf(c)) = c /\ from(OutOf(c)) = c
  BY DEF WiringInv, CallsInv
<1> HIDE DEF into, from
<1>5. u \in Signals /\ v \in Signals
  BY <1>1, <1>3 DEF Signals
<1>6. ASSUME NEW c \in Calls
      PROVE  u[InOf(c)] = sig[c] /\ v[OutOf(c)] = sig[c]
  <2>1. OutOf(c) \in Ports /\ InOf(c) \in Ports
    BY DEF WiringInv, CallsInv
  <2> QED
    BY <1>4, <2>1
<1> HIDE DEF u, v
<1>7. ASSUME NEW x \in Ports, NEW a \in Aspect, x[2] <= numIn[x[1]]
      PROVE  kind[x[1]].in[a] \in {Unset, u[x][a]}
  <2>1. PICK c \in Calls : InOf(c) = x
    BY <1>7, CompletePorts
  <2>2. x[1] = c[3]
    BY <2>1 DEF InOf
  <2> QED
    BY <1>1, <1>6, <2>1, <2>2
<1>8. ASSUME NEW x \in Ports, NEW a \in Aspect, x[2] <= numOut[x[1]]
      PROVE  v[x][a] = OutputAttr(kind[x[1]], u[<<x[1], 1>>])[a]
  <2>1. PICK c \in Calls : OutOf(c) = x
    BY <1>8, CompletePorts
  <2>2. x[1] = c[1] /\ c[1] \in Block
    BY <2>1, PortFacts DEF OutOf
  <2>3. v[x][a] = IF kind[c[1]].out[a] = Unset /\ kind[c[1]].ins > 0
                  THEN sig[Feeding(c[1], 1)][a] ELSE kind[c[1]].out[a]
    BY <1>1, <1>6, <2>1
  <2>4. kind[c[1]].ins > 0 => sig[Feeding(c[1], 1)] = u[<<c[1], 1>>]
    <3>1. ASSUME kind[c[1]].ins > 0
          PROVE  Feeding(c[1], 1) \in Calls /\ InOf(Feeding(c[1], 1)) = <<c[1], 1>>
      BY <2>2, <3>1, FeedingIs
    <3> QED
      BY <1>6, <3>1
  <2> QED
    BY <2>2, <2>3, <2>4 DEF OutputAttr
<1>9. Solves(u, v)
  BY <1>6, <1>7, <1>8 DEF Solves
<1> QED
  BY <1>5, <1>9

\* However often a system was run, extended, or abandoned half-way: once all its ports are
\* connected, its blocks are executed only if they agree on the signals, and that a run threw
\* an exception means that they do not (OutPort::connect, SignalAttributePropagation,
\* System::initialize).
OnItsMerits ==
    Complete => /\ pc = "running" => Consistent
                /\ failed => ~Consistent

THEOREM UnsharedOnItsMerits == SharedPorts = FALSE /\ Spec => []OnItsMerits
<1>1. SysInv /\ MeritInv => OnItsMerits
  BY RunningConsistent, ConsistentSolves DEF OnItsMerits, MeritInv, SysInv
<1> QED
  BY <1>1, MeritAlways, PTL

-----------------------------------------------------------------------------
(* Systems that are run once: what is executed is what initialize makes of a *)
(* new system                                                                *)

OneRun == \A u \in Users : u.runs <= 1

OrderInv ==
    /\ user \in Users /\ runs \in 0..user.runs
    /\ pc = "idle" /\ runs = 0 => stages = <<>> /\ frames = <<>>
    /\ pc # "idle" => runs = 1
    /\ LineInv /\ PassInv
    /\ pc = "propagate" => LineAt(stages, <<>>, {})
    /\ pc = "running" => Sound(stages)

LEMMA SoundNext ==
    ASSUME UNCHANGED <<numIn, numOut, connections>>, Sound(stages')
    PROVE  Sound(stages)'
<1>1. Sound(stages') <=> Sound(stages)'
  BY DEF Sound, ChainedIn, Link, Reached, IsSource, Successors, Connections, Acyclic, OrderedIn
<1> QED
  BY <1>1

LEMMA LineSteady ==
    ASSUME UNCHANGED <<numIn, numOut, connections>>, LineAt(stages', <<>>, {})
    PROVE  LineAt(stages, <<>>, {})'
<1>1. Acyclic' <=> Acyclic
  BY DEF Acyclic, Successors, Connections
<1>2. \A b : (b \in Successors(Block))' <=> b \in Successors(Block)
  BY DEF Successors, Connections
<1>3. \A b : IsSource(b)' <=> IsSource(b)
  BY DEF IsSource
<1> QED
  BY <1>1, <1>2, <1>3 DEF LineAt, Reached, IsSource, Successors, Connections

LEMMA OrderInvInit == Init => OrderInv
<1> SUFFICES ASSUME Init PROVE OrderInv
  OBVIOUS
<1>1. pc = "idle" /\ runs = 0 /\ user \in Users /\ stages = <<>> /\ frames = <<>>
  BY DEF Init
<1>2. user.runs \in Nat
  BY <1>1, SystemAssumption DEF User
<1>3. runs \in 0..user.runs
  BY <1>1, <1>2
<1> QED
  BY <1>1, <1>3 DEF OrderInv, LineInv, PassInv

\* A step of the user's, or an end.
LEMMA IdleOrder ==
    ASSUME OrderInv, pc = "idle", pc' = "idle", stages' = stages, frames' = frames,
           UNCHANGED <<user, runs>>
    PROVE  OrderInv'
BY DEF OrderInv, LineInv, PassInv

LEMMA RunOrder ==
    ASSUME OneRun, OrderInv, Run
    PROVE  OrderInv'
<1>1. /\ pc = "idle" /\ runs < user.runs /\ runs' = runs + 1 /\ pc' = "start"
      /\ starts' = StartBlocks /\ stages' = stages /\ frames' = frames /\ user' = user
      /\ UNCHANGED <<numIn, numOut, connections>>
  BY DEF Run, matrixVars
<1>2. user.runs \in Nat /\ user.runs <= 1 /\ user \in Users /\ runs \in 0..user.runs
  BY SystemAssumption DEF OneRun, User, OrderInv
<1>3. runs = 0 /\ runs' = 1 /\ runs' \in 0..user.runs
  BY <1>1, <1>2
<1>4. stages = <<>> /\ frames = <<>>
  BY <1>1, <1>3 DEF OrderInv
<1>5. LineAt(stages', frames', starts')
  <2>1. /\ <<>> \in Seq(Singles) /\ <<>> \in Seq(Frame) /\ Len(<<>>) = 0
        /\ \A i \in DOMAIN <<>> : FALSE
    OBVIOUS
  <2> QED
    BY <1>1, <1>4, <2>1 DEF LineAt, StartBlocks
<1>6. LineAt(stages, frames, starts)'
  BY <1>1, <1>5, LineNext
<1>7. LineInv'
  BY <1>1, <1>4, <1>6 DEF LineInv
<1>8. PassInv'
  BY <1>1 DEF PassInv
<1> QED
  BY <1>1, <1>2, <1>3, <1>7, <1>8 DEF OrderInv

LEMMA LinearizeOrder ==
    ASSUME PortsInv, OrderInv, Linearize
    PROVE  OrderInv'
<1>1. UNCHANGED <<user, runs>>
  BY DEF Linearize
<1>2. LineInv' /\ pc' \in {"start", "linearize"} /\ pc \in {"start", "linearize"}
  <2>1. LineInv
    BY DEF OrderInv
  <2>2. CASE \E b \in Block : StartBlock(b)
    BY <2>1, <2>2, StartBlockStep DEF StartBlock
  <2>3. CASE LinearizeNext
    BY <2>1, <2>3, LinearizeNextStep DEF LinearizeNext
  <2>4. CASE LinearizeReturn
    BY <2>1, <2>4, LinearizeReturnStep DEF LinearizeReturn
  <2> QED
    BY <2>2, <2>3, <2>4 DEF Linearize
<1>3. PassInv'
  BY <1>2 DEF PassInv
<1> QED
  BY <1>1, <1>2, <1>3 DEF OrderInv

LEMMA LinearizedOrder ==
    ASSUME OrderInv, Linearized
    PROVE  OrderInv'
<1>1. /\ pc = "start" /\ starts = {} /\ pc' = "propagate" /\ stages' = stages
      /\ UNCHANGED <<numIn, numOut, connections, user, runs>>
  BY DEF Linearized, matrixVars
<1>2. LineAt(stages, <<>>, {})
  BY <1>1 DEF OrderInv, LineInv
<1>3. LineAt(stages, <<>>, {})'
  BY <1>1, <1>2, LineSteady
<1>4. LineInv' /\ PassInv'
  BY <1>1 DEF LineInv, PassInv
<1> QED
  BY <1>1, <1>3, <1>4 DEF OrderInv

LEMMA PropagateOrder ==
    ASSUME PortsInv, OrderInv, Propagate
    PROVE  OrderInv'
<1>1. /\ pc = "propagate" /\ pc' \in {"idle", "propagate", "combine", "aborted"}
      /\ stages' = stages /\ frames' = frames
      /\ UNCHANGED <<numIn, numOut, connections, user, runs>>
  <2>1. UNCHANGED <<user, runs>>
    BY DEF Propagate
  <2>2. CASE PropagateSetup
    BY <2>1, <2>2 DEF PropagateSetup, matrixVars
  <2>3. CASE MakeConnection
    BY <2>1, <2>3 DEF MakeConnection, matrixVars
  <2>4. CASE PropagateNext
    BY <2>1, <2>4 DEF PropagateNext, matrixVars
  <2>5. CASE Propagated
    BY <2>1, <2>5 DEF Propagated, matrixVars
  <2> QED
    BY <2>2, <2>3, <2>4, <2>5 DEF Propagate
<1>2. LineAt(stages, <<>>, {}) /\ runs = 1 /\ user \in Users /\ runs \in 0..user.runs
  BY <1>1 DEF OrderInv
<1>3. LineInv'
  BY <1>1 DEF LineInv
<1>4. CASE pc' # "combine"
  <2>1. PassInv'
    BY <1>1, <1>4 DEF PassInv
  <2>2. LineAt(stages, <<>>, {})'
    BY <1>1, <1>2, LineSteady
  <2> QED
    BY <1>1, <1>2, <1>3, <1>4, <2>1, <2>2 DEF OrderInv
<1>5. CASE pc' = "combine"
  <2>1. Propagated
    BY <1>1, <1>5 DEF Propagate, PropagateSetup, MakeConnection, PropagateNext
  <2>2. curr' = 1 /\ next' = 1
    BY <2>1 DEF Propagated
  <2>3. Sound(stages') /\ CombineAt(stages', curr', next')
    BY <1>1, <1>2, <2>2, LineSound
  <2>4. PassInv'
    BY <1>1, <1>5, <2>3, PassNext
  <2> QED
    BY <1>1, <1>2, <1>3, <1>5, <2>4 DEF OrderInv
<1> QED
  BY <1>4, <1>5

LEMMA PassOrder ==
    ASSUME PortsInv, OrderInv, Pass
    PROVE  OrderInv' /\ pc' # "crashed"
<1>1. UNCHANGED <<numIn, numOut, connections, user, runs>>
  BY DEF Pass
<1>2. PassInv' /\ pc' \in {"combine", "parallelize", "ready"} /\ pc \in {"combine", "parallelize"}
  <2>1. PassInv
    BY DEF OrderInv
  <2>2. CASE CombineAdvance
    BY <1>1, <2>1, <2>2, CombineAdvanceStep DEF CombineAdvance
  <2>3. CASE CombineStage
    BY <1>1, <2>1, <2>3, CombineStageStep DEF CombineStage
  <2>4. CASE ParallelizeStage
    BY <1>1, <2>1, <2>4, ParallelizeStageStep DEF ParallelizeStage
  <2>5. CASE ParallelizeDone
    BY <1>1, <2>1, <2>5, ParallelizeDoneStep DEF ParallelizeDone
  <2> QED
    BY <2>2, <2>3, <2>4, <2>5 DEF Pass
<1>3. LineInv'
  BY <1>2 DEF LineInv
<1> QED
  BY <1>1, <1>2, <1>3 DEF OrderInv

LEMMA RunningOrder ==
    ASSUME OrderInv, InitBlocks \/ Wakeup \/ Finalize
    PROVE  OrderInv'
<1>1. /\ stages' = stages /\ frames' = frames
      /\ UNCHANGED <<numIn, numOut, connections, user, runs>>
      /\ \/ pc = "ready" /\ pc' \in {"running", "aborted"}
         \/ pc = "running" /\ pc' \in {"running", "idle"}
  <2>1. CASE InitBlocks
    BY <2>1 DEF InitBlocks, matrixVars
  <2>2. CASE Wakeup
    <3>1. \A p \in Block : ProcessBlock(p) => /\ pc = "running" /\ pc' = pc
                                              /\ UNCHANGED <<matrixVars, frames>>
      BY DEF ProcessBlock
    <3>2. ExecuteAgain \/ ExecuteNext \/ NextStep => /\ pc = "running" /\ pc' = pc
                                                     /\ UNCHANGED <<matrixVars, frames>>
      BY DEF ExecuteAgain, ExecuteNext, NextStep, StepDone
    <3> QED
      BY <2>2, <3>1, <3>2 DEF Wakeup, matrixVars
  <2>3. CASE Finalize
    BY <2>3 DEF Finalize, StepDone, matrixVars
  <2> QED
    BY <2>1, <2>2, <2>3
<1>2. Sound(stages) /\ runs = 1 /\ user \in Users /\ runs \in 0..user.runs
  BY <1>1 DEF OrderInv, PassInv
<1>3. Sound(stages)'
  BY <1>1, <1>2, SoundNext
<1>4. LineInv' /\ PassInv'
  BY <1>1 DEF LineInv, PassInv
<1> QED
  BY <1>1, <1>2, <1>3, <1>4 DEF OrderInv

LEMMA OrderInvStep == OneRun => (PortsInv /\ OrderInv /\ [Next]_vars => OrderInv')
<1> SUFFICES ASSUME OneRun, PortsInv, OrderInv, [Next]_vars PROVE OrderInv'
  OBVIOUS
<1>1. CASE UNCHANGED vars
  <2>1. /\ pc' = pc /\ curr' = curr /\ next' = next /\ stages' = stages /\ starts' = starts
        /\ frames' = frames /\ UNCHANGED <<numIn, numOut, connections, user, runs>>
    BY <1>1 DEF vars, matrixVars
  <2>2. PassInv'
    BY <2>1, PassNext DEF OrderInv, PassInv
  <2>3. LineInv'
    <3>1. ASSUME pc \in {"start", "linearize"}
          PROVE  LineAt(stages, frames, starts)'
      BY <2>1, <3>1, LineNext DEF OrderInv, LineInv
    <3> QED
      BY <2>1, <3>1 DEF OrderInv, LineInv
  <2>4. pc = "propagate" => LineAt(stages, <<>>, {})'
    BY <2>1, LineSteady DEF OrderInv
  <2>5. pc = "running" => Sound(stages)'
    BY <2>1, SoundNext DEF OrderInv
  <2> QED
    BY <2>1, <2>2, <2>3, <2>4, <2>5 DEF OrderInv
<1>2. CASE \E b \in Block, k \in Kinds : Add(b, k)
  <2>1. /\ pc = "idle" /\ pc' = "idle" /\ stages' = stages /\ frames' = frames
        /\ UNCHANGED <<user, runs>>
    BY <1>2 DEF Add, AddBlockOfKind
  <2> QED
    BY <2>1, IdleOrder
<1>3. CASE \E b, c \in Block, p, q \in 1..MaxPorts : Connect(b, p, c, q)
  <2>1. /\ pc = "idle" /\ pc' = "idle" /\ stages' = stages /\ frames' = frames
        /\ UNCHANGED <<user, runs>>
    BY <1>3 DEF Connect, ConnectPorts
  <2> QED
    BY <2>1, IdleOrder
<1>4. CASE Run
  BY <1>4, RunOrder
<1>5. CASE Linearize
  BY <1>5, LinearizeOrder
<1>6. CASE Linearized
  BY <1>6, LinearizedOrder
<1>7. CASE Propagate
  BY <1>7, PropagateOrder
<1>8. CASE Pass
  BY <1>8, PassOrder
<1>9. CASE InitBlocks \/ Wakeup \/ Finalize
  BY <1>9, RunningOrder
<1> QED
  BY <1>1, <1>2, <1>3, <1>4, <1>5, <1>6, <1>7, <1>8, <1>9 DEF Next, Step, Ended

-----------------------------------------------------------------------------
(* Execution *)

\* The block at place x has been processed in this step.
ProcessedAt(x) == x[1] < curr \/ (x[1] = curr /\ (tested \/ x[3] <= progress[x[2]]))
Processed(b) == \E x \in PlacesIn(stages) : BlockAt(stages, x) = b /\ ProcessedAt(x)
Transfer(c) == <<InOf(c), OutOf(c)>>

\* Blocks have the buffers they use; what has been processed has left its samples in them,
\* and has read what was there to read.
ExecInv ==
    pc = "running" =>
        /\ \A b : Has(stages, b) => HasBuffers(b)
        /\ curr \in Nat /\ curr >= 1
        /\ curr \notin DOMAIN stages => progress = <<>>
        /\ curr \in DOMAIN stages =>
              /\ DOMAIN progress = DOMAIN stages[curr]
              /\ \A p \in DOMAIN progress : progress[p] \in 0..Len(stages[curr][p])
        /\ tested \in BOOLEAN
        /\ DOMAIN holds = 1..buffers
        /\ \A c \in Calls : Processed(c[1]) => holds[outBuf[OutOf(c)]] = OutOf(c)
        /\ Acyclic =>
              /\ \A y \in taken : \E c \in Calls : y = Transfer(c)
              /\ \A c \in Calls : Processed(c[3]) => Transfer(c) \in taken

\* Facts about places while blocks are executed.
LEMMA PlaceNumbers ==
    ASSUME NEW s \in Matrix
    PROVE  /\ Len(s) \in Nat /\ DOMAIN s = 1..Len(s)
           /\ \A x \in PlacesIn(s) :
                 /\ x[1] \in Nat /\ 1 <= x[1] /\ x[1] <= Len(s) /\ x[1] \in DOMAIN s
                 /\ x[2] \in DOMAIN s[x[1]]
                 /\ x[3] \in Nat /\ 1 <= x[3] /\ x[3] <= Len(s[x[1]][x[2]])
                 /\ Len(s[x[1]][x[2]]) \in Nat
<1>1. PICK m \in Nat : m = Len(s) /\ DOMAIN s = 1..m
  BY LenProperties DEF Matrix
<1>2. ASSUME NEW x \in PlacesIn(s)
      PROVE  /\ x[1] \in Nat /\ 1 <= x[1] /\ x[1] <= Len(s) /\ x[1] \in DOMAIN s
             /\ x[2] \in DOMAIN s[x[1]]
             /\ x[3] \in Nat /\ 1 <= x[3] /\ x[3] <= Len(s[x[1]][x[2]])
             /\ Len(s[x[1]][x[2]]) \in Nat
  <2>1. x[1] \in DOMAIN s /\ x[2] \in DOMAIN s[x[1]] /\ x[3] \in DOMAIN s[x[1]][x[2]]
    BY PlaceFacts
  <2>2. PICK l \in Nat : l = Len(s[x[1]][x[2]]) /\ DOMAIN s[x[1]][x[2]] = 1..l
    BY <2>1, MatrixFacts
  <2> QED
    BY <1>1, <2>1, <2>2
<1> QED
  BY <1>1, <1>2

\* What stays the same while blocks are executed.
LEMMA ExecSame ==
    ASSUME UNCHANGED <<numIn, numOut, connections, stages, portVars>>
    PROVE  /\ Calls' = Calls /\ Acyclic' = Acyclic
           /\ \A b : HasBuffers(b)' <=> HasBuffers(b)
           /\ stages' = stages /\ outBuf' = outBuf /\ inBuf' = inBuf /\ buffers' = buffers
           /\ numIn' = numIn /\ numOut' = numOut /\ connections' = connections
BY DEF portVars, Calls, Acyclic, Successors, Connections, HasBuffers

\* Progress at the start of a stage.
LEMMA UnprocessedIs ==
    ASSUME stages \in Matrix, NEW i \in Nat, i >= 1
    PROVE  /\ i \notin DOMAIN stages => Unprocessed(i) = <<>>
           /\ i \in DOMAIN stages =>
                 /\ DOMAIN Unprocessed(i) = DOMAIN stages[i]
                 /\ \A p \in DOMAIN stages[i] : /\ Unprocessed(i)[p] = 0
                                                /\ 0 \in 0..Len(stages[i][p])
<1>1. Len(stages) \in Nat /\ DOMAIN stages = 1..Len(stages)
  BY PlaceNumbers
<1>2. i \in DOMAIN stages <=> i <= Len(stages)
  BY <1>1
<1>3. ASSUME i \in DOMAIN stages, NEW p \in DOMAIN stages[i]
      PROVE  0 \in 0..Len(stages[i][p])
  <2>1. Len(stages[i][p]) \in Nat
    BY <1>3, MatrixFacts
  <2> QED
    BY <2>1
<1> QED
  BY <1>2, <1>3 DEF Unprocessed

\* At the start of a step nothing has been processed.
LEMMA BeginExec ==
    ASSUME SysInv, \A b : Has(stages, b) => HasBuffers(b), BeginStep,
           UNCHANGED <<numIn, numOut, connections, stages, portVars>>
    PROVE  ExecInv'
<1>1. /\ curr' = 1 /\ progress' = Unprocessed(1) /\ tested' = FALSE /\ taken' = {}
      /\ holds' = [n \in 1..buffers |-> Nobody]
  BY DEF BeginStep
<1>2. stages \in Matrix
  BY DEF SysInv, PlacedInv, PlacedAt
<1>3. /\ Calls' = Calls /\ \A b : HasBuffers(b)' <=> HasBuffers(b)
      /\ stages' = stages /\ buffers' = buffers
  BY ExecSame
<1>4. /\ 1 \notin DOMAIN stages => Unprocessed(1) = <<>>
      /\ 1 \in DOMAIN stages =>
            /\ DOMAIN Unprocessed(1) = DOMAIN stages[1]
            /\ \A p \in DOMAIN stages[1] : /\ Unprocessed(1)[p] = 0
                                           /\ 0 \in 0..Len(stages[1][p])
  BY <1>2, UnprocessedIs
<1>5. \A b : ~Processed(b)'
  <2> SUFFICES ASSUME NEW x \in PlacesIn(stages), ProcessedAt(x)'
               PROVE  FALSE
    BY <1>3 DEF Processed
  <2>1. /\ x[1] \in Nat /\ 1 <= x[1] /\ x[1] \in DOMAIN stages /\ x[2] \in DOMAIN stages[x[1]]
        /\ x[3] \in Nat /\ 1 <= x[3]
    BY <1>2, PlaceNumbers
  <2>2. x[1] < 1 \/ (x[1] = 1 /\ x[3] <= Unprocessed(1)[x[2]])
    BY <1>1 DEF ProcessedAt
  <2>3. x[1] = 1 => Unprocessed(1)[x[2]] = 0
    BY <1>4, <2>1
  <2> QED
    BY <2>1, <2>2, <2>3
<1>6. \A b : Has(stages', b) => HasBuffers(b)'
  BY <1>3
<1>7. /\ curr' \notin DOMAIN stages' => progress' = <<>>
      /\ curr' \in DOMAIN stages' =>
            /\ DOMAIN progress' = DOMAIN stages'[curr']
            /\ \A p \in DOMAIN progress' : progress'[p] \in 0..Len(stages'[curr'][p])
  BY <1>1, <1>3, <1>4
<1>8. DOMAIN holds' = 1..buffers' /\ tested' \in BOOLEAN /\ curr' \in Nat /\ curr' >= 1
  <2>1. DOMAIN holds' = 1..buffers
    BY <1>1
  <2>2. tested' = FALSE
    BY <1>1
  <2>3. curr' = 1
    BY <1>1
  <2>4. curr' \in Nat /\ curr' >= 1
    BY <2>3
  <2> QED
    BY <1>3, <2>1, <2>2, <2>4
<1>9. \A b : Has(stages, b)' => HasBuffers(b)'
  BY <1>6 DEF Has
<1> QED
  BY <1>1, <1>5, <1>7, <1>8, <1>9 DEF ExecInv

\* The step that leaves what has been processed, and the buffers, as they are.
LEMMA QuietExec ==
    ASSUME ExecInv, pc = "running",
           UNCHANGED <<numIn, numOut, connections, stages, portVars, holds, taken>>,
           \A x \in PlacesIn(stages) : ProcessedAt(x)' <=> ProcessedAt(x),
           curr' \in Nat, curr' >= 1, tested' \in BOOLEAN,
           curr' \notin DOMAIN stages => progress' = <<>>,
           curr' \in DOMAIN stages =>
                /\ DOMAIN progress' = DOMAIN stages[curr']
                /\ \A p \in DOMAIN progress' : progress'[p] \in 0..Len(stages[curr'][p])
    PROVE  ExecInv'
<1>1. /\ Calls' = Calls /\ Acyclic' = Acyclic /\ \A b : HasBuffers(b)' <=> HasBuffers(b)
      /\ stages' = stages /\ outBuf' = outBuf /\ buffers' = buffers
  BY ExecSame
<1>2. \A b : Processed(b)' <=> Processed(b)
  BY <1>1 DEF Processed
<1>3. \A b : Has(stages, b)' <=> Has(stages, b)
  BY <1>1 DEF Has
<1>4. holds' = holds /\ taken' = taken
  OBVIOUS
<1>5. \A c : Transfer(c)' = Transfer(c)
  BY DEF Transfer, InOf, OutOf
<1> QED
  BY <1>1, <1>2, <1>3, <1>4 DEF ExecInv, Transfer, OutOf, InOf

LEMMA StageDoneIs ==
    ASSUME SysInv, ExecInv, pc = "running", StageDone
    PROVE  /\ curr \in Nat /\ curr >= 1 /\ curr \in DOMAIN stages
           /\ \A x \in PlacesIn(stages) : x[1] = curr => x[3] <= progress[x[2]]
<1>1. stages \in Matrix /\ curr \in Nat /\ curr >= 1 /\ curr <= Len(stages)
  BY DEF SysInv, PlacedInv, PlacedAt, ExecInv, StageDone
<1>2. curr \in DOMAIN stages
  BY <1>1, PlaceNumbers
<1>3. ASSUME NEW x \in PlacesIn(stages), x[1] = curr
      PROVE  x[3] <= progress[x[2]]
  <2>1. x[2] \in DOMAIN stages[curr] /\ x[3] <= Len(stages[curr][x[2]])
    BY <1>1, <1>3, PlaceNumbers
  <2>2. progress[x[2]] = Len(stages[curr][x[2]])
    BY <1>2, <2>1 DEF ExecInv, StageDone
  <2> QED
    BY <2>1, <2>2
<1> QED
  BY <1>1, <1>2, <1>3

LEMMA AgainExec ==
    ASSUME SysInv, ExecInv, ExecuteAgain
    PROVE  ExecInv'
<1>1. /\ pc = "running" /\ StageDone /\ ~tested /\ tested' = TRUE /\ progress' = Unprocessed(curr)
      /\ curr' = curr /\ UNCHANGED <<numIn, numOut, connections, stages, portVars, holds, taken>>
  BY DEF ExecuteAgain, matrixVars
<1>2. /\ curr \in Nat /\ curr >= 1 /\ curr \in DOMAIN stages
      /\ \A x \in PlacesIn(stages) : x[1] = curr => x[3] <= progress[x[2]]
  BY <1>1, StageDoneIs
<1>3. \A x \in PlacesIn(stages) : ProcessedAt(x)' <=> ProcessedAt(x)
  BY <1>1, <1>2 DEF ProcessedAt
<1>4. stages \in Matrix
  BY DEF SysInv, PlacedInv, PlacedAt
<1>5. /\ DOMAIN Unprocessed(curr) = DOMAIN stages[curr]
      /\ \A p \in DOMAIN stages[curr] : /\ Unprocessed(curr)[p] = 0
                                        /\ 0 \in 0..Len(stages[curr][p])
  BY <1>2, <1>4, UnprocessedIs
<1> QED
  BY <1>1, <1>2, <1>3, <1>5, QuietExec

LEMMA NextExec ==
    ASSUME SysInv, ExecInv, ExecuteNext
    PROVE  ExecInv'
<1>1. /\ pc = "running" /\ StageDone /\ tested' = FALSE /\ progress' = Unprocessed(curr + 1)
      /\ curr' = curr + 1
      /\ UNCHANGED <<numIn, numOut, connections, stages, portVars, holds, taken>>
  BY DEF ExecuteNext, matrixVars
<1>2. /\ curr \in Nat /\ curr >= 1 /\ curr \in DOMAIN stages
      /\ \A x \in PlacesIn(stages) : x[1] = curr => x[3] <= progress[x[2]]
  BY <1>1, StageDoneIs
<1>3. stages \in Matrix
  BY DEF SysInv, PlacedInv, PlacedAt
<1> DEFINE n == curr + 1
<1>4. n \in Nat /\ n >= 1 /\ curr' = n /\ progress' = Unprocessed(n)
  BY <1>1, <1>2
<1> HIDE DEF n
<1>5. /\ n \notin DOMAIN stages => Unprocessed(n) = <<>>
      /\ n \in DOMAIN stages =>
            /\ DOMAIN Unprocessed(n) = DOMAIN stages[n]
            /\ \A p \in DOMAIN stages[n] : /\ Unprocessed(n)[p] = 0
                                           /\ 0 \in 0..Len(stages[n][p])
  BY <1>3, <1>4, UnprocessedIs
<1>6. ASSUME NEW x \in PlacesIn(stages)
      PROVE  ProcessedAt(x)' <=> ProcessedAt(x)
  <2>1. /\ x[1] \in Nat /\ x[1] \in DOMAIN stages /\ x[2] \in DOMAIN stages[x[1]]
        /\ x[3] \in Nat /\ 1 <= x[3]
    BY <1>3, PlaceNumbers
  <2>2. ProcessedAt(x) <=> x[1] <= curr
    BY <1>2, <2>1 DEF ProcessedAt
  <2>3. ProcessedAt(x)' <=> x[1] < n \/ (x[1] = n /\ x[3] <= Unprocessed(n)[x[2]])
    BY <1>1, <1>4 DEF ProcessedAt
  <2>4. x[1] = n => Unprocessed(n)[x[2]] = 0
    BY <1>5, <2>1
  <2>5. x[1] < n <=> x[1] <= curr
    BY <1>2, <2>1 DEF n
  <2> QED
    BY <2>1, <2>2, <2>3, <2>4, <2>5
<1> QED
  BY <1>1, <1>4, <1>5, <1>6, QuietExec

\* The call that feeds an input port that has a buffer: it reads what that call's output
\* port writes.
LEMMA FeedingCall ==
    ASSUME SysInv, NEW b \in Block, HasBuffers(b), NEW x \in InputsOf(b)
    PROVE  /\ x \in Ports /\ inBuf[x] # 0
           /\ \E c \in Calls : x = InOf(c) /\ c[3] = b /\ inBuf[x] = outBuf[OutOf(c)]
<1>1. numIn[b] \in 0..MaxPorts /\ MaxPorts \in Nat
  BY BlockPorts, PortBound DEF SysInv, WiringInv
<1>2. PICK q \in 1..numIn[b] : x = <<b, q>>
  BY DEF InputsOf
<1>3. x \in Ports
  BY <1>1, <1>2 DEF Ports
<1>4. inBuf[x] # 0
  BY <1>2 DEF HasBuffers
<1>5. PICK c \in Calls : x = InOf(c)
  BY <1>3, <1>4 DEF SysInv, WiringInv, BufInv
<1>6. inBuf[InOf(c)] = outBuf[OutOf(c)]
  BY DEF SysInv, WiringInv, BufInv
<1>7. c[3] = b
  BY <1>2, <1>5 DEF InOf
<1> QED
  BY <1>3, <1>4, <1>5, <1>6, <1>7

\* The outputs of a block, and the buffers they have alone.
LEMMA OwnBuffers ==
    ASSUME SysInv, NEW b \in Block, HasBuffers(b), NEW x \in OutputsOf(b)
    PROVE  /\ x \in Ports /\ x[1] = b /\ outBuf[x] # 0 /\ outBuf[x] \in 1..buffers
           /\ \A y \in Ports : outBuf[y] = outBuf[x] => y = x
<1>1. numOut[b] \in 0..MaxPorts /\ MaxPorts \in Nat
  BY BlockPorts, PortBound DEF SysInv, WiringInv
<1>2. PICK p \in 1..numOut[b] : x = <<b, p>>
  BY DEF OutputsOf
<1>3. x \in Ports /\ x[1] = b
  BY <1>1, <1>2 DEF Ports
<1>4. outBuf[x] # 0
  BY <1>2 DEF HasBuffers
<1>5. outBuf[x] \in 0..buffers /\ buffers \in Nat
  BY <1>3 DEF SysInv, WiringInv, BufInv
<1> QED
  BY <1>3, <1>4, <1>5 DEF SysInv, WiringInv, BufInv

\* The place of the block that path p goes on with.
LEMMA NextPlace ==
    ASSUME SysInv, ExecInv, pc = "running", NEW p \in DOMAIN progress,
           progress[p] < Len(stages[curr][p])
    PROVE  /\ curr \in DOMAIN stages /\ p \in DOMAIN stages[curr] /\ curr \in Nat
           /\ progress[p] \in Nat
           /\ <<curr, p, progress[p] + 1>> \in PlacesIn(stages)
           /\ BlockAt(stages, <<curr, p, progress[p] + 1>>) = stages[curr][p][progress[p] + 1]
           /\ Has(stages, stages[curr][p][progress[p] + 1])
           /\ stages[curr][p][progress[p] + 1] \in Block
<1>1. stages \in Matrix
  BY DEF SysInv, PlacedInv, PlacedAt
<1>2. curr \in DOMAIN stages
  BY DEF ExecInv
<1>3. /\ p \in DOMAIN stages[curr] /\ progress[p] \in 0..Len(stages[curr][p]) /\ curr \in Nat
  BY <1>2 DEF ExecInv
<1>4. Len(stages[curr][p]) \in Nat /\ DOMAIN stages[curr][p] = 1..Len(stages[curr][p])
  BY <1>1, <1>2, <1>3, MatrixFacts
<1>5. progress[p] \in Nat /\ progress[p] + 1 \in DOMAIN stages[curr][p]
  BY <1>3, <1>4
<1>6. /\ <<curr, p, progress[p] + 1>> \in PlacesIn(stages)
      /\ BlockAt(stages, <<curr, p, progress[p] + 1>>) = stages[curr][p][progress[p] + 1]
  BY <1>2, <1>3, <1>5, PlaceFacts
<1>7. Has(stages, stages[curr][p][progress[p] + 1])
  BY <1>6 DEF Has
<1>8. stages[curr][p][progress[p] + 1] \in Block
  BY <1>7 DEF SysInv, PlacedInv, PlacedAt
<1> QED
  BY <1>2, <1>3, <1>5, <1>6, <1>7, <1>8

\* Without a circle what feeds the next block of a path has been processed.
LEMMA FedBefore ==
    ASSUME SysInv, ExecInv, Sound(stages), pc = "running", Acyclic, NEW p \in DOMAIN progress,
           progress[p] < Len(stages[curr][p]), NEW c \in Calls,
           c[3] = stages[curr][p][progress[p] + 1]
    PROVE  Processed(c[1])
<1> DEFINE n == progress[p] + 1
           x == <<curr, p, n>>
<1>1. /\ curr \in DOMAIN stages /\ p \in DOMAIN stages[curr] /\ curr \in Nat /\ progress[p] \in Nat
      /\ x \in PlacesIn(stages) /\ BlockAt(stages, x) = c[3]
  BY NextPlace
<1>2. c[1] \in Block /\ IsSource(c[1])
  BY PortFacts DEF SysInv
<1>3. Has(stages, c[1])
  BY <1>2 DEF Sound, Reached
<1>4. PICK y \in PlacesIn(stages) : BlockAt(stages, y) = c[1]
  BY <1>3 DEF Has
<1>5. <<c[1], c[3]>> \in connections
  BY DEF SysInv, WiringInv, CallsInv
<1>6. Precedes(y, x)
  BY <1>1, <1>4, <1>5 DEF Sound, OrderedIn
<1>7. stages \in Matrix
  BY DEF Sound
<1>8. y[1] \in Nat /\ y[3] \in Nat
  BY <1>7, PlaceNumbers
<1>9. y[1] < curr \/ (y[1] = curr /\ y[2] = p /\ y[3] < n)
  BY <1>6 DEF Precedes
<1>10. y[1] = curr /\ y[2] = p /\ y[3] < n => y[3] <= progress[y[2]]
  BY <1>1, <1>8
<1>11. ProcessedAt(y)
  BY <1>9, <1>10 DEF ProcessedAt
<1> QED
  BY <1>4, <1>11 DEF Processed

LEMMA ProcessExec ==
    ASSUME SysInv, ExecInv, Sound(stages), NEW p \in Block, ProcessBlock(p)
    PROVE  ExecInv'
<1>1. PICK b : b = stages[curr][p][progress[p] + 1]
  OBVIOUS
<1>2. /\ pc = "running" /\ p \in DOMAIN progress /\ progress[p] < Len(stages[curr][p])
      /\ taken' = taken \cup {<<x, holds[inBuf[x]]>> : x \in InputsOf(b)}
      /\ holds' = Stored(b)
      /\ progress' = [progress EXCEPT ![p] = @ + 1]
      /\ curr' = curr /\ tested' = tested /\ pc' = pc
      /\ UNCHANGED <<numIn, numOut, connections, stages, portVars>>
  BY <1>1 DEF ProcessBlock, matrixVars
<1>3. /\ curr \in DOMAIN stages /\ p \in DOMAIN stages[curr] /\ curr \in Nat /\ progress[p] \in Nat
      /\ <<curr, p, progress[p] + 1>> \in PlacesIn(stages)
      /\ BlockAt(stages, <<curr, p, progress[p] + 1>>) = b
      /\ Has(stages, b) /\ b \in Block
  BY <1>1, <1>2, NextPlace
<1>4. /\ Calls' = Calls /\ Acyclic' = Acyclic /\ \A c : HasBuffers(c)' <=> HasBuffers(c)
      /\ stages' = stages /\ outBuf' = outBuf /\ buffers' = buffers
  BY <1>2, ExecSame
<1>5. stages \in Matrix
  BY DEF Sound
<1>6. HasBuffers(b)
  BY <1>2, <1>3 DEF ExecInv
<1>7. /\ DOMAIN progress = DOMAIN stages[curr] /\ tested \in BOOLEAN /\ curr >= 1
      /\ \A r \in DOMAIN progress : progress[r] \in 0..Len(stages[curr][r])
  BY <1>2, <1>3 DEF ExecInv
<1>8. /\ DOMAIN progress' = DOMAIN progress /\ progress'[p] = progress[p] + 1
      /\ \A r \in DOMAIN progress : r # p => progress'[r] = progress[r]
  BY <1>2
<1>9. \A r \in DOMAIN progress' : progress'[r] \in 0..Len(stages[curr][r])
  <2>1. progress[p] + 1 \in 0..Len(stages[curr][p])
    <3>1. Len(stages[curr][p]) \in Nat
      BY <1>3, <1>5, MatrixFacts
    <3> QED
      BY <1>2, <1>3, <3>1
  <2> QED
    BY <1>7, <1>8, <2>1
\* Processed now: what had been, and b.
<1>10. ASSUME NEW x \in PlacesIn(stages), ProcessedAt(x)'
       PROVE  ProcessedAt(x) \/ BlockAt(stages, x) = b
  <2>1. /\ x = <<x[1], x[2], x[3]>> /\ x[1] \in Nat /\ x[3] \in Nat
        /\ x[1] = curr => x[2] \in DOMAIN progress
    BY <1>5, <1>7, PlaceFacts, PlaceNumbers
  <2>2. x[1] < curr \/ (x[1] = curr /\ (tested \/ x[3] <= progress'[x[2]]))
    BY <1>2, <1>10 DEF ProcessedAt
  <2>3. CASE x[1] < curr \/ (x[1] = curr /\ tested)
    BY <2>3 DEF ProcessedAt
  <2>4. CASE x[1] = curr /\ x[3] <= progress'[x[2]] /\ x[2] # p
    BY <1>8, <2>1, <2>4 DEF ProcessedAt
  <2>5. CASE x[1] = curr /\ x[3] <= progress'[x[2]] /\ x[2] = p
    <3>1. x[3] <= progress[p] \/ x[3] = progress[p] + 1
      BY <1>3, <1>8, <2>1, <2>5
    <3>2. x[3] = progress[p] + 1 => x = <<curr, p, progress[p] + 1>>
      BY <2>1, <2>5
    <3> QED
      BY <1>3, <2>5, <3>1, <3>2 DEF ProcessedAt
  <2> QED
    BY <2>2, <2>3, <2>4, <2>5
<1>11. \A c : Processed(c)' => Processed(c) \/ c = b
  BY <1>4, <1>10 DEF Processed
<1>12. DOMAIN holds' = 1..buffers'
  BY <1>2, <1>4 DEF Stored
<1>13. ASSUME NEW c \in Calls, Processed(c[1])'
       PROVE  holds'[outBuf[OutOf(c)]] = OutOf(c)
  <2>1. OutOf(c) \in Ports /\ OutOf(c) \in sent
    BY <1>2 DEF SysInv, WiringInv, CallsInv, SettledInv, SettledAt
  <2>2. outBuf[OutOf(c)] \in 1..buffers
    <3>1. outBuf[OutOf(c)] # 0 /\ outBuf[OutOf(c)] \in 0..buffers /\ buffers \in Nat
      BY <2>1 DEF SysInv, WiringInv, BufInv
    <3> QED
      BY <3>1
  <2> DEFINE m == outBuf[OutOf(c)]
  <2>3. holds'[m] = IF \E x \in OutputsOf(b) : outBuf[x] = m
                    THEN CHOOSE x \in OutputsOf(b) : outBuf[x] = m
                    ELSE holds[m]
    BY <1>2, <2>2 DEF Stored
  <2>4. \A x \in OutputsOf(b) : outBuf[x] = m => x = OutOf(c)
    BY <1>3, <1>6, <2>1, OwnBuffers
  <2> HIDE DEF m
  <2>5. CASE \E x \in OutputsOf(b) : outBuf[x] = m
    BY <2>3, <2>4, <2>5 DEF m
  <2>6. CASE ~\E x \in OutputsOf(b) : outBuf[x] = m
    <3>1. c[1] # b
      <4> SUFFICES ASSUME c[1] = b PROVE FALSE
        OBVIOUS
      <4>1. c[2] \in Nat /\ 1 <= c[2] /\ c[2] <= numOut[c[1]]
        BY PortFacts DEF SysInv
      <4>2. numOut[b] \in Nat
        BY <1>3 DEF SysInv, WiringInv, KindInv
      <4>3. c[2] \in 1..numOut[b]
        BY <4>1, <4>2
      <4>4. OutOf(c) \in OutputsOf(b)
        BY <4>3 DEF OutOf, OutputsOf
      <4> QED
        BY <2>6, <4>4 DEF m
    <3>2. Processed(c[1])
      BY <1>11, <1>13, <3>1
    <3>3. holds[m] = OutOf(c)
      BY <1>2, <3>2 DEF ExecInv, m
    <3> QED
      BY <2>3, <2>6, <3>3 DEF m
  <2> QED
    BY <2>5, <2>6
<1>14. ASSUME Acyclic, NEW x \in InputsOf(b)
       PROVE  \E c \in Calls : x = InOf(c) /\ <<x, holds[inBuf[x]]>> = Transfer(c)
  <2>1. PICK c \in Calls : x = InOf(c) /\ c[3] = b /\ inBuf[x] = outBuf[OutOf(c)]
    BY <1>3, <1>6, FeedingCall
  <2>2. Processed(c[1])
    BY <1>1, <1>2, <1>14, <2>1, FedBefore
  <2>3. holds[outBuf[OutOf(c)]] = OutOf(c)
    BY <1>2, <2>2 DEF ExecInv
  <2> QED
    BY <2>1, <2>3 DEF Transfer
<1>15. ASSUME Acyclic, NEW y \in taken'
       PROVE  \E c \in Calls : y = Transfer(c)
  <2>1. CASE y \in taken
    BY <1>2, <1>15, <2>1 DEF ExecInv
  <2>2. CASE y \notin taken
    <3>1. PICK x \in InputsOf(b) : y = <<x, holds[inBuf[x]]>>
      BY <1>2, <2>2
    <3> QED
      BY <1>14, <1>15, <3>1
  <2> QED
    BY <2>1, <2>2
<1>16. ASSUME Acyclic, NEW c \in Calls, Processed(c[3])'
       PROVE  Transfer(c) \in taken'
  <2>1. CASE Processed(c[3])
    BY <1>2, <1>16, <2>1 DEF ExecInv
  <2>2. CASE c[3] = b
    <3>1. c[4] \in Nat /\ 1 <= c[4] /\ c[4] <= numIn[c[3]]
      BY PortFacts DEF SysInv
    <3>2. numIn[b] \in Nat
      BY <1>3 DEF SysInv, WiringInv, KindInv
    <3>3. c[4] \in 1..numIn[b]
      BY <2>2, <3>1, <3>2
    <3>4. InOf(c) \in InputsOf(b)
      BY <2>2, <3>3 DEF InOf, InputsOf
    <3>5. PICK d \in Calls : InOf(c) = InOf(d) /\ <<InOf(c), holds[inBuf[InOf(c)]]>> = Transfer(d)
      BY <1>14, <1>16, <3>4
    <3>6. c = d
      BY <3>5 DEF SysInv, WiringInv, CallsInv
    <3> QED
      BY <1>2, <3>4, <3>5, <3>6
  <2> QED
    BY <1>11, <1>16, <2>1, <2>2
<1>17. \A c : Transfer(c)' = Transfer(c) /\ OutOf(c)' = OutOf(c)
  BY DEF Transfer, InOf, OutOf
<1>18. \A c : Has(stages, c)' => HasBuffers(c)'
  BY <1>2, <1>4 DEF ExecInv, Has
<1>19. \A c \in Calls' : Processed(c[1])' => holds'[outBuf'[OutOf(c)]] = OutOf(c)
  BY <1>4, <1>13
<1>20. Acyclic' => /\ \A y \in taken' : \E c \in Calls' : y = Transfer(c)
                   /\ \A c \in Calls' : Processed(c[3])' => Transfer(c) \in taken'
  BY <1>4, <1>15, <1>16
<1> QED
  BY <1>2, <1>3, <1>4, <1>7, <1>8, <1>9, <1>12, <1>17, <1>18, <1>19, <1>20 DEF ExecInv

LEMMA WakeupIs == Wakeup => pc = "running"
<1>1. (\E p \in Block : ProcessBlock(p)) => pc = "running"
  BY DEF ProcessBlock
<1>2. ExecuteAgain \/ ExecuteNext \/ NextStep => pc = "running"
  BY DEF ExecuteAgain, ExecuteNext, NextStep, StepDone
<1> QED
  BY <1>1, <1>2 DEF Wakeup

\* Only init starts to execute blocks.
LEMMA RunningBy ==
    ASSUME [Next]_vars, pc' = "running"
    PROVE  UNCHANGED vars \/ InitBlocks \/ Wakeup
<1>1. (\E b \in Block, k \in Kinds : Add(b, k)) => pc' = "idle"
  BY DEF Add, AddBlockOfKind
<1>2. (\E b, c \in Block, p, q \in 1..MaxPorts : Connect(b, p, c, q)) => pc' = "idle"
  BY DEF Connect, ConnectPorts
<1>3. Run => pc' = "start"
  BY DEF Run
<1>4. Linearize => pc' # "running"
  <2>1. (\E b \in Block : StartBlock(b)) => pc' # "running"
    BY DEF StartBlock
  <2>2. LinearizeNext => pc' # "running"
    BY DEF LinearizeNext
  <2>3. LinearizeReturn => pc' # "running"
    BY DEF LinearizeReturn
  <2> QED
    BY <2>1, <2>2, <2>3 DEF Linearize
<1>5. Linearized => pc' = "propagate"
  BY DEF Linearized
<1>6. Propagate => pc' # "running"
  <2>1. PropagateSetup \/ MakeConnection => pc' # "running"
    BY DEF PropagateSetup, MakeConnection
  <2>2. PropagateNext \/ Propagated => pc' # "running"
    BY DEF PropagateNext, Propagated
  <2> QED
    BY <2>1, <2>2 DEF Propagate
<1>7. Pass => pc' # "running"
  <2>1. CombineAdvance \/ CombineStage => pc' # "running"
    BY DEF CombineAdvance, CombineStage, ToNextStage, SkipNextStage
  <2>2. ParallelizeStage \/ ParallelizeDone => pc' # "running"
    BY DEF ParallelizeStage, ParallelizeDone, ToNextStage
  <2> QED
    BY <2>1, <2>2 DEF Pass
<1>8. Finalize => pc' = "idle"
  BY DEF Finalize
<1> QED
  BY <1>1, <1>2, <1>3, <1>4, <1>5, <1>6, <1>7, <1>8 DEF Next, Step, Ended

LEMMA ExecInvStep ==
    ASSUME SysInv, OrderInv, ExecInv, [Next]_vars
    PROVE  ExecInv'
<1>1. CASE UNCHANGED vars
  <2>1. /\ UNCHANGED <<numIn, numOut, connections, stages, portVars, holds, taken>>
        /\ pc' = pc /\ curr' = curr /\ progress' = progress /\ tested' = tested
    BY <1>1 DEF vars, matrixVars, executionVars
  <2>2. CASE pc # "running"
    BY <2>1, <2>2 DEF ExecInv
  <2>3. CASE pc = "running"
    <3>1. \A x \in PlacesIn(stages) : ProcessedAt(x)' <=> ProcessedAt(x)
      BY <2>1 DEF ProcessedAt
    <3>2. /\ curr \in Nat /\ curr >= 1 /\ tested \in BOOLEAN
          /\ curr \notin DOMAIN stages => progress = <<>>
          /\ curr \in DOMAIN stages =>
                /\ DOMAIN progress = DOMAIN stages[curr]
                /\ \A p \in DOMAIN progress : progress[p] \in 0..Len(stages[curr][p])
      BY <2>3 DEF ExecInv
    <3> QED
      BY <2>1, <2>3, <3>1, <3>2, QuietExec
  <2> QED
    BY <2>2, <2>3
<1>2. CASE pc' # "running"
  BY <1>2 DEF ExecInv
<1>3. CASE pc' = "running" /\ InitBlocks
  <2>1. /\ \A b \in Block : IsPlaced(b) => HasBuffers(b)
        /\ BeginStep
        /\ UNCHANGED <<numIn, numOut, connections, stages, portVars>>
    BY <1>3 DEF InitBlocks, matrixVars
  <2>2. stages \in Matrix /\ \A b : Has(stages, b) => b \in Block
    BY DEF SysInv, PlacedInv, PlacedAt
  <2>3. \A b : Has(stages, b) => HasBuffers(b)
    BY <2>1, <2>2, PlacedIs
  <2> QED
    BY <2>1, <2>3, BeginExec
<1>4. CASE Wakeup
  <2>1. pc = "running"
    BY <1>4, WakeupIs
  <2>2. Sound(stages) /\ \A b : Has(stages, b) => HasBuffers(b)
    BY <2>1 DEF OrderInv, ExecInv
  <2>3. CASE \E p \in Block : ProcessBlock(p)
    BY <2>2, <2>3, ProcessExec
  <2>4. CASE ExecuteAgain
    BY <2>4, AgainExec
  <2>5. CASE ExecuteNext
    BY <2>5, NextExec
  <2>6. CASE NextStep
    <3>1. BeginStep /\ UNCHANGED <<numIn, numOut, connections, stages, portVars>>
      BY <2>6 DEF NextStep, matrixVars
    <3> QED
      BY <2>2, <3>1, BeginExec
  <2> QED
    BY <1>4, <2>3, <2>4, <2>5, <2>6 DEF Wakeup
<1>5. pc' = "running" => UNCHANGED vars \/ InitBlocks \/ Wakeup
  BY RunningBy
<1> QED
  BY <1>1, <1>2, <1>3, <1>4, <1>5

RunInv == SysInv /\ OrderInv /\ ExecInv

LEMMA RunInvAlways == SharedPorts = FALSE /\ OneRun /\ Spec => []RunInv
<1> SUFFICES ASSUME SharedPorts = FALSE, OneRun
             PROVE  Spec => []RunInv
  OBVIOUS
<1>1. Init => RunInv
  <2>1. Init => pc = "idle"
    BY DEF Init
  <2>2. Init => ExecInv
    BY <2>1 DEF ExecInv
  <2> QED
    BY <2>2, SysInvInit, OrderInvInit DEF RunInv
<1>2. RunInv /\ [Next]_vars => RunInv'
  <2> SUFFICES ASSUME RunInv, [Next]_vars PROVE RunInv'
    OBVIOUS
  <2>1. SysInv /\ OrderInv /\ ExecInv /\ PortsInv
    BY WiringPorts DEF RunInv, SysInv
  <2>2. SysInv'
    BY <2>1, SysInvStep
  <2>3. OrderInv'
    BY <2>1, OrderInvStep
  <2>4. ExecInv'
    BY <2>1, ExecInvStep
  <2> QED
    BY <2>2, <2>3, <2>4 DEF RunInv
<1> QED
  BY <1>1, <1>2, PTL DEF Spec

\* In a system without a circle that is run once, and in which no port is connected twice,
\* every input port that is read gets what the port connected to it wrote in this step, and a
\* step ends with every connection having passed its samples on, whatever blocks there are
\* and in what order their threads process them (ExecutionMatrix::wakeup_sys, Stage,
\* PointedThread).
THEOREM SingleRunSamplesDelivered == SharedPorts = FALSE /\ OneRun /\ Spec => []SamplesDelivered
<1> SUFFICES ASSUME SharedPorts = FALSE, OneRun
             PROVE  Spec => []SamplesDelivered
  OBVIOUS
<1>1. RunInv => SamplesDelivered
  <2> SUFFICES ASSUME RunInv, pc = "running", Acyclic
               PROVE  /\ \A x \in taken : \E c \in Calls : x = Transfer(c)
                      /\ StepDone => \A c \in Calls : Transfer(c) \in taken
    BY DEF SamplesDelivered, Transfer, InOf, OutOf
  <2>1. SysInv /\ ExecInv /\ Sound(stages)
    BY DEF RunInv, OrderInv
  <2>2. \A x \in taken : \E c \in Calls : x = Transfer(c)
    BY <2>1 DEF ExecInv
  <2>3. ASSUME StepDone, NEW c \in Calls
        PROVE  Transfer(c) \in taken
    <3>1. <<c[1], c[3]>> \in connections /\ c[1] \in Block /\ c[3] \in Block
      BY <2>1, PortFacts DEF SysInv, WiringInv, CallsInv
    <3>2. Reached(c[3])
      BY <3>1 DEF Reached, Successors, Connections
    <3>3. Has(stages, c[3])
      BY <2>1, <3>1, <3>2 DEF Sound
    <3>4. PICK x \in PlacesIn(stages) : BlockAt(stages, x) = c[3]
      BY <3>3 DEF Has
    <3>5. x[1] \in Nat /\ x[1] <= Len(stages) /\ Len(stages) \in Nat
      BY <2>1, PlaceNumbers DEF Sound
    <3>6. curr \in Nat /\ curr > Len(stages)
      BY <2>1, <2>3 DEF ExecInv, StepDone
    <3>7. x[1] < curr
      BY <3>5, <3>6
    <3>8. Processed(c[3])
      BY <3>4, <3>7 DEF Processed, ProcessedAt
    <3> QED
      BY <2>1, <3>8 DEF ExecInv
  <2> QED
    BY <2>2, <2>3
<1> QED
  BY <1>1, RunInvAlways, PTL

\* In such a system blocks that may be processed at the same time share no buffer that one of
\* them writes, so that the threads of a stage do not race for samples.
THEOREM SingleRunNoRace == SharedPorts = FALSE /\ OneRun /\ Spec => [](Acyclic => NoRace)
<1> SUFFICES ASSUME SharedPorts = FALSE, OneRun
             PROVE  Spec => [](Acyclic => NoRace)
  OBVIOUS
<1>1. RunInv => (Acyclic => NoRace)
  <2> SUFFICES ASSUME RunInv, Acyclic, pc = "running",
                      NEW p \in DOMAIN progress, NEW r \in DOMAIN progress, p # r,
                      progress[p] < Len(stages[curr][p]), progress[r] < Len(stages[curr][r])
               PROVE  LET b == stages[curr][p][progress[p] + 1]
                          c == stages[curr][r][progress[r] + 1]
                      IN WrittenBy(b) \cap (ReadBy(c) \cup WrittenBy(c)) = {}
    BY DEF NoRace
  <2> DEFINE b == stages[curr][p][progress[p] + 1]
             c == stages[curr][r][progress[r] + 1]
             x == <<curr, p, progress[p] + 1>>
             y == <<curr, r, progress[r] + 1>>
  <2>1. SysInv /\ ExecInv /\ Sound(stages)
    BY DEF RunInv, OrderInv
  <2>2. /\ curr \in Nat /\ x \in PlacesIn(stages) /\ BlockAt(stages, x) = b
        /\ Has(stages, b) /\ b \in Block
    BY <2>1, NextPlace
  <2>3. /\ y \in PlacesIn(stages) /\ BlockAt(stages, y) = c
        /\ Has(stages, c) /\ c \in Block
    BY <2>1, NextPlace
  <2>4. HasBuffers(b) /\ HasBuffers(c)
    BY <2>1, <2>2, <2>3 DEF ExecInv
  <2>5. x[1] = curr /\ y[1] = curr /\ x[2] = p /\ y[2] = r
    OBVIOUS
  <2> HIDE DEF b, c, x, y
  <2>6. b # c
    BY <2>1, <2>2, <2>3, <2>5 DEF Sound, DistinctIn
  <2>7. ASSUME NEW v \in WrittenBy(b), v \in WrittenBy(c)
        PROVE  FALSE
    <3>1. PICK z \in OutputsOf(b) : v = outBuf[z]
      BY <2>7 DEF WrittenBy
    <3>2. PICK w \in OutputsOf(c) : v = outBuf[w]
      BY <2>7 DEF WrittenBy
    <3>3. z \in Ports /\ z[1] = b
      BY <2>1, <2>2, <2>4, OwnBuffers
    <3>4. w[1] = c /\ \A u \in Ports : outBuf[u] = outBuf[w] => u = w
      BY <2>1, <2>3, <2>4, OwnBuffers
    <3> QED
      BY <2>6, <3>1, <3>2, <3>3, <3>4
  <2>8. ASSUME NEW v \in WrittenBy(b), v \in ReadBy(c)
        PROVE  FALSE
    <3>1. PICK z \in OutputsOf(b) : v = outBuf[z]
      BY <2>8 DEF WrittenBy
    <3>2. PICK w \in InputsOf(c) : v = inBuf[w]
      BY <2>8 DEF ReadBy
    <3>3. z[1] = b /\ \A u \in Ports : outBuf[u] = outBuf[z] => u = z
      BY <2>1, <2>2, <2>4, OwnBuffers
    <3>4. PICK d \in Calls : d[3] = c /\ inBuf[w] = outBuf[OutOf(d)]
      BY <2>1, <2>3, <2>4, FeedingCall
    <3>5. OutOf(d) \in Ports /\ <<d[1], d[3]>> \in connections
      BY <2>1 DEF SysInv, WiringInv, CallsInv
    <3>6. OutOf(d) = z
      BY <3>1, <3>2, <3>3, <3>4, <3>5
    <3>7. d[1] = b
      BY <3>3, <3>6 DEF OutOf
    <3>8. Precedes(x, y)
      BY <2>1, <2>2, <2>3, <3>4, <3>5, <3>7 DEF Sound, OrderedIn
    <3> QED
      BY <2>2, <2>5, <3>8 DEF Precedes
  <2> QED
    BY <2>7, <2>8 DEF b, c
<1> QED
  BY <1>1, RunInvAlways, PTL

-----------------------------------------------------------------------------
(* Nothing ends the program in the first run of a sound system               *)

\* Blocks without inputs give their outputs all attributes there are.
GeneratorsSet == \A k \in Kinds : k.ins = 0 /\ k.outs > 0 => IsSet(k.out)

\* Without a circle the block that feeds another one has handed its attributes on before.
LEMMA SetupSucceeds ==
    ASSUME GeneratorsSet, SysInv, OrderInv, Complete, Acyclic, PropagateSetup
    PROVE  pc' # "aborted"
<1>1. pc = "propagate" /\ curr <= Len(stages)
  BY DEF PropagateSetup
<1>2. PICK b \in Block : b = BlockOf(stages[curr])
  BY <1>1, PropagationAt
<1>3. curr \in DOMAIN stages /\ CarriedTo(stages, curr, next) /\ stages \in Matrix
  BY <1>1, PropagationAt
<1>4. LineAt(stages, <<>>, {})
  BY <1>1 DEF OrderInv
<1>5. SUFFICES ASSUME IsSource(b), NEW a \in Aspect,
                      OutputAttr(kind[b], inAttr[<<b, 1>>])[a] = Unset
               PROVE  FALSE
  BY <1>1, <1>2 DEF PropagateSetup, IsSet
<1>6. kind[b] \in Kinds /\ kind[b].outs > 0 /\ kind[b].ins \in Nat
  <2>1. numOut[b] > 0
    BY <1>5, BlockPorts DEF SysInv, WiringInv, IsSource
  <2>2. kind[b] \in Kinds /\ kind[b].outs > 0
    BY <2>1, BlockPorts DEF SysInv, WiringInv, KindInv
  <2> QED
    BY <2>2, PortBound DEF Kind
<1>7. kind[b].ins > 0 /\ inAttr[<<b, 1>>][a] = Unset
  <2>1. kind[b].ins = 0 => kind[b].out[a] # Unset
    BY <1>6 DEF GeneratorsSet, IsSet
  <2>2. IF kind[b].out[a] = Unset /\ kind[b].ins > 0
        THEN inAttr[<<b, 1>>][a] = Unset ELSE kind[b].out[a] = Unset
    BY <1>5 DEF OutputAttr
  <2>3. kind[b].ins = 0 \/ kind[b].ins > 0
    BY <1>6
  <2> QED
    BY <2>1, <2>2, <2>3
<1>8. PICK c \in Calls : InOf(c) = <<b, 1>>
  BY <1>7, FirstInput, CompletePorts DEF SysInv
<1>9. c[3] = b /\ c[1] \in Block /\ IsSource(c[1])
  BY <1>8, PortFacts DEF InOf, SysInv
<1>10. <<c[1], b>> \in connections
  BY <1>9 DEF SysInv, WiringInv, CallsInv
<1>11. PICK i \in DOMAIN stages : Only(stages, i) = c[1]
  BY <1>4, <1>9 DEF LineAt, In
<1>12. Only(stages, curr) = b
  BY <1>2, <1>3, HeadIs DEF Only
<1>13. i < curr
  BY <1>3, <1>4, <1>10, <1>11, <1>12 DEF LineAt
<1>14. BlockOf(stages[i]) = c[1]
  BY <1>3, <1>11, HeadIs DEF Only
<1>15. CarriedOut(c[1])
  BY <1>3, <1>13, <1>14 DEF CarriedTo
<1>16. OutOf(c) \in sent
  <2>1. PICK d \in Block : \E j \in DOMAIN calls[d] : c = CallAt(d, j)
    BY CallFacts
  <2>2. PICK j \in DOMAIN calls[d] : c = CallAt(d, j)
    BY <2>1
  <2>3. c[1] = d /\ c[2] = calls[d][j][1]
    BY <2>2 DEF CallAt
  <2> QED
    BY <1>15, <2>2, <2>3 DEF CarriedOut, OutOf
<1>17. IsSet(inAttr[InOf(c)])
  BY <1>16 DEF SysInv, WiringInv, AttrInv, SetUp
<1> QED
  BY <1>7, <1>8, <1>17 DEF IsSet

\* When all calls have been carried out every port of a complete system has its buffer; this
\* is so in every run.
LEMMA InitSucceeds ==
    ASSUME SysInv, Complete, InitBlocks
    PROVE  pc' # "aborted"
<1> SUFFICES ASSUME NEW b \in Block
             PROVE  HasBuffers(b)
  BY DEF InitBlocks
<1>1. \A c \in Calls : /\ OutOf(c) \in sent /\ OutOf(c) \in Ports
                       /\ outBuf[OutOf(c)] # 0 /\ inBuf[InOf(c)] # 0
  <2> SUFFICES ASSUME NEW c \in Calls
               PROVE  /\ OutOf(c) \in sent /\ OutOf(c) \in Ports
                      /\ outBuf[OutOf(c)] # 0 /\ inBuf[InOf(c)] # 0
    OBVIOUS
  <2>1. OutOf(c) \in sent
    BY DEF InitBlocks, SysInv, SettledInv, SettledAt
  <2>2. OutOf(c) \in Ports
    BY DEF SysInv, WiringInv, CallsInv
  <2> QED
    BY <2>1, <2>2 DEF SysInv, WiringInv, BufInv
<1>2. numOut[b] \in 0..MaxPorts /\ numIn[b] \in 0..MaxPorts /\ MaxPorts \in Nat
  BY BlockPorts, PortBound DEF SysInv, WiringInv
<1>3. ASSUME NEW p \in 1..numOut[b]
      PROVE  outBuf[<<b, p>>] # 0
  <2>1. <<b, p>> \in Ports /\ <<b, p>>[2] <= numOut[<<b, p>>[1]]
    BY <1>2 DEF Ports
  <2>2. PICK c \in Calls : OutOf(c) = <<b, p>>
    BY <2>1, CompletePorts DEF SysInv
  <2> QED
    BY <1>1, <2>2
<1>4. ASSUME NEW q \in 1..numIn[b]
      PROVE  inBuf[<<b, q>>] # 0
  <2>1. <<b, q>> \in Ports /\ <<b, q>>[2] <= numIn[<<b, q>>[1]]
    BY <1>2 DEF Ports
  <2>2. PICK c \in Calls : InOf(c) = <<b, q>>
    BY <2>1, CompletePorts DEF SysInv
  <2> QED
    BY <1>1, <2>2
<1> QED
  BY <1>3, <1>4 DEF HasBuffers

\* Two steps may end the program.
LEMMA AbortedBy ==
    ASSUME [Next]_vars, pc' = "aborted"
    PROVE  UNCHANGED vars \/ PropagateSetup \/ InitBlocks
<1>1. (\E b \in Block, k \in Kinds : Add(b, k)) => pc' = "idle"
  BY DEF Add, AddBlockOfKind
<1>2. (\E b, c \in Block, p, q \in 1..MaxPorts : Connect(b, p, c, q)) => pc' = "idle"
  BY DEF Connect, ConnectPorts
<1>3. Run => pc' = "start"
  BY DEF Run
<1>4. Linearize => pc' # "aborted"
  <2>1. (\E b \in Block : StartBlock(b)) => pc' # "aborted"
    BY DEF StartBlock
  <2>2. LinearizeNext \/ LinearizeReturn => pc' # "aborted"
    BY DEF LinearizeNext, LinearizeReturn
  <2> QED
    BY <2>1, <2>2 DEF Linearize
<1>5. Linearized => pc' = "propagate"
  BY DEF Linearized
<1>6. MakeConnection \/ PropagateNext \/ Propagated => pc' # "aborted"
  BY DEF MakeConnection, PropagateNext, Propagated
<1>7. Pass => pc' # "aborted"
  <2>1. CombineAdvance \/ CombineStage => pc' # "aborted"
    BY DEF CombineAdvance, CombineStage, ToNextStage, SkipNextStage
  <2>2. ParallelizeStage \/ ParallelizeDone => pc' # "aborted"
    BY DEF ParallelizeStage, ParallelizeDone, ToNextStage
  <2> QED
    BY <2>1, <2>2 DEF Pass
<1>8. Wakeup => pc' # "aborted"
  <2>1. (\E p \in Block : ProcessBlock(p)) => pc' # "aborted"
    BY DEF ProcessBlock
  <2>2. ExecuteAgain \/ ExecuteNext \/ NextStep => pc' # "aborted"
    BY DEF ExecuteAgain, ExecuteNext, NextStep, StepDone
  <2> QED
    BY <2>1, <2>2 DEF Wakeup
<1>9. Finalize => pc' = "idle"
  BY DEF Finalize
<1> QED
  BY <1>1, <1>2, <1>3, <1>4, <1>5, <1>6, <1>7, <1>8, <1>9 DEF Next, Step, Ended, Propagate

AbortInv == pc = "aborted" => ~(Complete /\ Acyclic)

LEMMA AbortInvStep ==
    ASSUME GeneratorsSet, SysInv, OrderInv, AbortInv, [Next]_vars
    PROVE  AbortInv'
<1> SUFFICES ASSUME pc' = "aborted"
             PROVE  ~(Complete /\ Acyclic)'
  BY DEF AbortInv
<1>1. UNCHANGED vars \/ PropagateSetup \/ InitBlocks
  BY AbortedBy
<1>2. UNCHANGED <<numIn, numOut, connections, calls>>
  BY <1>1 DEF vars, matrixVars, portVars, PropagateSetup, InitBlocks
<1>3. (Complete /\ Acyclic)' <=> Complete /\ Acyclic
  BY <1>2 DEF Complete, OpenPorts, Calls, Acyclic, Successors, Connections
<1>4. ~(Complete /\ Acyclic)
  <2>1. CASE UNCHANGED vars
    BY <2>1 DEF vars, AbortInv
  <2>2. CASE PropagateSetup
    BY <2>2, SetupSucceeds
  <2>3. CASE InitBlocks
    BY <2>3, InitSucceeds
  <2> QED
    BY <1>1, <2>1, <2>2, <2>3
<1> QED
  BY <1>3, <1>4

\* The first run of a system, in which no port is connected twice, starts or fails on the
\* merits of the system alone, if blocks without inputs set all attributes of their outputs:
\* with all ports connected and without a circle nothing ends the program, neither the
\* assertion in SignalAttributePropagation nor a port without a buffer.
THEOREM SingleRunOnItsMerits ==
    SharedPorts = FALSE /\ OneRun /\ GeneratorsSet /\ Spec => []RunsIfConsistent
<1> SUFFICES ASSUME SharedPorts = FALSE, OneRun, GeneratorsSet
             PROVE  Spec => []RunsIfConsistent
  OBVIOUS
<1>1. Init => AbortInv
  BY DEF Init, AbortInv
<1>2. SysInv /\ OrderInv /\ AbortInv /\ [Next]_vars => AbortInv'
  BY AbortInvStep
<1>3. RunInv => SysInv /\ OrderInv
  BY DEF RunInv
<1>4. OnItsMerits /\ AbortInv => RunsIfConsistent
  BY DEF OnItsMerits, AbortInv, RunsIfConsistent
<1> QED
  BY <1>1, <1>2, <1>3, <1>4, RunInvAlways, UnsharedOnItsMerits, PTL DEF Spec
=============================================================================
