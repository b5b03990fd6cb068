-------------------------- MODULE DownlinkProofs --------------------------
(***************************************************************************)
(* What the ground's continuity check is worth, for every number of        *)
(* application processes and every width of the count: all there is to     *)
(* know if the senders count by one, nothing if they count by two.         *)
(***************************************************************************)
EXTENDS Downlink, SequenceTheorems, TLAPS

-----------------------------------------------------------------------------
(* The field holds a number below its modulus, and the flags before it do  *)
(* not change it.                                                          *)
LEMMA SeqOfField ==
    ASSUME NEW a \in Apids, NEW n \in Nat, n >= 1
    PROVE  /\ SeqOf(a, n) \in 0..(SeqMod - 1)
           /\ Preprocessor!SeqField(3 * SeqMod + SeqOf(a, n)) = SeqOf(a, n)
<1>1. (n - 1) * SeqStep[a] + 1 \in Int
  <2>1. SeqStep[a] \in Nat
    BY CountsAssumption
  <2> QED
    BY <2>1
<1>2. SeqOf(a, n) \in 0..(SeqMod - 1)
  BY <1>1, CountsAssumption DEF SeqOf
<1>3. \A s \in 0..(SeqMod - 1) : (3 * SeqMod + s) % SeqMod = s
  BY CountsAssumption
<1> QED
  BY <1>2, <1>3 DEF Preprocessor!SeqField

(* A difference of one modulo M is the next number modulo M.               *)
LEMMA NextCount ==
    ASSUME NEW M \in Nat, M > 1, NEW s \in 0..(M - 1), NEW o \in 0..(M - 1)
    PROVE  (s - o) % M = 1 <=> s = (o + 1) % M
<1>1. CASE s >= o
  <2>1. (s - o) % M = s - o
    BY <1>1
  <2>2. CASE o + 1 < M
    BY <1>1, <2>1, <2>2
  <2>3. CASE o + 1 = M
    <3>1. s = M - 1 /\ (o + 1) % M = 0
      BY <1>1, <2>3
    <3> QED
      BY <2>1, <2>3, <3>1
  <2> QED
    BY <2>2, <2>3
<1>2. CASE s < o
  <2>1. (s - o) % M = s - o + M
    BY <1>2
  <2>2. CASE o + 1 < M
    BY <1>2, <2>1, <2>2
  <2>3. CASE o + 1 = M
    <3>1. (o + 1) % M = 0
      BY <2>3
    <3> QED
      BY <1>2, <2>1, <2>3, <3>1
  <2> QED
    BY <2>2, <2>3
<1> QED
  BY <1>1, <1>2

(* Division with remainder.                                                *)
LEMMA Division ==
    ASSUME NEW x \in Nat, NEW M \in Nat \ {0}
    PROVE  /\ x \div M \in Nat /\ x % M \in Nat
           /\ x = M * (x \div M) + (x % M)
<1> DEFINE q == x \div M
           r == x % M
<1>1. x = M * q + r /\ q \in Nat /\ r \in Nat
  OBVIOUS
<1> QED
  BY <1>1

(* The number after n may be taken before or after reducing it.            *)
LEMMA ModSuccessor ==
    ASSUME NEW M \in Nat, M > 1, NEW n \in Nat
    PROVE  ((n % M) + 1) % M = (n + 1) % M
<1> DEFINE q == n \div M
           r == n % M
<1>1. q \in Nat /\ r \in 0..(M - 1) /\ n = M * q + r
  OBVIOUS
<1> HIDE DEF q, r
<1>2. CASE r + 1 < M
  <2>1. n + 1 = M * q + (r + 1)
    BY <1>1
  <2>2. (n + 1) % M = r + 1
    BY <1>1, <1>2, <2>1
  <2> QED
    BY <1>1, <1>2, <2>2 DEF r
<1>3. CASE r + 1 = M
  <2>1. n + 1 = M * (q + 1)
    BY <1>1, <1>3
  <2>2. (n + 1) % M = 0
    BY <1>1, <2>1
  <2> QED
    BY <1>1, <1>3, <2>2 DEF r
<1> QED
  BY <1>1, <1>2, <1>3

-----------------------------------------------------------------------------
(* The count of a process is that of the last packet passed on, or 0.      *)
LastCount(a) ==
    IF got[a] = <<>> THEN 0 ELSE SeqOf(a, got[a][Len(got[a])])

InOrder(g) == \A i \in 1..Len(g) : g[i] % SeqMod = i % SeqMod

DownInv ==
    /\ TypeOK
    /\ \A a \in Apids : seqCounts[a] = LastCount(a)
    /\ SilenceMeansComplete

(* The preprocessor starts with nothing received and nothing lost.         *)
LEMMA InitDownInv == Init => DownInv
<1> SUFFICES ASSUME Init PROVE DownInv
  OBVIOUS
<1> USE DEF Init, Preprocessor!Init
<1>1. TypeOK
  BY CountsAssumption DEF TypeOK
<1>2. \A a \in Apids : seqCounts[a] = LastCount(a)
  BY DEF LastCount
<1>3. SilenceMeansComplete
  BY DEF SilenceMeansComplete
<1> QED
  BY <1>1, <1>2, <1>3 DEF DownInv

(* A packet released is new on the network and well numbered.              *)
LEMMA ReleaseDownInv ==
    ASSUME DownInv, NEW apid \in Apids, Release(apid)
    PROVE  DownInv'
<1>1. /\ sent \in [Apids -> 0..MaxSent]
      /\ sent[apid] < MaxSent
      /\ sent' = [sent EXCEPT ![apid] = @ + 1]
      /\ network' = network \cup {Packet(apid, sent[apid] + 1)}
      /\ UNCHANGED <<seqCounts, event, got, jumped>>
  BY DEF DownInv, TypeOK, Release
<1>2. sent' \in [Apids -> 0..MaxSent]
  BY <1>1, CountsAssumption
<1>3. \A packet \in network' :
         /\ packet.apid \in Apids /\ packet.n \in 1..sent'[packet.apid]
         /\ packet = Packet(packet.apid, packet.n)
  <2> TAKE packet \in network'
  <2>1. CASE packet \in network
    <3>1. /\ packet.apid \in Apids /\ packet.n \in 1..sent[packet.apid]
          /\ packet = Packet(packet.apid, packet.n)
      BY <2>1 DEF DownInv, TypeOK
    <3>2. sent[packet.apid] <= sent'[packet.apid]
          /\ sent[packet.apid] \in Nat /\ sent'[packet.apid] \in Nat
      BY <1>1, <1>2, <3>1, CountsAssumption
    <3> QED
      BY <3>1, <3>2
  <2>2. CASE packet = Packet(apid, sent[apid] + 1)
    <3>1. packet.apid = apid /\ packet.n = sent[apid] + 1
      BY <2>2 DEF Packet
    <3>2. sent'[apid] = sent[apid] + 1 /\ sent[apid] \in Nat
      BY <1>1, CountsAssumption
    <3> QED
      BY <2>2, <3>1, <3>2
  <2> QED
    BY <1>1, <2>1, <2>2
<1>4. TypeOK'
  BY <1>1, <1>2, <1>3 DEF DownInv, TypeOK
<1> QED
  BY <1>1, <1>4 DEF DownInv, SilenceMeansComplete, LastCount

(* A packet passed on is judged by the one passed on before it.            *)
LEMMA DeliverDownInv ==
    ASSUME DownInv, NEW packet \in network, Deliver(packet)
    PROVE  DownInv'
<1> DEFINE a == packet.apid
           n == packet.n
           g == got[a]
           len == Len(g)
<1>1. /\ a \in Apids /\ n \in 1..MaxSent
      /\ packet.word = 3 * SeqMod + SeqOf(a, n)
  <2>1. a \in Apids /\ n \in 1..sent[a] /\ packet = Packet(a, n)
    BY DEF DownInv, TypeOK
  <2>2. sent[a] \in 0..MaxSent
    BY <2>1 DEF DownInv, TypeOK
  <2>3. packet.word = 3 * SeqMod + SeqOf(a, n)
    BY <2>1 DEF Packet
  <2> QED
    BY <2>1, <2>2, <2>3, CountsAssumption
<1>2. /\ SeqOf(a, n) \in 0..(SeqMod - 1)
      /\ Preprocessor!SeqField(packet.word) = SeqOf(a, n)
  BY <1>1, SeqOfField, CountsAssumption
<1>3. /\ g \in Seq(1..MaxSent) /\ len \in Nat /\ len < MaxGot
      /\ got \in [Apids -> Seq(1..MaxSent)]
      /\ jumped \in [Apids -> BOOLEAN]
      /\ seqCounts \in [Apids -> 0..(SeqMod - 1)]
  BY <1>1 DEF DownInv, TypeOK, Deliver
<1> HIDE DEF a, n, g, len
<1>4. /\ seqCounts' = [seqCounts EXCEPT ![a] = SeqOf(a, n)]
      /\ event' = IF Preprocessor!Jump(seqCounts[a], SeqOf(a, n))
                  THEN "SEQ_COUNT_JUMP" ELSE "none"
      /\ network' \subseteq network
      /\ got' = [got EXCEPT ![a] = Append(g, n)]
      /\ jumped' = [jumped EXCEPT ![a] = @ \/ event' = "SEQ_COUNT_JUMP"]
      /\ sent' = sent
  BY <1>2 DEF Deliver, Preprocessor!process, a, n, g
<1>5. /\ Append(g, n) \in Seq(1..MaxSent)
      /\ Len(Append(g, n)) = len + 1
      /\ Append(g, n)[len + 1] = n
      /\ \A i \in 1..len : Append(g, n)[i] = g[i]
  BY <1>1, <1>3, AppendProperties DEF len
<1>6. TypeOK'
  <2>1. got' \in [Apids -> Seq(1..MaxSent)]
    BY <1>1, <1>3, <1>4, <1>5
  <2>2. \A b \in Apids : Len(got'[b]) <= MaxGot
    <3> TAKE b \in Apids
    <3>1. CASE b = a
      BY <1>1, <1>3, <1>4, <1>5, <3>1, CountsAssumption
    <3>2. CASE b # a
      BY <1>1, <1>3, <1>4, <3>2 DEF DownInv, TypeOK
    <3> QED
      BY <3>1, <3>2
  <2>3. seqCounts' \in [Apids -> 0..(SeqMod - 1)]
    BY <1>2, <1>3, <1>4
  <2>4. jumped' \in [Apids -> BOOLEAN]
    BY <1>3, <1>4
  <2>5. event' \in {"none", "SHORT_PACKET", "SEQ_COUNT_JUMP"}
    BY <1>4
  <2> QED
    BY <1>4, <2>1, <2>2, <2>3, <2>4, <2>5 DEF DownInv, TypeOK
<1>7. \A b \in Apids : seqCounts'[b] = LastCount(b)'
  <2> TAKE b \in Apids
  <2>1. CASE b = a
    <3>1. got'[b] = Append(g, n) /\ Append(g, n) # <<>>
      BY <1>1, <1>3, <1>4, <1>5, <2>1
    <3> QED
      BY <1>1, <1>3, <1>4, <1>5, <2>1, <3>1 DEF LastCount
  <2>2. CASE b # a
    BY <1>1, <1>3, <1>4, <2>2 DEF LastCount, DownInv
  <2> QED
    BY <2>1, <2>2
<1>8. SilenceMeansComplete'
  <2> SUFFICES ASSUME NEW b \in Apids, SeqStep[b] = 1
               PROVE  ~jumped'[b] <=> InOrder(got'[b])
    BY DEF SilenceMeansComplete, InOrder
  <2>1. CASE b # a
    BY <1>1, <1>3, <1>4, <2>1 DEF DownInv, SilenceMeansComplete, InOrder
  <2>2. CASE b = a
    <3>1. got'[a] = Append(g, n)
      BY <1>1, <1>3, <1>4
    <3>2. jumped'[a]
            <=> (jumped[a] \/ (SeqOf(a, n) - seqCounts[a]) % SeqMod # 1)
      BY <1>1, <1>3, <1>4 DEF Preprocessor!Jump
    <3>3. ~jumped[a] <=> InOrder(g)
      BY <1>1, <2>2 DEF DownInv, SilenceMeansComplete, InOrder, g
    <3>4. SeqOf(a, n) = n % SeqMod
      <4>1. SeqStep[a] = 1 /\ n \in Nat
        BY <1>1, <2>2, CountsAssumption
      <4> QED
        BY <4>1 DEF SeqOf
    <3>5. InOrder(Append(g, n)) <=>
             InOrder(g) /\ n % SeqMod = (len + 1) % SeqMod
      <4>1. \A i \in 1..(len + 1) : i \in 1..len \/ i = len + 1
        BY <1>3
      <4>2. len + 1 \in 1..(len + 1) /\ 1..len \subseteq 1..(len + 1)
        BY <1>3
      <4> QED
        BY <1>5, <4>1, <4>2 DEF InOrder, len
    <3>6. CASE InOrder(g)
      <4>1. seqCounts[a] = len % SeqMod
        <5>1. CASE g = <<>>
          <6>1. len = 0 /\ seqCounts[a] = 0
            BY <1>1, <5>1 DEF DownInv, LastCount, g, len
          <6> QED
            BY <6>1, CountsAssumption
        <5>2. CASE g # <<>>
          <6>1. /\ len \in 1..len /\ g[len] \in 1..MaxSent
                /\ seqCounts[a] = SeqOf(a, g[len])
            <7>1. len \in 1..len
              BY <1>3, <5>2 DEF len
            <7>2. g[len] \in 1..MaxSent
              BY <1>3, <7>1, ElementOfSeq DEF len
            <7>3. seqCounts[a] = SeqOf(a, g[len])
              BY <1>1, <5>2 DEF DownInv, LastCount, g, len
            <7> QED
              BY <7>1, <7>2, <7>3
          <6>2. SeqOf(a, g[len]) = g[len] % SeqMod
            <7>1. SeqStep[a] = 1 /\ g[len] \in Nat
              BY <2>2, <6>1, CountsAssumption
            <7> QED
              BY <7>1 DEF SeqOf
          <6> QED
            BY <3>6, <6>1, <6>2 DEF InOrder, len
        <5> QED
          BY <5>1, <5>2
      <4>2. (SeqOf(a, n) - seqCounts[a]) % SeqMod = 1
               <=> SeqOf(a, n) = (seqCounts[a] + 1) % SeqMod
        BY <1>1, <1>2, <1>3, NextCount, CountsAssumption
      <4>3. (seqCounts[a] + 1) % SeqMod = (len + 1) % SeqMod
        BY <1>3, <4>1, ModSuccessor, CountsAssumption
      <4> QED
        BY <2>2, <3>1, <3>2, <3>3, <3>4, <3>5, <3>6, <4>2, <4>3
    <3>7. CASE ~InOrder(g)
      BY <2>2, <3>1, <3>2, <3>3, <3>5, <3>7
    <3> QED
      BY <3>6, <3>7
  <2> QED
    BY <2>1, <2>2
<1> QED
  BY <1>6, <1>7, <1>8 DEF DownInv

(* Every step preserves the invariant; a loss or a short datagram touches  *)
(* neither counts nor history.                                             *)
LEMMA NextDownInv == DownInv /\ [Next]_vars => DownInv'
<1> SUFFICES ASSUME DownInv, [Next]_vars PROVE DownInv'
  OBVIOUS
<1>1. ASSUME NEW apid \in Apids, Release(apid) PROVE DownInv'
  BY <1>1, ReleaseDownInv
<1>2. ASSUME NEW packet \in network, Lose(packet) PROVE DownInv'
  BY <1>2 DEF Lose, DownInv, TypeOK, LastCount, SilenceMeansComplete
<1>3. ASSUME NEW packet \in network, Deliver(packet) PROVE DownInv'
  BY <1>3, DeliverDownInv
<1>4. CASE DeliverShort
  BY <1>4 DEF DeliverShort, Preprocessor!DropShort, DownInv, TypeOK,
              LastCount, SilenceMeansComplete
<1>5. CASE UNCHANGED vars
  BY <1>5 DEF vars, DownInv, TypeOK, LastCount, SilenceMeansComplete
<1> QED
  BY <1>1, <1>2, <1>3, <1>4, <1>5 DEF Next

(* The network carries released packets only, and the counts fit.          *)
THEOREM DownlinkTypeCorrect == Spec => []TypeOK
<1>1. DownInv => TypeOK
  BY DEF DownInv
<1> QED
  BY <1>1, InitDownInv, NextDownInv, PTL DEF Spec

(* Senders that count by one are complete and in order exactly as long as  *)
(* the check of MyPacketPreprocessor is silent, whatever the network does. *)
THEOREM CheckSound == Spec => []SilenceMeansComplete
<1>1. DownInv => SilenceMeansComplete
  BY DEF DownInv
<1> QED
  BY <1>1, InitDownInv, NextDownInv, PTL DEF Spec

-----------------------------------------------------------------------------
(* Two odd numbers are not one apart, modulo an even number either.        *)
LEMMA OddNeverNext ==
    ASSUME NEW M \in Nat, M > 1, M % 2 = 0,
           NEW s \in 0..(M - 1), NEW o \in 0..(M - 1),
           s % 2 = 1, o % 2 = 1
    PROVE  (s - o) % M # 1
<1>1. CASE s >= o
  <2>1. (s - o) % M = s - o
    BY <1>1
  <2>2. s - o # 1
    OBVIOUS
  <2> QED
    BY <2>1, <2>2
<1>2. CASE s < o
  <2>1. (s - o) % M = s - o + M
    BY <1>2
  <2>2. s - o + M # 1
    OBVIOUS
  <2> QED
    BY <2>1, <2>2
<1> QED
  BY <1>1, <1>2

(* With an even width of the field, a sender counting by two has odd       *)
(* counts only.                                                            *)
LEMMA OddCounts ==
    ASSUME NEW a \in Apids, NEW n \in Nat, n >= 1,
           SeqStep[a] = 2, SeqMod % 2 = 0
    PROVE  SeqOf(a, n) % 2 = 1
<1> DEFINE h == SeqMod \div 2
           v == 2 * (n - 1) + 1
           q == v \div SeqMod
<1>1. SeqMod = 2 * h /\ h \in Nat
  BY CountsAssumption
<1>2. SeqOf(a, n) = v % SeqMod
  BY DEF SeqOf
<1> DEFINE rest == v % SeqMod
<1>3. v = SeqMod * q + rest /\ q \in Int /\ rest \in Int
  <2>1. v \in Nat /\ SeqMod \in Nat \ {0}
    BY CountsAssumption
  <2> HIDE DEF v
  <2> QED
    BY <2>1, Division
<1> HIDE DEF h, q, rest
<1>4. PICK p \in Int : p = h * q
  BY <1>1, <1>3
<1>5. SeqMod * q = 2 * p
  BY <1>1, <1>3, <1>4
<1>6. 2 * (n - 1) + 1 = 2 * p + rest
  BY <1>3, <1>5
<1>7. rest = 2 * (n - 1 - p) + 1
  BY <1>3, <1>4, <1>6
<1>8. rest % 2 = 1
  BY <1>4, <1>7
<1> QED
  BY <1>2, <1>8 DEF rest

(* The simulator's counts, two apart in a field of an even number of       *)
(* values: every packet after the first is warned of, lost packets or not. *)
THEOREM CheckTellsNothing == Spec => CheckBlind
<1>1. ASSUME DownInv, [Next]_vars, NEW a \in Apids,
             SeqStep[a] = 2, SeqMod % 2 = 0, got[a] # <<>>, got'[a] # got[a]
      PROVE  event' = "SEQ_COUNT_JUMP"
  <2>1. PICK packet \in network : Deliver(packet)
    BY <1>1 DEF Next, Release, Lose, DeliverShort, vars
  <2>2. got' = [got EXCEPT ![packet.apid] =
                   Append(got[packet.apid], packet.n)]
    BY <2>1 DEF Deliver
  <2>3. packet.apid = a
    BY <1>1, <2>2 DEF DownInv, TypeOK
  <2>4. packet.n \in Nat /\ packet.n >= 1 /\ packet = Packet(a, packet.n)
    <3>1. packet.n \in 1..sent[a] /\ packet = Packet(a, packet.n)
      BY <1>1, <2>1, <2>3 DEF DownInv, TypeOK
    <3>2. sent[a] \in Nat
      BY <1>1, CountsAssumption DEF DownInv, TypeOK
    <3> QED
      BY <3>1, <3>2
  <2>5. /\ SeqOf(a, packet.n) \in Nat /\ SeqOf(a, packet.n) % 2 = 1
        /\ Preprocessor!SeqField(packet.word) = SeqOf(a, packet.n)
    <3>1. packet.word = 3 * SeqMod + SeqOf(a, packet.n)
      BY <2>4 DEF Packet
    <3>2. SeqOf(a, packet.n) % 2 = 1
      BY <1>1, <2>4, OddCounts
    <3>3. /\ SeqOf(a, packet.n) \in 0..(SeqMod - 1)
          /\ Preprocessor!SeqField(3 * SeqMod + SeqOf(a, packet.n))
                = SeqOf(a, packet.n)
      BY <2>4, SeqOfField
    <3> QED
      BY <3>1, <3>2, <3>3, CountsAssumption
  <2>6. seqCounts[a] \in Nat /\ seqCounts[a] % 2 = 1
    <3> DEFINE m == got[a][Len(got[a])]
    <3>1. m \in 1..MaxSent /\ seqCounts[a] = SeqOf(a, m)
      <4>1. got[a] \in Seq(1..MaxSent)
        BY <1>1 DEF DownInv, TypeOK
      <4>2. seqCounts[a] = SeqOf(a, m)
        BY <1>1 DEF DownInv, LastCount
      <4>3. Len(got[a]) \in 1..Len(got[a])
        BY <1>1, <4>1
      <4>4. m \in 1..MaxSent
        BY <4>1, <4>3, ElementOfSeq
      <4> QED
        BY <4>2, <4>4
    <3> HIDE DEF m
    <3>2. m \in Nat /\ m >= 1
      BY <3>1, CountsAssumption
    <3>3. SeqOf(a, m) % 2 = 1
      BY <1>1, <3>2, OddCounts
    <3>4. SeqOf(a, m) \in 0..(SeqMod - 1)
      BY <3>2, SeqOfField
    <3> QED
      BY <3>1, <3>3, <3>4, CountsAssumption
  <2>7. Preprocessor!Jump(seqCounts[a], SeqOf(a, packet.n))
    <3>1. /\ SeqOf(a, packet.n) \in 0..(SeqMod - 1)
          /\ seqCounts[a] \in 0..(SeqMod - 1)
      BY <1>1, <2>4, SeqOfField DEF DownInv, TypeOK
    <3> QED
      <4> DEFINE s == SeqOf(a, packet.n)
                 o == seqCounts[a]
      <4>1. /\ s \in 0..(SeqMod - 1) /\ o \in 0..(SeqMod - 1)
            /\ s % 2 = 1 /\ o % 2 = 1 /\ SeqMod % 2 = 0
        BY <1>1, <2>5, <2>6, <3>1
      <4> HIDE DEF s, o
      <4>2. (s - o) % SeqMod # 1
        BY <4>1, OddNeverNext, CountsAssumption
      <4> QED
        BY <4>2 DEF Preprocessor!Jump, s, o
  <2> QED
    BY <2>1, <2>3, <2>5, <2>7 DEF Deliver, Preprocessor!process
<1>2. DownInv /\ [Next]_vars =>
         [\A apid \in Apids :
             /\ SeqStep[apid] = 2 /\ SeqMod % 2 = 0
             /\ got[apid] # <<>> /\ got'[apid] # got[apid]
             => event' = "SEQ_COUNT_JUMP"]_vars
  BY <1>1
<1> QED
  BY <1>2, InitDownInv, NextDownInv, PTL DEF Spec, CheckBlind
=============================================================================
