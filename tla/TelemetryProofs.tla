-------------------------- MODULE TelemetryProofs --------------------------
(***************************************************************************)
(* Every report is read back as it was meant, whatever the static buffers  *)
(* held before, and the counters tell how many there were: for every base, *)
(* every size of the buffers and every checksum.                           *)
(***************************************************************************)
EXTENDS Telemetry, SequenceTheorems, TLAPS

Byte == 0..(Base - 1)

-----------------------------------------------------------------------------
(* The two digits of a word.                                               *)
LEMMA Digits ==
    ASSUME NEW w \in Nat
    PROVE  /\ Hi(w) \in Nat /\ Lo(w) \in Byte
           /\ Hi(w) * Base + Lo(w) = w
           /\ w \in Word => Hi(w) \in Byte
<1> DEFINE q == w \div Base
           r == w % Base
<1>1. /\ q \in Nat /\ r \in 0..(Base - 1)
      /\ w = Base * q + r
  BY SizesAssumption
<1> HIDE DEF q, r
<1>2. Base * q = q * Base
  BY <1>1, SizesAssumption
<1>3. ASSUME w < Base * Base PROVE q < Base
  <2> SUFFICES ASSUME q >= Base PROVE FALSE
    BY <1>1, SizesAssumption
  <2>1. Base * q >= Base * Base
    BY <1>1, SizesAssumption
  <2>2. Base * q \in Nat /\ Base * Base \in Nat
    BY <1>1, SizesAssumption
  <2> QED
    BY <1>1, <1>3, <2>1, <2>2
<1>4. w \in Word => w < Base * Base
  <2>1. Base * Base \in Nat
    BY SizesAssumption
  <2> QED
    BY <2>1 DEF Word, WordMod
<1>5. Hi(w) = q /\ Lo(w) = r
  BY DEF q, r, Hi, Lo
<1> QED
  BY <1>1, <1>2, <1>3, <1>4, <1>5, SizesAssumption DEF Byte

(* The bytes of words, and the words of the bytes.                         *)
LEMMA BytesOfWords ==
    ASSUME NEW n \in Nat, NEW words, words \in [1..n -> Nat]
    PROVE  /\ Bytes(words) \in Seq(Nat) /\ Len(Bytes(words)) = 2 * n
           /\ \A k \in 1..n :
                 Bytes(words)[2 * k - 1] * Base + Bytes(words)[2 * k]
                   = words[k]
           /\ words \in [1..n -> Word] => Bytes(words) \in Seq(Byte)
<1>1. words \in Seq(Nat) /\ Len(words) = n
  OBVIOUS
<1> DEFINE bs == [i \in 1..(2 * n) |-> IF i % 2 = 1
                                       THEN Hi(words[(i + 1) \div 2])
                                       ELSE Lo(words[i \div 2])]
<1>2. Bytes(words) = bs
  BY <1>1 DEF Bytes
<1>3. ASSUME NEW i \in 1..(2 * n)
      PROVE  /\ i % 2 = 1 => (i + 1) \div 2 \in 1..n
             /\ i % 2 # 1 => i \div 2 \in 1..n
  OBVIOUS
<1>4. ASSUME NEW i \in 1..(2 * n)
      PROVE  bs[i] \in Nat /\ (words \in [1..n -> Word] => bs[i] \in Byte)
  <2>1. CASE i % 2 = 1
    <3>1. words[(i + 1) \div 2] \in Nat
      BY <1>3, <2>1
    <3>2. words \in [1..n -> Word] => words[(i + 1) \div 2] \in Word
      BY <1>3, <2>1
    <3> QED
      BY <2>1, <3>1, <3>2, Digits
  <2>2. CASE i % 2 # 1
    <3>1. words[i \div 2] \in Nat
      BY <1>3, <2>2
    <3>2. Lo(words[i \div 2]) \in Byte
      BY <3>1, Digits
    <3> QED
      BY <2>2, <3>2, SizesAssumption DEF Byte
  <2> QED
    BY <2>1, <2>2
<1>5. bs \in Seq(Nat) /\ Len(bs) = 2 * n
  BY <1>4
<1>6. words \in [1..n -> Word] => bs \in Seq(Byte)
  <2> SUFFICES ASSUME words \in [1..n -> Word] PROVE bs \in Seq(Byte)
    OBVIOUS
  <2>1. bs \in [1..(2 * n) -> Byte]
    BY <1>4
  <2> HIDE DEF bs
  <2> QED
    BY <2>1
<1>7. ASSUME NEW k \in 1..n
      PROVE  bs[2 * k - 1] * Base + bs[2 * k] = words[k]
  <2>1. /\ 2 * k - 1 \in 1..(2 * n) /\ 2 * k \in 1..(2 * n)
        /\ (2 * k - 1) % 2 = 1 /\ (2 * k) % 2 # 1
        /\ ((2 * k - 1) + 1) \div 2 = k /\ (2 * k) \div 2 = k
    OBVIOUS
  <2>2. bs[2 * k - 1] = Hi(words[k]) /\ bs[2 * k] = Lo(words[k])
    BY <2>1
  <2>3. words[k] \in Nat
    OBVIOUS
  <2> HIDE DEF bs
  <2> QED
    BY <2>2, <2>3, Digits
<1> HIDE DEF bs
<1> QED
  BY <1>2, <1>5, <1>6, <1>7

(* What is written into a buffer is read from it again.                    *)
LEMMA WrittenIsRead ==
    ASSUME NEW S, NEW buffer \in Seq(S), Len(buffer) = BufferSize,
           NEW bytes \in Seq(S), Len(bytes) <= BufferSize
    PROVE  /\ Overwrite(buffer, bytes) \in Seq(S)
           /\ Len(Overwrite(buffer, bytes)) = BufferSize
           /\ First(Overwrite(buffer, bytes), Len(bytes)) = bytes
<1> DEFINE rest == SubSeq(buffer, Len(bytes) + 1, BufferSize)
<1>1. Len(bytes) \in Nat /\ BufferSize \in Nat
  BY SizesAssumption
<1>2. \A i \in (Len(bytes) + 1)..BufferSize : buffer[i] \in S
  BY <1>1, ElementOfSeq
<1>3. rest \in Seq(S) /\ Len(rest) = BufferSize - Len(bytes)
  BY <1>1, <1>2, SubSeqProperties
<1> HIDE DEF rest
<1>4. /\ bytes \o rest \in Seq(S) /\ Len(bytes \o rest) = BufferSize
      /\ \A i \in 1..Len(bytes) : (bytes \o rest)[i] = bytes[i]
  BY <1>1, <1>3, ConcatProperties
<1>5. SubSeq(bytes \o rest, 1, Len(bytes)) = bytes
  <2>1. \A i \in 1..Len(bytes) : (bytes \o rest)[i] \in S
    BY <1>4, ElementOfSeq
  <2>2. /\ SubSeq(bytes \o rest, 1, Len(bytes)) \in Seq(S)
        /\ Len(SubSeq(bytes \o rest, 1, Len(bytes))) = Len(bytes)
        /\ \A i \in 1..Len(bytes) :
              SubSeq(bytes \o rest, 1, Len(bytes))[i] = (bytes \o rest)[i]
    BY <1>1, <2>1, SubSeqProperties
  <2> QED
    BY <1>4, <2>2, SeqEqual
<1> QED
  BY <1>4, <1>5 DEF Overwrite, First, rest

-----------------------------------------------------------------------------
(* A function on the first numbers is a sequence.                          *)
LEMMA FunctionIsSeq ==
    ASSUME NEW S, NEW n \in Nat, NEW f \in [1..n -> S]
    PROVE  f \in Seq(S) /\ Len(f) = n
OBVIOUS

(* Two sequences, one after the other.                                     *)
LEMMA Glue ==
    ASSUME NEW S, NEW s \in Seq(S), NEW t \in Seq(S)
    PROVE  /\ s \o t \in Seq(S) /\ Len(s \o t) = Len(s) + Len(t)
           /\ \A i \in 1..Len(s) : (s \o t)[i] = s[i]
           /\ \A i \in 1..Len(t) : (s \o t)[Len(s) + i] = t[i]
<1>1. /\ s \o t \in Seq(S) /\ Len(s \o t) = Len(s) + Len(t)
      /\ \A i \in 1..Len(s) + Len(t) :
            (s \o t)[i] = IF i <= Len(s) THEN s[i] ELSE t[i - Len(s)]
  BY ConcatProperties
<1>2. ASSUME NEW i \in 1..Len(s) PROVE (s \o t)[i] = s[i]
  BY <1>1
<1>3. ASSUME NEW i \in 1..Len(t) PROVE (s \o t)[Len(s) + i] = t[i]
  <2>1. /\ Len(s) + i \in 1..(Len(s) + Len(t)) /\ ~(Len(s) + i <= Len(s))
        /\ (Len(s) + i) - Len(s) = i
    OBVIOUS
  <2> QED
    BY <1>1, <2>1
<1> QED
  BY <1>1, <1>2, <1>3

-----------------------------------------------------------------------------
(* The parts of a frame, one after the other.                              *)
LEMMA FrameParts ==
    ASSUME NEW S, NEW a \in Seq(S), NEW b \in Seq(S), NEW p \in Seq(S),
           NEW t \in Seq(S), NEW d \in Seq(S),
           NEW frame, frame = (((a \o b) \o p) \o t) \o d
    PROVE  LET front == ((Len(a) + Len(b)) + Len(p)) + Len(t)
           IN  /\ frame \in Seq(S) /\ Len(frame) = front + Len(d)
               /\ \A i \in 1..Len(a) : frame[i] = a[i]
               /\ \A i \in 1..Len(b) : frame[Len(a) + i] = b[i]
               /\ \A i \in 1..Len(t) :
                     frame[((Len(a) + Len(b)) + Len(p)) + i] = t[i]
               /\ \A j \in 1..Len(d) : frame[front + j] = d[j]
<1>1. PICK ab : ab = a \o b
  OBVIOUS
<1>2. /\ ab \in Seq(S) /\ Len(ab) = Len(a) + Len(b)
      /\ \A i \in 1..Len(a) : ab[i] = a[i]
      /\ \A i \in 1..Len(b) : ab[Len(a) + i] = b[i]
  BY <1>1, Glue
<1>3. PICK abp : abp = ab \o p
  OBVIOUS
<1>4. /\ abp \in Seq(S) /\ Len(abp) = Len(ab) + Len(p)
      /\ \A i \in 1..Len(ab) : abp[i] = ab[i]
  <2>1. ab \in Seq(S)
    BY <1>2
  <2> QED
    BY ONLY <2>1, p \in Seq(S), <1>3, Glue
<1>5. PICK abpt : abpt = abp \o t
  OBVIOUS
<1>6. /\ abpt \in Seq(S) /\ Len(abpt) = Len(abp) + Len(t)
      /\ \A i \in 1..Len(abp) : abpt[i] = abp[i]
      /\ \A i \in 1..Len(t) : abpt[Len(abp) + i] = t[i]
  <2>1. abp \in Seq(S)
    BY <1>4
  <2> QED
    BY ONLY <2>1, t \in Seq(S), <1>5, Glue
<1>7. frame = abpt \o d
  BY <1>1, <1>3, <1>5
<1>8. /\ frame \in Seq(S) /\ Len(frame) = Len(abpt) + Len(d)
      /\ \A i \in 1..Len(abpt) : frame[i] = abpt[i]
      /\ \A i \in 1..Len(d) : frame[Len(abpt) + i] = d[i]
  <2>1. abpt \in Seq(S)
    BY <1>6
  <2> QED
    BY ONLY <2>1, d \in Seq(S), <1>7, Glue
<1>9. /\ Len(a) \in Nat /\ Len(b) \in Nat /\ Len(p) \in Nat /\ Len(t) \in Nat
      /\ Len(abpt) = ((Len(a) + Len(b)) + Len(p)) + Len(t)
  BY <1>2, <1>4, <1>6
<1>10. ASSUME NEW i \in 1..Len(ab) PROVE frame[i] = ab[i]
  <2>1. i \in 1..Len(abp) /\ i \in 1..Len(abpt)
    BY <1>2, <1>4, <1>6, <1>9
  <2> QED
    BY <2>1, <1>4, <1>6, <1>8
<1>11. ASSUME NEW i \in 1..Len(a) PROVE frame[i] = a[i]
  BY <1>2, <1>9, <1>10
<1>12. ASSUME NEW i \in 1..Len(b) PROVE frame[Len(a) + i] = b[i]
  <2>1. Len(a) + i \in 1..Len(ab)
    BY <1>2, <1>9
  <2> QED
    BY <2>1, <1>2, <1>10
<1>13. ASSUME NEW i \in 1..Len(t)
       PROVE  frame[((Len(a) + Len(b)) + Len(p)) + i] = t[i]
  <2>1. Len(abp) = (Len(a) + Len(b)) + Len(p) /\ Len(abp) \in Nat
    BY <1>2, <1>4, <1>9
  <2>2. Len(abp) + i \in 1..Len(abpt)
    BY <1>6, <1>9, <2>1
  <2>3. frame[Len(abp) + i] = abpt[Len(abp) + i]
    BY <1>8, <2>2
  <2> QED
    BY <1>6, <2>1, <2>3
<1> QED
  BY <1>8, <1>9, <1>11, <1>12, <1>13

(* A frame has eleven bytes of header, and the data behind them.           *)
LEMMA FrameFacts ==
    ASSUME pus_time \in [1..18 -> Byte],
           NEW type \in Types, NEW counter \in Word, NEW data \in Seq(Byte)
    PROVE  LET frame == buildPUSFrame(type, counter, data)
           IN  /\ frame \in Seq(Nat) /\ Len(frame) = 11 + Len(data)
               /\ frame[1] = 33 /\ <<frame[2], frame[3]>> = type
               /\ frame[4] * Base + frame[5] = counter
               /\ \A i \in 1..3 : frame[8 + i] = SentTime[i]
               /\ \A j \in 1..Len(data) : frame[11 + j] = data[j]
<1> DEFINE a == <<2 * 16 + 1, type[1], type[2]>>
           b == Bytes(<<counter, 0>>)
           p == <<buildpField>>
<1>1. /\ a \in Seq(Nat) /\ Len(a) = 3
      /\ a[1] = 33 /\ <<a[2], a[3]>> = type
  BY DEF Types
<1>2. b \in Seq(Nat) /\ Len(b) = 4 /\ b[1] * Base + b[2] = counter
  <2> DEFINE ws == <<counter, 0>>
  <2>1. ws \in [1..2 -> Nat] /\ ws[1] = counter
    BY SizesAssumption DEF Word, WordMod
  <2> HIDE DEF ws
  <2>2. /\ Bytes(ws) \in Seq(Nat) /\ Len(Bytes(ws)) = 2 * 2
        /\ \A k \in 1..2 : Bytes(ws)[2 * k - 1] * Base + Bytes(ws)[2 * k]
                             = ws[k]
    BY <2>1, BytesOfWords
  <2>3. Bytes(ws)[2 * 1 - 1] * Base + Bytes(ws)[2 * 1] = ws[1]
    BY <2>2
  <2>4. 2 * 1 - 1 = 1 /\ 2 * 1 = 2 /\ 2 * 2 = 4
    OBVIOUS
  <2> QED
    BY <2>1, <2>2, <2>3, <2>4 DEF ws
<1>3. p \in Seq(Nat) /\ Len(p) = 1
  <2>1. buildpField \in Nat
    BY SizesAssumption DEF buildpField
  <2> QED
    BY <2>1
<1>4. SentTime \in Seq(Nat) /\ Len(SentTime) = 3
  <2>1. Byte \subseteq Nat
    BY SizesAssumption DEF Byte
  <2>2. /\ NUM_COARSE_BYTES \in 1..4 /\ NUM_FINE_BYTES \in 0..3
        /\ NUM_COARSE_BYTES + NUM_FINE_BYTES = 3
    BY SizesAssumption, TimeAssumption
  <2>3. ASSUME NEW i \in 1..3
        PROVE  (IF i <= NUM_COARSE_BYTES THEN pus_time[i]
                ELSE pus_time[8 + i]) \in Nat
    <3>1. i \in 1..18 /\ 8 + i \in 1..18
      OBVIOUS
    <3>2. pus_time[i] \in Byte /\ pus_time[8 + i] \in Byte
      BY <3>1
    <3> QED
      BY <2>1, <3>2
  <2> DEFINE st == [i \in 1..3 |-> IF i <= NUM_COARSE_BYTES THEN pus_time[i]
                                   ELSE pus_time[8 + i]]
  <2>4. st \in [1..3 -> Nat]
    BY <2>3
  <2>5. SentTime = st
    BY <2>2 DEF SentTime
  <2> HIDE DEF st
  <2>6. st \in Seq(Nat) /\ Len(st) = 3
    <3>1. PICK n \in Nat : n = 3
      OBVIOUS
    <3>2. st \in [1..n -> Nat]
      BY <2>4, <3>1
    <3>3. st \in Seq(Nat) /\ Len(st) = n
      BY ONLY <3>2, n \in Nat, FunctionIsSeq
    <3> QED
      BY <3>1, <3>3
  <2> QED
    BY <2>5, <2>6
<1>5. data \in Seq(Nat)
  <2>1. Byte \subseteq Nat
    BY SizesAssumption DEF Byte
  <2> QED
    BY <2>1, SeqMonotonic
<1>6. buildPUSFrame(type, counter, data)
        = (((a \o b) \o p) \o SentTime) \o data
  BY DEF buildPUSFrame
<1> HIDE DEF a, b, p
<1>7. PICK frame : frame = (((a \o b) \o p) \o SentTime) \o data
  OBVIOUS
<1>8. LET front == ((Len(a) + Len(b)) + Len(p)) + Len(SentTime)
      IN  /\ frame \in Seq(Nat) /\ Len(frame) = front + Len(data)
          /\ \A i \in 1..Len(a) : frame[i] = a[i]
          /\ \A i \in 1..Len(b) : frame[Len(a) + i] = b[i]
          /\ \A i \in 1..Len(SentTime) :
                frame[((Len(a) + Len(b)) + Len(p)) + i] = SentTime[i]
          /\ \A j \in 1..Len(data) : frame[front + j] = data[j]
  <2>1. a \in Seq(Nat) /\ b \in Seq(Nat) /\ p \in Seq(Nat)
    BY <1>1, <1>2, <1>3
  <2>2. SentTime \in Seq(Nat)
    BY <1>4
  <2> QED
    BY ONLY <2>1, <2>2, <1>5, <1>7, FrameParts, SMTT(60)
<1>9. /\ Len(a) = 3 /\ Len(b) = 4
      /\ ((Len(a) + Len(b)) + Len(p)) + Len(SentTime) = 11
      /\ (Len(a) + Len(b)) + Len(p) = 8 /\ Len(SentTime) = 3
  BY <1>1, <1>2, <1>3, <1>4
<1>10. frame \in Seq(Nat) /\ Len(frame) = 11 + Len(data)
  BY <1>8, <1>9
<1>11. \A j \in 1..Len(data) : frame[11 + j] = data[j]
  BY <1>8, <1>9
<1>12. frame[1] = a[1] /\ frame[2] = a[2] /\ frame[3] = a[3]
  BY <1>8, <1>9
<1>13. frame[4] = b[1] /\ frame[5] = b[2]
  <2>1. frame[Len(a) + 1] = b[1] /\ frame[Len(a) + 2] = b[2]
    BY <1>8, <1>9
  <2> QED
    BY <1>9, <2>1
<1>14. \A i \in 1..3 : frame[8 + i] = SentTime[i]
  BY <1>8, <1>9
<1> QED
  BY <1>1, <1>2, <1>6, <1>7, <1>10, <1>11, <1>12, <1>13, <1>14

-----------------------------------------------------------------------------
(* A packet: header, data, checksum.                                       *)
LEMMA PacketParts ==
    ASSUME NEW S, NEW h \in Seq(S), NEW f \in Seq(S), NEW c \in Seq(S),
           NEW packet, packet = (h \o f) \o c
    PROVE  /\ packet \in Seq(S)
           /\ Len(packet) = (Len(h) + Len(f)) + Len(c)
           /\ \A i \in 1..Len(h) : packet[i] = h[i]
           /\ \A i \in 1..Len(f) : packet[Len(h) + i] = f[i]
           /\ SubSeq(packet, 1, Len(h) + Len(f)) = h \o f
           /\ SubSeq(packet, (Len(h) + Len(f)) + 1, Len(packet)) = c
<1>1. PICK hf : hf = h \o f
  OBVIOUS
<1>2. /\ hf \in Seq(S) /\ Len(hf) = Len(h) + Len(f)
      /\ \A i \in 1..Len(h) : hf[i] = h[i]
      /\ \A i \in 1..Len(f) : hf[Len(h) + i] = f[i]
  BY <1>1, Glue
<1>3. packet = hf \o c
  BY <1>1
<1>4. /\ packet \in Seq(S) /\ Len(packet) = Len(hf) + Len(c)
      /\ \A i \in 1..Len(hf) : packet[i] = hf[i]
      /\ \A i \in 1..Len(c) : packet[Len(hf) + i] = c[i]
  <2>1. hf \in Seq(S)
    BY <1>2
  <2> QED
    BY ONLY <2>1, c \in Seq(S), <1>3, Glue
<1>5. /\ Len(h) \in Nat /\ Len(f) \in Nat /\ Len(c) \in Nat
      /\ Len(hf) \in Nat /\ Len(packet) \in Nat
  BY <1>2, <1>4
<1>6. ASSUME NEW i \in 1..Len(h) PROVE packet[i] = h[i]
  <2>1. i \in 1..Len(hf)
    BY <1>2, <1>5
  <2> QED
    BY <2>1, <1>2, <1>4
<1>7. ASSUME NEW i \in 1..Len(f) PROVE packet[Len(h) + i] = f[i]
  <2>1. Len(h) + i \in 1..Len(hf)
    BY <1>2, <1>5
  <2> QED
    BY <2>1, <1>2, <1>4
<1>8. \A i \in 1..Len(packet) : packet[i] \in S
  BY <1>4, ElementOfSeq
<1>9. SubSeq(packet, 1, Len(hf)) = hf
  <2> DEFINE n == Len(hf)
             head == SubSeq(packet, 1, n)
  <2>1. n \in Int /\ \A i \in 1..n : packet[i] \in S
    BY <1>4, <1>5, <1>8
  <2> HIDE DEF n
  <2>2. /\ head \in Seq(S)
        /\ Len(head) = IF 1 <= n THEN n - 1 + 1 ELSE 0
        /\ \A i \in 1..n - 1 + 1 : head[i] = packet[1 + i - 1]
    BY ONLY <2>1, SubSeqProperties
  <2> HIDE DEF head
  <2>3. Len(head) = Len(hf)
    BY <1>5, <2>2 DEF n
  <2>4. ASSUME NEW i \in 1..Len(hf) PROVE head[i] = hf[i]
    <3>1. i \in 1..n - 1 + 1 /\ 1 + i - 1 = i
      BY <1>5 DEF n
    <3> QED
      BY <1>4, <2>2, <3>1
  <2>5. head = hf
    BY <1>2, <2>2, <2>3, <2>4, SeqEqual
  <2> QED
    BY <2>5 DEF head, n
<1>10. SubSeq(packet, Len(hf) + 1, Len(packet)) = c
  <2> DEFINE m == Len(hf) + 1
             n == Len(packet)
             tail == SubSeq(packet, m, n)
  <2>1. m \in Int /\ n \in Int /\ \A i \in m..n : packet[i] \in S
    BY <1>4, <1>5, <1>8
  <2> HIDE DEF m, n
  <2>2. /\ tail \in Seq(S)
        /\ Len(tail) = IF m <= n THEN n - m + 1 ELSE 0
        /\ \A i \in 1..n - m + 1 : tail[i] = packet[m + i - 1]
    BY ONLY <2>1, SubSeqProperties
  <2> HIDE DEF tail
  <2>3. Len(tail) = Len(c)
    BY <1>4, <1>5, <2>2 DEF m, n
  <2>4. ASSUME NEW i \in 1..Len(c) PROVE tail[i] = c[i]
    <3>1. i \in 1..n - m + 1 /\ m + i - 1 = Len(hf) + i
      BY <1>4, <1>5 DEF m, n
    <3> QED
      BY <1>4, <2>2, <3>1
  <2>5. tail = c
    BY <2>2, <2>3, <2>4, SeqEqual
  <2> QED
    BY <2>5 DEF tail, m, n
<1> QED
  BY <1>1, <1>2, <1>4, <1>6, <1>7, <1>9, <1>10

(* The values that bytes have: the checksum may be anything.               *)
Octet == Nat \cup {Hi(ecss_crc16(bytes)) : bytes \in Seq(Nat)}
             \cup {Lo(ecss_crc16(bytes)) : bytes \in Seq(Nat)}

(* The checksum is two bytes.                                              *)
LEMMA ChecksumBytes ==
    ASSUME NEW bytes \in Seq(Nat)
    PROVE  Checksum(bytes) \in Seq(Octet) /\ Len(Checksum(bytes)) = 2
<1> DEFINE w == ecss_crc16(bytes)
           cs == [i \in 1..2 |-> IF i % 2 = 1 THEN Hi(<<w>>[(i + 1) \div 2])
                                 ELSE Lo(<<w>>[i \div 2])]
<1>1. Checksum(bytes) = cs
  BY DEF Checksum, Bytes
<1>2. Hi(w) \in Octet /\ Lo(w) \in Octet
  BY DEF Octet
<1>3. ASSUME NEW i \in 1..2 PROVE cs[i] \in Octet
  <2>1. CASE i = 1
    <3>1. i % 2 = 1 /\ (i + 1) \div 2 = 1
      BY <2>1
    <3>2. cs[i] = Hi(<<w>>[1])
      BY <3>1
    <3> QED
      BY <1>2, <3>2
  <2>2. CASE i = 2
    <3>1. i % 2 # 1 /\ i \div 2 = 1
      BY <2>2
    <3>2. cs[i] = Lo(<<w>>[1])
      BY <3>1
    <3> QED
      BY <1>2, <3>2
  <2> QED
    BY <2>1, <2>2
<1>4. PICK n \in Nat : n = 2
  OBVIOUS
<1>5. cs \in [1..n -> Octet]
  BY <1>3, <1>4
<1> HIDE DEF cs
<1>6. cs \in Seq(Octet) /\ Len(cs) = n
  BY ONLY <1>5, n \in Nat, FunctionIsSeq
<1> QED
  BY <1>1, <1>4, <1>6

(* The six bytes before the data.                                          *)
LEMMA HeaderFacts ==
    ASSUME NEW psc \in Nat, NEW dl \in Nat
    PROVE  LET h == Bytes(<<Packet_ID, psc, dl>>)
           IN  /\ h \in Seq(Nat) /\ Len(h) = 6
               /\ h[1] * Base + h[2] = Packet_ID
               /\ h[3] * Base + h[4] = psc
               /\ h[5] * Base + h[6] = dl
<1> DEFINE ws == <<Packet_ID, psc, dl>>
<1>1. Packet_ID \in Nat
  BY InputsAssumption, SizesAssumption DEF Word, WordMod
<1>2. /\ ws \in [1..3 -> Nat]
      /\ ws[1] = Packet_ID /\ ws[2] = psc /\ ws[3] = dl
  BY <1>1
<1> HIDE DEF ws
<1>3. PICK n \in Nat : n = 3
  OBVIOUS
<1>4. ws \in [1..n -> Nat]
  BY <1>2, <1>3
<1>5. PICK h : h = Bytes(ws)
  OBVIOUS
<1>6. /\ h \in Seq(Nat) /\ Len(h) = 2 * n
      /\ \A k \in 1..n : h[2 * k - 1] * Base + h[2 * k] = ws[k]
  BY ONLY <1>4, <1>5, n \in Nat, BytesOfWords
<1>7. Len(h) = 6
  BY <1>3, <1>6
<1>8. /\ 1 \in 1..n /\ 2 \in 1..n /\ 3 \in 1..n
      /\ 2 * 1 - 1 = 1 /\ 2 * 1 = 2
      /\ 2 * 2 - 1 = 3 /\ 2 * 2 = 4
      /\ 2 * 3 - 1 = 5 /\ 2 * 3 = 6
  BY <1>3
<1>9. /\ h[1] * Base + h[2] = ws[1] /\ h[3] * Base + h[4] = ws[2]
      /\ h[5] * Base + h[6] = ws[3]
  <2>1. /\ h[2 * 1 - 1] * Base + h[2 * 1] = ws[1]
        /\ h[2 * 2 - 1] * Base + h[2 * 2] = ws[2]
        /\ h[2 * 3 - 1] * Base + h[2 * 3] = ws[3]
    BY <1>6, <1>8
  <2> QED
    BY <1>8, <2>1
<1> QED
  BY <1>2, <1>5, <1>6, <1>7, <1>9 DEF ws

-----------------------------------------------------------------------------
(* The buffers: each holds its bytes, whatever they are.                   *)
Buffers ==
    /\ pus_data \in Seq(Byte) /\ Len(pus_data) = BufferSize
    /\ PusFrameOut \in Seq(Nat) /\ Len(PusFrameOut) = BufferSize
    /\ sp_data \in Seq(Nat) /\ Len(sp_data) = BufferSize
    /\ SPPacketOut \in Seq(Octet) /\ Len(SPPacketOut) = BufferSize

(* What Build leaves in SPPacketOut, as Yamcs would read it.               *)
Reads(packet, type, counter, seq, data) ==
    /\ packet \in Seq(Octet) /\ Len(packet) = 19 + Len(data)
    /\ WordAt(packet, 1) = Packet_ID
    /\ WordAt(packet, 3) = 3 * SeqMod + seq
    /\ WordAt(packet, 5) = 12 + Len(data)
    /\ packet[7] = 33 /\ <<packet[8], packet[9]>> = type
    /\ WordAt(packet, 10) = counter
    /\ \A j \in 1..Len(data) : packet[17 + j] = data[j]
    /\ SubSeq(packet, 18 + Len(data), 19 + Len(data))
         = Bytes(<<ecss_crc16(SubSeq(packet, 1, 17 + Len(data)))>>)

(* The sequence control word is the flags above the cut count.             *)
LEMMA SequenceControl ==
    ASSUME sp_packet_count \in Word
    PROVE  /\ SeqMod \in Nat /\ sp_packet_count % SeqMod \in Nat
           /\ PacketSequenceControl \in Nat
           /\ PacketSequenceControl
                = 3 * SeqMod + (sp_packet_count % SeqMod)
<1>1. WordMod \in Nat /\ WordMod >= 4
  <2>1. Base \in Nat /\ Base >= 2
    BY SizesAssumption
  <2>2. Base * Base >= 2 * 2
    BY <2>1
  <2> QED
    BY <2>1, <2>2 DEF WordMod
<1> DEFINE q == WordMod \div 4
<1>2. q \in Nat /\ q >= 1
  BY <1>1
<1> HIDE DEF q
<1>3. SeqMod = q
  BY DEF SeqMod, q
<1>4. sp_packet_count \in Nat
  BY <1>1 DEF Word
<1>5. (sp_packet_count % q) \in Nat
  BY <1>2, <1>4
<1> QED
  BY <1>2, <1>3, <1>5 DEF PacketSequenceControl

(* A sequence of numbers is one of octets.                                 *)
LEMMA OctetSeq ==
    ASSUME NEW s \in Seq(Nat)
    PROVE  s \in Seq(Octet)
<1>1. Nat \subseteq Octet
  BY DEF Octet
<1> QED
  BY <1>1, SeqMonotonic

(* What Build leaves, whatever was in the buffers.                         *)
LEMMA Built ==
    ASSUME pus_time \in [1..18 -> Byte], Buffers, sp_packet_count \in Word,
           NEW type \in Types, NEW counter \in Word,
           NEW data \in Seq(Byte), Len(data) <= 17,
           Build(type, counter, data)
    PROVE  /\ Buffers' /\ SPPacketLength' = 19 + Len(data)
           /\ Reads(First(SPPacketOut', SPPacketLength'), type, counter,
                    sp_packet_count % SeqMod, data)
           /\ \A i \in 1..3 :
                 First(SPPacketOut', SPPacketLength')[14 + i] = SentTime[i]
<1> DEFINE frame == buildPUSFrame(type, counter, First(pus_data', Len(data)))
           dl == DataLength(Len(frame))
           h == Bytes(<<Packet_ID, PacketSequenceControl, dl>>)
           c == Checksum(h \o frame)
           packet == (h \o frame) \o c
<1>1. Len(data) \in Nat /\ BufferSize \in Nat /\ BufferSize >= 36
  BY SizesAssumption, TimeAssumption
<1>2. /\ pus_data' \in Seq(Byte) /\ Len(pus_data') = BufferSize
      /\ First(pus_data', Len(data)) = data
  <2>1. pus_data' = Overwrite(pus_data, data)
    BY DEF Build
  <2>2. Len(data) <= BufferSize
    BY <1>1
  <2>3. pus_data \in Seq(Byte) /\ Len(pus_data) = BufferSize
    BY DEF Buffers
  <2> QED
    BY <2>1, <2>2, <2>3, WrittenIsRead
<1>3. /\ frame \in Seq(Nat) /\ Len(frame) = 11 + Len(data)
      /\ frame[1] = 33 /\ <<frame[2], frame[3]>> = type
      /\ frame[4] * Base + frame[5] = counter
      /\ \A i \in 1..3 : frame[8 + i] = SentTime[i]
      /\ \A j \in 1..Len(data) : frame[11 + j] = data[j]
  <2>1. frame = buildPUSFrame(type, counter, data)
    BY <1>2
  <2> QED
    BY <2>1, FrameFacts
<1>4. /\ PusFrameOut' = Overwrite(PusFrameOut, frame)
      /\ sp_data' = Overwrite(sp_data, First(PusFrameOut', Len(frame)))
      /\ SPPacketOut' = Overwrite(SPPacketOut, buildSPPacket(dl, sp_data'))
      /\ SPPacketLength' = Len(buildSPPacket(dl, sp_data'))
  BY DEF Build
<1> HIDE DEF frame
<1>5. Len(frame) \in Nat /\ Len(frame) <= BufferSize
  BY <1>1, <1>3
<1>6. /\ PusFrameOut' \in Seq(Nat) /\ Len(PusFrameOut') = BufferSize
      /\ First(PusFrameOut', Len(frame)) = frame
  BY <1>3, <1>4, <1>5, WrittenIsRead DEF Buffers
<1>7. /\ sp_data' \in Seq(Nat) /\ Len(sp_data') = BufferSize
      /\ First(sp_data', Len(frame)) = frame
  BY <1>3, <1>4, <1>5, <1>6, WrittenIsRead DEF Buffers
<1>8. dl \in Nat /\ dl = 12 + Len(data) /\ dl - 1 = Len(frame)
  BY <1>1, <1>3 DEF DataLength
<1>9. buildSPPacket(dl, sp_data') = packet
  <2>1. Unchecked(dl, sp_data') = h \o frame
    BY <1>7, <1>8 DEF Unchecked
  <2> QED
    BY <2>1 DEF buildSPPacket
<1> HIDE DEF dl
<1>10. /\ h \in Seq(Nat) /\ Len(h) = 6
       /\ h[1] * Base + h[2] = Packet_ID
       /\ h[3] * Base + h[4] = PacketSequenceControl
       /\ h[5] * Base + h[6] = dl
  BY <1>8, SequenceControl, HeaderFacts
<1> HIDE DEF h
<1>11. h \o frame \in Seq(Nat)
  <2>1. h \in Seq(Nat)
    BY <1>10
  <2>2. frame \in Seq(Nat)
    BY <1>3
  <2> QED
    BY ONLY <2>1, <2>2, Glue
<1>12. c \in Seq(Octet) /\ Len(c) = 2
  BY <1>11, ChecksumBytes
<1>13. c = Bytes(<<ecss_crc16(h \o frame)>>)
  BY DEF Checksum
<1> HIDE DEF c, packet
<1>14. packet = (h \o frame) \o c
  BY DEF packet
<1>15. /\ packet \in Seq(Octet)
       /\ Len(packet) = (Len(h) + Len(frame)) + Len(c)
       /\ \A i \in 1..Len(h) : packet[i] = h[i]
       /\ \A i \in 1..Len(frame) : packet[Len(h) + i] = frame[i]
       /\ SubSeq(packet, 1, Len(h) + Len(frame)) = h \o frame
       /\ SubSeq(packet, (Len(h) + Len(frame)) + 1, Len(packet)) = c
  <2>1. h \in Seq(Octet) /\ frame \in Seq(Octet)
    BY <1>3, <1>10, OctetSeq
  <2>2. c \in Seq(Octet)
    BY <1>12
  <2> QED
    BY ONLY <2>1, <2>2, <1>14, PacketParts
<1>16. /\ Len(packet) = 19 + Len(data)
       /\ Len(h) + Len(frame) = 17 + Len(data)
       /\ (Len(h) + Len(frame)) + 1 = 18 + Len(data)
  BY <1>1, <1>3, <1>10, <1>12, <1>15
<1>17. /\ SPPacketOut' \in Seq(Octet) /\ Len(SPPacketOut') = BufferSize
       /\ First(SPPacketOut', SPPacketLength') = packet
       /\ SPPacketLength' = 19 + Len(data)
  <2>1. SPPacketOut' = Overwrite(SPPacketOut, packet)
    BY <1>4, <1>9
  <2>2. SPPacketLength' = Len(packet)
    BY <1>4, <1>9
  <2>3. Len(packet) <= BufferSize /\ packet \in Seq(Octet)
    BY <1>1, <1>15, <1>16
  <2>4. SPPacketOut \in Seq(Octet) /\ Len(SPPacketOut) = BufferSize
    BY DEF Buffers
  <2> QED
    BY <1>16, <2>1, <2>2, <2>3, <2>4, WrittenIsRead
<1>18. \A i \in 1..6 : packet[i] = h[i]
  BY <1>10, <1>15
<1>19. \A i \in 1..(11 + Len(data)) : packet[6 + i] = frame[i]
  BY <1>3, <1>10, <1>15
<1>20. /\ WordAt(packet, 1) = Packet_ID
       /\ WordAt(packet, 3) = 3 * SeqMod + (sp_packet_count % SeqMod)
       /\ WordAt(packet, 5) = 12 + Len(data)
  <2>1. /\ packet[1] = h[1] /\ packet[2] = h[2] /\ packet[3] = h[3]
        /\ packet[4] = h[4] /\ packet[5] = h[5] /\ packet[6] = h[6]
    BY <1>18
  <2> QED
    <3>1. 1 + 1 = 2 /\ 3 + 1 = 4 /\ 5 + 1 = 6
      OBVIOUS
    <3>2. /\ WordAt(packet, 1) = h[1] * Base + h[2]
          /\ WordAt(packet, 3) = h[3] * Base + h[4]
          /\ WordAt(packet, 5) = h[5] * Base + h[6]
      BY <2>1, <3>1 DEF WordAt
    <3> QED
      BY ONLY <1>8, <1>10, <3>2, SequenceControl, sp_packet_count \in Word
<1>21. /\ packet[7] = 33 /\ <<packet[8], packet[9]>> = type
       /\ WordAt(packet, 10) = counter
  <2>1. /\ 1 \in 1..(11 + Len(data))
        /\ 2 \in 1..(11 + Len(data)) /\ 3 \in 1..(11 + Len(data))
        /\ 4 \in 1..(11 + Len(data)) /\ 5 \in 1..(11 + Len(data))
    BY <1>1
  <2>2. /\ packet[6 + 1] = frame[1]
        /\ packet[6 + 2] = frame[2] /\ packet[6 + 3] = frame[3]
        /\ packet[6 + 4] = frame[4] /\ packet[6 + 5] = frame[5]
    BY <1>19, <2>1
  <2>3. /\ 6 + 1 = 7 /\ 6 + 2 = 8 /\ 6 + 3 = 9 /\ 6 + 4 = 10
        /\ 6 + 5 = 11 /\ 10 + 1 = 11
    OBVIOUS
  <2> QED
    BY <1>3, <2>2, <2>3 DEF WordAt
<1>22. ASSUME NEW j \in 1..Len(data) PROVE packet[17 + j] = data[j]
  <2>1. 11 + j \in 1..(11 + Len(data)) /\ 6 + (11 + j) = 17 + j
    BY <1>1
  <2>2. packet[6 + (11 + j)] = frame[11 + j]
    BY <1>19, <2>1
  <2> QED
    BY <1>3, <2>1, <2>2
<1>23. SubSeq(packet, 18 + Len(data), 19 + Len(data))
         = Bytes(<<ecss_crc16(SubSeq(packet, 1, 17 + Len(data)))>>)
  BY <1>13, <1>15, <1>16
<1>24. ASSUME NEW i \in 1..3 PROVE packet[14 + i] = SentTime[i]
  <2>1. 8 + i \in 1..(11 + Len(data)) /\ 6 + (8 + i) = 14 + i
    BY <1>1
  <2>2. packet[6 + (8 + i)] = frame[8 + i]
    BY <1>19, <2>1
  <2> QED
    BY <1>3, <2>1, <2>2
<1>25. \A i \in 1..3 :
          First(SPPacketOut', SPPacketLength')[14 + i] = SentTime[i]
  BY <1>17, <1>24
<1> QED
  BY <1>2, <1>6, <1>7, <1>15, <1>16, <1>17, <1>20, <1>21, <1>22, <1>23, <1>25
     DEF Buffers, Reads

-----------------------------------------------------------------------------
(* A number is moved before or after it is reduced, by one or by two.      *)
LEMMA MovedByOne ==
    ASSUME NEW M \in Nat, M > 1, NEW n \in Nat
    PROVE  ((n % M) + 1) % M = (n + 1) % M
<1> DEFINE q == n \div M
           r == n % M
<1>1. q \in Nat /\ r \in 0..(M - 1) /\ n = M * q + r
  OBVIOUS
<1> HIDE DEF q, r
<1>2. CASE r + 1 < M
  <2>1. n + 1 = M * q + (r + 1)
    BY <1>1
  <2>2. (n + 1) % M = r + 1
    BY <1>1, <1>2, <2>1
  <2> QED
    BY <1>1, <1>2, <2>2 DEF r
<1>3. CASE r + 1 = M
  <2>1. n + 1 = M * (q + 1)
    BY <1>1, <1>3
  <2>2. (n + 1) % M = 0
    BY <1>1, <2>1
  <2> QED
    BY <1>1, <1>3, <2>2 DEF r
<1> QED
  BY <1>1, <1>2, <1>3

(* A number may be reduced before one or two is added to it.               *)
LEMMA Moved ==
    ASSUME NEW M \in Nat, M > 1, NEW n \in Nat, NEW k \in {1, 2}
    PROVE  ((n % M) + k) % M = (n + k) % M
<1> DEFINE r == n % M
<1>1. r \in Nat
  OBVIOUS
<1>2. (r + 1) % M = (n + 1) % M
  BY MovedByOne
<1> HIDE DEF r
<1>3. PICK r1 \in Nat, n1 \in Nat : r1 = r + 1 /\ n1 = n + 1
  BY <1>1
<1>4. ((r1 % M) + 1) % M = (r1 + 1) % M /\ ((n1 % M) + 1) % M = (n1 + 1) % M
  BY MovedByOne
<1>5. (r + 2) % M = (n + 2) % M
  <2>1. r1 + 1 = r + 2 /\ n1 + 1 = n + 2
    BY <1>1, <1>3
  <2> QED
    BY <1>2, <1>3, <1>4, <2>1
<1> QED
  BY <1>2, <1>5 DEF r

(* A word has more than one value, and what is reduced to it is one.       *)
LEMMA WordModFacts ==
    /\ WordMod \in Nat /\ WordMod > 1
    /\ \A n \in Nat : (n % WordMod) \in Word
<1>1. WordMod \in Nat /\ WordMod > 1
  <2>1. Base \in Nat /\ Base >= 2
    BY SizesAssumption
  <2>2. Base * Base >= 2 * 2
    BY <2>1
  <2> QED
    BY <2>1, <2>2 DEF WordMod
<1>2. ASSUME NEW n \in Nat PROVE (n % WordMod) \in 0..(WordMod - 1)
  BY <1>1
<1> QED
  BY <1>1, <1>2 DEF Word

-----------------------------------------------------------------------------
(* The counts, with their types.                                           *)
Counts ==
    /\ generated \in [Types -> Nat] /\ total \in 0..MaxReports
    /\ COUNTER \in [Types -> Word] /\ sp_packet_count \in Word
    /\ CountersExplained

(* How much a report moves them.                                           *)
Step(type) == IF type = <<3, 25>> THEN 2 ELSE 1

(* At first nothing has been generated or counted.                         *)
LEMMA CountsStart == Init => Counts
<1> SUFFICES ASSUME Init PROVE Counts
  OBVIOUS
<1>1. 0 \in Word /\ 0 = 0 % WordMod /\ 1 = 1 % WordMod /\ 1 \in Word
  BY WordModFacts DEF Word
<1>2. <<3, 25>> \in Types
  BY DEF Types
<1>3. /\ generated = [type \in Types |-> 0] /\ total = 0
      /\ COUNTER = [type \in Types |-> 0] /\ sp_packet_count = 1
  BY DEF Init
<1> HIDE DEF Types
<1>4. generated[<<3, 25>>] = 0
  BY <1>2, <1>3
<1>5. sp_packet_count = (1 + total + generated[<<3, 25>>]) % WordMod
  BY <1>1, <1>3, <1>4
<1>6. ASSUME NEW type \in Types
      PROVE  COUNTER[type] = (IF type = <<3, 25>> THEN 2 * generated[type]
                              ELSE generated[type]) % WordMod
  BY <1>1, <1>3
<1> QED
  BY <1>1, <1>3, <1>5, <1>6, InputsAssumption DEF Counts, CountersExplained

(* A generator counts its report, and the packet, as often as it           *)
(* generates.                                                              *)
LEMMA CountsKept ==
    ASSUME Counts, NEW type \in Types, NEW words,
           Count(type, Step(type)), Note(type, words)
    PROVE  Counts'
<1>1. WordMod \in Nat /\ WordMod > 1 /\ \A n \in Nat : (n % WordMod) \in Word
  BY WordModFacts
<1>2. Step(type) \in {1, 2}
  BY DEF Step
<1>3. /\ sp_packet_count' = (sp_packet_count + Step(type)) % WordMod
      /\ COUNTER' = [COUNTER EXCEPT
                       ![type] = (COUNTER[type] + Step(type)) % WordMod]
      /\ total < MaxReports /\ total' = total + 1
      /\ generated' = [generated EXCEPT ![type] = generated[type] + 1]
  BY DEF Count, Note
<1>4. /\ generated \in [Types -> Nat] /\ total \in Nat
      /\ COUNTER \in [Types -> Word] /\ sp_packet_count \in Word
  BY InputsAssumption DEF Counts
<1>5. /\ generated' \in [Types -> Nat] /\ total' \in 0..MaxReports
      /\ generated'[type] = generated[type] + 1
      /\ \A u \in Types \ {type} : generated'[u] = generated[u]
  BY <1>3, <1>4, InputsAssumption
<1>6. /\ \A u \in Types \ {type} : COUNTER'[u] = COUNTER[u]
      /\ COUNTER'[type] = (COUNTER[type] + Step(type)) % WordMod
  BY <1>3, <1>4
<1>7. /\ sp_packet_count = (1 + total + generated[<<3, 25>>]) % WordMod
      /\ \A u \in Types :
            COUNTER[u] = (IF u = <<3, 25>> THEN 2 * generated[u]
                          ELSE generated[u]) % WordMod
  BY DEF Counts, CountersExplained
<1>8. <<3, 25>> \in Types
  BY DEF Types
<1> DEFINE n == 1 + total + generated[<<3, 25>>]
           m(u) == IF u = <<3, 25>> THEN 2 * generated[u] ELSE generated[u]
<1>9. n \in Nat /\ m(type) \in Nat
  BY <1>4, <1>8
<1>10. n' = n + Step(type)
  <2>1. CASE type = <<3, 25>>
    BY <1>3, <1>4, <1>5, <2>1 DEF Step
  <2>2. CASE type # <<3, 25>>
    BY <1>3, <1>4, <1>5, <1>8, <2>2 DEF Step
  <2> QED
    BY <2>1, <2>2
<1>11. m(type)' = m(type) + Step(type)
  BY <1>4, <1>5 DEF Step
<1>12. /\ ((n % WordMod) + Step(type)) % WordMod = (n + Step(type)) % WordMod
       /\ ((m(type) % WordMod) + Step(type)) % WordMod
            = (m(type) + Step(type)) % WordMod
  BY <1>1, <1>2, <1>9, Moved
<1>13. sp_packet_count' = n' % WordMod
  BY <1>3, <1>7, <1>10, <1>12
<1>14. COUNTER'[type] = m(type)' % WordMod
  BY <1>6, <1>7, <1>11, <1>12
<1>15. ASSUME NEW u \in Types PROVE COUNTER'[u] = m(u)' % WordMod
  <2>1. CASE u = type
    BY <1>14, <2>1
  <2>2. CASE u # type
    BY <1>5, <1>6, <1>7, <2>2
  <2> QED
    BY <2>1, <2>2
<1>16. (n + Step(type)) \in Nat /\ (m(type) + Step(type)) \in Nat
  BY <1>2, <1>9
<1>17. sp_packet_count' \in Word
  BY <1>1, <1>10, <1>13, <1>16
<1>18. COUNTER' \in [Types -> Word]
  <2>1. COUNTER'[type] \in Word
    BY <1>1, <1>11, <1>14, <1>16
  <2> QED
    BY <1>3, <1>4, <1>6, <2>1
<1> QED
  BY <1>5, <1>13, <1>15, <1>17, <1>18 DEF Counts, CountersExplained

-----------------------------------------------------------------------------
(* What the types of the inputs give.                                      *)
LEMMA WordsWritten ==
    ASSUME NEW n \in 0..8, NEW words \in [1..n -> Word]
    PROVE  /\ Bytes(words) \in Seq(Byte) /\ Len(Bytes(words)) = 2 * n
           /\ Len(words) = n
           /\ \A k \in 1..n :
                 Bytes(words)[2 * k - 1] * Base + Bytes(words)[2 * k]
                   = words[k]
<1>1. words \in [1..n -> Nat] /\ n \in Nat
  <2>1. Word \subseteq Nat
    BY WordModFacts DEF Word
  <2>2. n \in Nat
    OBVIOUS
  <2> QED
    BY ONLY <2>1, <2>2, words \in [1..n -> Word]
<1>2. Len(words) = n
  BY <1>1, FunctionIsSeq
<1> QED
  BY <1>1, <1>2, BytesOfWords

(* The time is written into bytes.                                         *)
LEMMA TimeBytesTyped ==
    ASSUME NEW coarse_time \in Nat
    PROVE  TimeBytes(coarse_time) \in [1..18 -> Byte]
<1>1. WordMod \in Nat /\ WordMod > 1 /\ Base \in Nat /\ Base > 1
  BY WordModFacts, SizesAssumption
<1>2. ASSUME NEW n \in Nat PROVE (n % Base) \in Byte
  <2>1. (n % Base) \in 0..(Base - 1)
    BY <1>1
  <2> QED
    BY <2>1 DEF Byte
<1>3. WordMod * Base \in Nat /\ WordMod * Base > 0
  <2>1. WordMod * Base >= 1 * 1
    BY <1>1
  <2> QED
    BY <1>1, <2>1
<1> DEFINE d1 == coarse_time \div (WordMod * Base)
           d2 == coarse_time \div WordMod
           d3 == coarse_time \div Base
<1>4. d1 \in Nat /\ d2 \in Nat /\ d3 \in Nat
  BY <1>1, <1>3
<1>5. 0 \in Byte
  BY <1>1 DEF Byte
<1> HIDE DEF d1, d2, d3
<1>6. /\ (d1 % Base) \in Byte /\ (d2 % Base) \in Byte /\ (d3 % Base) \in Byte
      /\ (coarse_time % Base) \in Byte
  BY <1>2, <1>4
<1> QED
  BY <1>5, <1>6 DEF TimeBytes, d1, d2, d3

(* A quotient, without its remainder.                                      *)
LEMMA Quotient ==
    ASSUME NEW s \in Nat, NEW m \in Nat \ {0}
    PROVE  \E q \in Nat : /\ q = s \div m
                          /\ m * q <= s /\ s < m * q + m
<1> DEFINE d == s \div m
           r == s % m
<1>1. d \in Nat /\ r \in 0..(m - 1) /\ s = m * d + r
  OBVIOUS
<1> HIDE DEF d, r
<1>2. PICK x \in Nat : x = m * d
  BY <1>1
<1>3. m * d <= s /\ s < m * d + m
  BY <1>1, <1>2
<1> QED
  BY <1>1, <1>3 DEF d

(* A number divided twice is divided by the product.                       *)
LEMMA DividedTwice ==
    ASSUME NEW s \in Nat, NEW m \in Nat \ {0}, NEW b \in Nat \ {0}
    PROVE  s \div (m * b) = (s \div m) \div b
<1> DEFINE q == s \div m
           r == s % m
           h == q \div b
           l == q % b
           M == m * b
<1>1. q \in Nat /\ r \in 0..(m - 1) /\ s = m * q + r
  OBVIOUS
<1> HIDE DEF q, r
<1>2. h \in Nat /\ l \in 0..(b - 1) /\ q = b * h + l
  BY <1>1
<1> HIDE DEF h, l
<1>3. M \in Nat /\ M > 0
  <2>1. m * b >= 1 * 1
    OBVIOUS
  <2> QED
    BY <2>1
<1>4. m * l + r \in 0..(M - 1)
  <2>1. m * l <= m * (b - 1)
    BY <1>2
  <2>2. m * (b - 1) = M - m
    OBVIOUS
  <2>3. m * l \in Nat
    BY <1>2
  <2> QED
    BY <1>1, <1>3, <2>1, <2>2, <2>3
<1>5. s = M * h + (m * l + r)
  <2>1. m * q = m * (b * h) + m * l
    BY <1>2
  <2>2. m * (b * h) = M * h
    BY <1>2
  <2>3. PICK x \in Nat, y \in Nat : x = m * (b * h) /\ y = m * l
    BY <1>2
  <2>4. m * q = x + y
    BY <2>1, <2>3
  <2>5. s = x + (y + r)
    BY ONLY <1>1, <2>3, <2>4, m * q = x + y
  <2> QED
    BY <2>2, <2>3, <2>5
<1> HIDE DEF M
<1>6. s \div M = h
  <2> DEFINE k == m * l + r
  <2>1. k \in 0..(M - 1) /\ s = M * h + k
    BY <1>4, <1>5
  <2> HIDE DEF k
  <2> QED
    BY <1>2, <1>3, <2>1
<1> QED
  BY <1>6 DEF M, h, q

(* The upper two bytes of the time are the second divided by WordMod.      *)
TimeShown ==
    /\ seconds \in Nat /\ pus_time[11] = 0
    /\ seconds < WordMod * WordMod =>
          pus_time[1] * Base + pus_time[2] = seconds \div WordMod

(* Its upper two bytes are the time without the lower two.                 *)
LEMMA UpperBytes ==
    ASSUME NEW s \in Nat, NEW time, time = TimeBytes(s)
    PROVE  /\ time[11] = 0
           /\ s < WordMod * WordMod =>
                 time[1] * Base + time[2] = s \div WordMod
<1>1. WordMod \in Nat /\ WordMod > 1 /\ Base \in Nat /\ Base > 1
  BY WordModFacts, SizesAssumption
<1>2. /\ time[1] = (s \div (WordMod * Base)) % Base
      /\ time[2] = (s \div WordMod) % Base /\ time[11] = 0
  BY DEF TimeBytes
<1> DEFINE q == s \div WordMod
<1>3. q \in Nat
  BY <1>1
<1>4. s \div (WordMod * Base) = Hi(q)
  <2>1. WordMod \in Nat \ {0} /\ Base \in Nat \ {0}
    BY <1>1
  <2>2. s \div (WordMod * Base) = (s \div WordMod) \div Base
    BY ONLY <2>1, s \in Nat, DividedTwice
  <2> QED
    BY <2>2 DEF Hi
<1>5. ASSUME s < WordMod * WordMod PROVE q \in Word
  <2>1. s = WordMod * q + (s % WordMod) /\ (s % WordMod) \in Nat
    BY <1>1
  <2> HIDE DEF q
  <2>2. CASE q >= WordMod
    <3>1. WordMod * q >= WordMod * WordMod
      BY <1>1, <1>3, <2>2
    <3>2. WordMod * q \in Nat /\ WordMod * WordMod \in Nat
      BY <1>1, <1>3
    <3> QED
      BY <1>5, <2>1, <3>1, <3>2
  <2> QED
    BY <1>1, <1>3, <2>2 DEF Word
<1> HIDE DEF q
<1>6. ASSUME s < WordMod * WordMod PROVE time[1] * Base + time[2] = q
  <2>1. Hi(q) \in Byte /\ Hi(q) * Base + Lo(q) = q
    BY <1>3, <1>5, <1>6, Digits
  <2>2. Hi(q) % Base = Hi(q)
    BY <1>1, <2>1 DEF Byte
  <2>3. time[1] = Hi(q) /\ time[2] = Lo(q)
    BY <1>2, <1>4, <2>2 DEF Lo, q
  <2> QED
    BY <2>1, <2>3
<1> QED
  BY <1>2, <1>6 DEF q

(* The time of a packet is that of its report, cut to its upper half.      *)
LEMMA TagReadsBack ==
    ASSUME pus_time \in [1..18 -> Byte], Buffers, sp_packet_count \in Word,
           TimeShown,
           NEW type \in Types, NEW counter \in Word,
           NEW words, NEW data \in Seq(Byte), Len(data) <= 17,
           Build(type, counter, data), Note(type, words)
    PROVE  TimeTagTruncates'
<1> DEFINE packet == First(SPPacketOut', SPPacketLength')
           s == seconds
           tag == WordAt(packet, 15)
<1>1. \A i \in 1..3 : packet[14 + i] = SentTime[i]
  BY Built
<1>2. report'.seconds = s /\ s \in Nat
  BY DEF Note, TimeShown
<1> HIDE DEF packet, s
<1>3. ASSUME NUM_COARSE_BYTES = 2, s < WordMod * WordMod
      PROVE  /\ packet[17] = 0 /\ tag * WordMod <= s
             /\ s < tag * WordMod + WordMod
  <2>1. NUM_FINE_BYTES = 1
    BY <1>3, SizesAssumption, TimeAssumption
  <2>2. /\ SentTime[1] = pus_time[1] /\ SentTime[2] = pus_time[2]
        /\ SentTime[3] = pus_time[11]
    BY <1>3, <2>1 DEF SentTime
  <2>3. packet[15] = SentTime[1] /\ packet[16] = SentTime[2]
        /\ packet[17] = SentTime[3]
    <3>1. /\ packet[14 + 1] = SentTime[1] /\ packet[14 + 2] = SentTime[2]
          /\ packet[14 + 3] = SentTime[3]
      BY <1>1
    <3> QED
      BY <3>1
  <2>4. packet[17] = 0 /\ tag = s \div WordMod
    BY <1>3, <2>2, <2>3 DEF TimeShown, WordAt, s
  <2>5. WordMod \in Nat /\ WordMod > 1
    BY WordModFacts
  <2>6. PICK q \in Nat : /\ q = s \div WordMod
                         /\ WordMod * q <= s /\ s < WordMod * q + WordMod
    <3>1. WordMod \in Nat \ {0}
      BY <2>5
    <3> QED
      BY ONLY <1>2, <3>1, Quotient
  <2>7. WordMod * q = q * WordMod
    BY <2>5, <2>6
  <2> QED
    BY <2>4, <2>6, <2>7
<1> QED
  BY <1>2, <1>3 DEF TimeTagTruncates, packet

(* A packet of version 2 with structure ID 1 and the eight parameters      *)
(* behind it is read by the mission database as TM[3,25].                  *)
LEMMA DatabaseReads ==
    ASSUME NEW packet, NEW words, NEW type, type = <<3, 25>>,
           packet[7] = 33, packet[18] = 1,
           \A k \in 1..8 : WordAt(packet, 18 + 2 * k - 1) = words[k]
    PROVE  Accepted(packet, type) /\ FieldsRead(packet, type, words)
<1> DEFINE fields == [k \in 1..8 |-> <<17 + 2 * k, 2>>]
<1>1. DatabaseFields(type) = fields
  BY DEF DatabaseFields
<1>2. ASSUME NEW k \in 1..8 PROVE FieldRead(packet, fields[k]) = words[k]
  <2>1. FieldRead(packet, fields[k]) = WordAt(packet, 17 + 2 * k)
    BY DEF FieldRead
  <2>2. 18 + 2 * k - 1 = 17 + 2 * k
    OBVIOUS
  <2>3. WordAt(packet, 18 + 2 * k - 1) = words[k]
    OBVIOUS
  <2> QED
    BY <2>1, <2>2, <2>3
<1>3. DOMAIN fields = 1..8
  OBVIOUS
<1> HIDE DEF fields
<1>4. FieldsRead(packet, type, words)
  BY <1>1, <1>2, <1>3 DEF FieldsRead
<1>5. 33 \div 16 = 2
  OBVIOUS
<1>6. Accepted(packet, type)
  BY <1>5 DEF Accepted, DatabaseVersion
<1> QED
  BY <1>4, <1>6

(* Data that hold these words are read back as these words.                *)
LEMMA WordsReadBack ==
    ASSUME pus_time \in [1..18 -> Byte], Buffers, sp_packet_count \in Word,
           NEW type \in Types, NEW counter \in Word, NEW n \in 0..8,
           NEW words, Len(words) = n,
           NEW data \in Seq(Byte),
           NEW skip \in {0, 1}, BytesAhead(type) = 17 + skip,
           Len(data) = skip + 2 * n,
           \A k \in 1..n : data[(skip + 2 * k) - 1] * Base
                              + data[skip + 2 * k] = words[k],
           type \notin {<<1, 7>>, <<1, 8>>} => counter = COUNTER[type],
           type = <<3, 25>> => n = 8 /\ data[1] = 1,
           Build(type, counter, data), Note(type, words)
    PROVE  /\ Buffers' /\ SPPacketLength' \in 0..BufferSize
           /\ PacketReadsBack'
<1> DEFINE packet == First(SPPacketOut', SPPacketLength')
<1>1. Len(data) \in Nat /\ Len(data) <= 17
  BY ONLY Len(data) = skip + 2 * n, n \in 0..8, skip \in {0, 1}
<1>2. /\ Buffers' /\ SPPacketLength' = 19 + Len(data)
      /\ Reads(packet, type, counter, sp_packet_count % SeqMod, data)
  BY <1>1, Built
<1> HIDE DEF packet
<1>3. /\ report'.type = type /\ report'.counter = COUNTER[type]
      /\ report'.words = words /\ report'.seq = sp_packet_count % SeqMod
  BY DEF Note
<1>4. SPPacketLength' \in 0..BufferSize
  <2>1. SPPacketLength' = 19 + Len(data)
    BY <1>2
  <2>2. PICK d \in Nat : d = Len(data) /\ d <= 17
    BY <1>1
  <2>3. BufferSize \in Nat /\ BufferSize >= 36
    BY ONLY SizesAssumption, TimeAssumption
  <2>4. SPPacketLength' = 19 + d
    BY ONLY <2>1, <2>2
  <2> QED
    BY ONLY <2>2, <2>3, <2>4, d \in Nat
<1>5. /\ SPPacketLength' = BytesAhead(type) + 2 * n + 2
      /\ SPPacketLength' - 7 = 12 + Len(data)
      /\ SPPacketLength' - 1 = 18 + Len(data)
      /\ SPPacketLength' - 2 = 17 + Len(data)
  <2>1. SPPacketLength' = 19 + Len(data)
    BY <1>2
  <2>2. BytesAhead(type) = 17 + skip /\ Len(data) = skip + 2 * n
    OBVIOUS
  <2> QED
    BY ONLY <2>1, <2>2, n \in 0..8, skip \in {0, 1}
<1>6. /\ WordAt(packet, 1) = Packet_ID
      /\ WordAt(packet, 3) = 3 * SeqMod + (sp_packet_count % SeqMod)
      /\ WordAt(packet, 5) = SPPacketLength' - 7
      /\ <<packet[8], packet[9]>> = type
      /\ WordAt(packet, 10) = counter
      /\ SubSeq(packet, SPPacketLength' - 1, SPPacketLength')
           = Bytes(<<ecss_crc16(SubSeq(packet, 1, SPPacketLength' - 2))>>)
  BY <1>2, <1>5 DEF Reads
<1>7. ASSUME NEW k \in 1..n
      PROVE  WordAt(packet, BytesAhead(type) + 2 * k - 1) = words[k]
  <2>1. /\ (skip + 2 * k) - 1 \in 1..Len(data)
        /\ skip + 2 * k \in 1..Len(data)
    BY ONLY Len(data) = skip + 2 * n, n \in 0..8, skip \in {0, 1},
            k \in 1..n
  <2>2. /\ packet[17 + ((skip + 2 * k) - 1)] = data[(skip + 2 * k) - 1]
        /\ packet[17 + (skip + 2 * k)] = data[skip + 2 * k]
    BY <1>2, <2>1 DEF Reads
  <2>3. /\ BytesAhead(type) + 2 * k - 1 = 17 + ((skip + 2 * k) - 1)
        /\ (BytesAhead(type) + 2 * k - 1) + 1 = 17 + (skip + 2 * k)
    BY ONLY BytesAhead(type) = 17 + skip, n \in 0..8, skip \in {0, 1},
            k \in 1..n
  <2>4. WordAt(packet, BytesAhead(type) + 2 * k - 1)
          = data[(skip + 2 * k) - 1] * Base + data[skip + 2 * k]
    BY <2>2, <2>3 DEF WordAt
  <2> QED
    BY <2>4
<1>8. type \notin {<<1, 7>>, <<1, 8>>}
         => WordAt(packet, 10) = report'.counter
  BY <1>3, <1>6
<1>9. ASSUME type = <<3, 25>>
      PROVE  Accepted(packet, type) /\ FieldsRead(packet, type, words)
  <2>1. BytesAhead(type) = 18 /\ n = 8 /\ 1 \in 1..Len(data) /\ data[1] = 1
    <3>1. BytesAhead(type) = 18 /\ n = 8 /\ data[1] = 1
      BY <1>9 DEF BytesAhead
    <3>2. 1 \in 1..Len(data)
      BY ONLY <3>1, Len(data) = skip + 2 * n, skip \in {0, 1}
    <3> QED
      BY <3>1, <3>2
  <2>2. packet[17 + 1] = data[1] /\ packet[7] = 33 /\ 17 + 1 = 18
    BY <1>2, <2>1 DEF Reads
  <2>3. \A k \in 1..8 : WordAt(packet, 18 + 2 * k - 1) = words[k]
    BY <1>7, <2>1
  <2> QED
    BY <1>9, <2>1, <2>2, <2>3, DatabaseReads
<1> QED
  BY <1>2, <1>3, <1>4, <1>5, <1>6, <1>7, <1>8, <1>9
     DEF PacketReadsBack, packet

-----------------------------------------------------------------------------
(* The inductive invariant: also what each buffer holds.                   *)
IInv ==
    /\ pus_time \in [1..18 -> Byte]
    /\ Buffers /\ SPPacketLength \in 0..BufferSize
    /\ Counts
    /\ report = NoReport \/ report.type \in Types
    /\ PacketReadsBack
    /\ TimeShown /\ TimeTagTruncates

(* At first the buffers are clear and no packet has been built.            *)
LEMMA IInvStart == Init => IInv
<1> SUFFICES ASSUME Init PROVE IInv
  OBVIOUS
<1>1. pus_time \in [1..18 -> Byte]
  BY TimeBytesTyped DEF Init
<1>2. Zeros \in Seq(Byte) /\ Zeros \in Seq(Nat) /\ Len(Zeros) = BufferSize
  <2>1. BufferSize \in Nat /\ 0 \in Byte
    BY SizesAssumption DEF Byte
  <2>2. Zeros \in [1..BufferSize -> Byte] /\ Zeros \in [1..BufferSize -> Nat]
    BY <2>1 DEF Zeros
  <2> QED
    BY <2>1, <2>2, FunctionIsSeq
<1>3. Buffers /\ SPPacketLength \in 0..BufferSize
  BY <1>2, OctetSeq, SizesAssumption DEF Init, Buffers
<1>4. TimeShown /\ TimeTagTruncates
  BY UpperBytes DEF Init, TimeShown, TimeTagTruncates
<1> QED
  BY <1>1, <1>3, <1>4, CountsStart DEF Init, IInv, PacketReadsBack

(* Each generator keeps it.                                                *)
LEMMA GeneratorKeepsIInv ==
    ASSUME IInv,
           NEW type \in Types, NEW counter \in Word, NEW n \in 0..8,
           NEW words, Len(words) = n,
           NEW data \in Seq(Byte),
           NEW skip \in {0, 1}, BytesAhead(type) = 17 + skip,
           Len(data) = skip + 2 * n,
           \A k \in 1..n : data[(skip + 2 * k) - 1] * Base
                              + data[skip + 2 * k] = words[k],
           type \notin {<<1, 7>>, <<1, 8>>} => counter = COUNTER[type],
           type = <<3, 25>> => n = 8 /\ data[1] = 1,
           Build(type, counter, data), Note(type, words),
           Count(type, Step(type))
    PROVE  IInv'
<1>1. Counts'
  BY CountsKept DEF IInv
<1>2. /\ pus_time' = pus_time /\ seconds' = seconds
      /\ report'.type = type
  BY DEF Note
<1>3. Buffers' /\ SPPacketLength' \in 0..BufferSize /\ PacketReadsBack'
  <2>1. /\ pus_time \in [1..18 -> Byte] /\ Buffers
        /\ sp_packet_count \in Word
    BY DEF IInv, Counts
  <2> QED
    BY <2>1, WordsReadBack
<1>4. TimeTagTruncates'
  <2>1. /\ pus_time \in [1..18 -> Byte] /\ Buffers /\ TimeShown
        /\ sp_packet_count \in Word
    BY DEF IInv, Counts
  <2>2. Len(data) <= 17
    OBVIOUS
  <2> QED
    BY <2>1, <2>2, TagReadsBack
<1>5. TimeShown'
  BY <1>2 DEF IInv, TimeShown
<1> QED
  BY <1>1, <1>2, <1>3, <1>4, <1>5 DEF IInv

(* The arguments of a report become four bytes, two for each word.         *)
LEMMA ArgumentsTyped ==
    ASSUME NEW in \in Arguments
    PROVE  /\ in \in [1..2 -> Word]
           /\ Bytes(in) \in Seq(Byte) /\ Len(Bytes(in)) = 2 * 2
           /\ Len(in) = 2
           /\ \A k \in 1..2 :
                 Bytes(in)[2 * k - 1] * Base + Bytes(in)[2 * k] = in[k]
<1>1. PICK n \in 0..8 : n = 2
  OBVIOUS
<1>2. in \in [1..n -> Word]
  BY <1>1, InputsAssumption
<1>3. /\ Bytes(in) \in Seq(Byte) /\ Len(Bytes(in)) = 2 * n
      /\ Len(in) = n
      /\ \A k \in 1..n :
            Bytes(in)[2 * k - 1] * Base + Bytes(in)[2 * k] = in[k]
  BY ONLY <1>2, n \in 0..8, WordsWritten
<1> QED
  BY <1>1, <1>2, <1>3

(* The two generators that send their two arguments.                       *)
LEMMA TwoWords ==
    ASSUME IInv, NEW type \in Types \ {<<3, 25>>}, NEW counter \in Word,
           NEW in \in Arguments, counter = COUNTER[type],
           Build(type, counter, Bytes(in)), Note(type, in),
           Count(type, 1)
    PROVE  IInv'
<1>1. PICK n \in 0..8, skip \in {0, 1} : n = 2 /\ skip = 0
  OBVIOUS
<1>2. BytesAhead(type) = 17 + skip /\ Step(type) = 1
  BY <1>1 DEF BytesAhead, Step
<1>3. PICK data : data = Bytes(in)
  OBVIOUS
<1>4. /\ data \in Seq(Byte) /\ Len(data) = skip + 2 * n /\ Len(in) = n
      /\ \A k \in 1..n : data[2 * k - 1] * Base + data[2 * k] = in[k]
  BY <1>1, <1>3, ArgumentsTyped
<1>5. \A k \in 1..n : (skip + 2 * k) - 1 = 2 * k - 1 /\ skip + 2 * k = 2 * k
  BY <1>1
<1>6. \A k \in 1..n : data[(skip + 2 * k) - 1] * Base + data[skip + 2 * k]
                        = in[k]
  BY <1>4, <1>5
<1>7. /\ Build(type, counter, data) /\ Note(type, in)
      /\ Count(type, Step(type)) /\ type \in Types
  BY <1>2, <1>3
<1>8. /\ type \notin {<<1, 7>>, <<1, 8>>} => counter = COUNTER[type]
      /\ type = <<3, 25>> => n = 8 /\ data[1] = 1
  OBVIOUS
<1> QED
  BY ONLY IInv, <1>2, <1>4, <1>6, <1>7, <1>8, counter \in Word, n \in 0..8,
          skip \in {0, 1}, GeneratorKeepsIInv

(* TM[1,2], TM[1,7] and TM[1,8].                                           *)
LEMMA FailureReport ==
    ASSUME IInv, NEW type \in {<<1, 2>>, <<1, 7>>, <<1, 8>>},
           NEW in \in Arguments, generate_tm_1_278(type, in)
    PROVE  IInv'
<1> DEFINE four == <<in[1], in[2], 1, 0>>
<1>01. PICK n \in 0..8, skip \in {0, 1} : n = 4 /\ skip = 0
  OBVIOUS
<1>02. PICK counter \in Word : counter = COUNTER[<<1, 2>>]
  BY DEF IInv, Counts, Types
<1>03. PICK words : words = four
  OBVIOUS
<1>04. PICK data : data = Bytes(words)
  OBVIOUS
<1> HIDE DEF four
<1>1. /\ n = 4 /\ skip = 0 /\ counter = COUNTER[<<1, 2>>]
      /\ words = four /\ data = Bytes(words)
  BY <1>01, <1>02, <1>03, <1>04
<1>2. words \in [1..n -> Word]
  <2>1. in[1] \in Word /\ in[2] \in Word
    BY ArgumentsTyped
  <2>2. 0 \in Word /\ 1 \in Word
    BY WordModFacts DEF Word
  <2>3. four \in [1..4 -> Word]
    BY <2>1, <2>2 DEF four
  <2> QED
    BY <1>1, <2>3
<1>3. /\ data \in Seq(Byte) /\ Len(data) = 2 * n /\ Len(words) = n
      /\ \A k \in 1..n : data[2 * k - 1] * Base + data[2 * k] = words[k]
  <2>1. data = Bytes(words)
    BY <1>1
  <2> QED
    BY ONLY <1>2, <2>1, n \in 0..8, WordsWritten
<1>4. BytesAhead(type) = 17 + skip /\ Step(type) = 1 /\ type \in Types
  BY <1>1 DEF BytesAhead, Step, Types
<1>5. /\ \A k \in 1..n : (skip + 2 * k) - 1 = 2 * k - 1 /\ skip + 2 * k = 2 * k
      /\ skip + 2 * n = 2 * n
  BY <1>1
<1>6. /\ Len(data) = skip + 2 * n
      /\ \A k \in 1..n : data[(skip + 2 * k) - 1] * Base + data[skip + 2 * k]
                           = words[k]
  BY <1>3, <1>5
<1>7. /\ Build(type, counter, data) /\ Note(type, words)
      /\ Count(type, Step(type))
  BY <1>1, <1>4 DEF generate_tm_1_278, four
<1>8. Len(words) = n /\ data \in Seq(Byte)
  BY <1>3
<1>9. /\ type \notin {<<1, 7>>, <<1, 8>>} => counter = COUNTER[type]
      /\ type = <<3, 25>> => n = 8 /\ data[1] = 1
  BY <1>1
<1> QED
  BY ONLY IInv, <1>4, <1>6, <1>7, <1>8, <1>9, counter \in Word, n \in 0..8,
          skip \in {0, 1}, GeneratorKeepsIInv

(* TM[3,25].                                                               *)
LEMMA HousekeepingReport ==
    ASSUME IInv, NEW parameters \in Parameters, generate_tm_3_25(parameters)
    PROVE  IInv'
<1>01. PICK n \in 0..8, skip \in {0, 1} : n = 8 /\ skip = 1
  OBVIOUS
<1>02. PICK type \in Types : type = <<3, 25>>
  BY DEF Types
<1>03. PICK counter \in Word : counter = COUNTER[type]
  BY DEF IInv, Counts
<1>04. PICK bytes : bytes = Bytes(parameters)
  OBVIOUS
<1>05. PICK data : data = <<1>> \o bytes
  OBVIOUS
<1>1. /\ n = 8 /\ skip = 1 /\ type = <<3, 25>>
      /\ counter = COUNTER[<<3, 25>>]
      /\ bytes = Bytes(parameters) /\ data = <<1>> \o bytes
  BY <1>01, <1>02, <1>03, <1>04, <1>05
<1>2. parameters \in [1..n -> Word]
  BY <1>1, InputsAssumption
<1>3. /\ bytes \in Seq(Byte) /\ Len(bytes) = 2 * n /\ Len(parameters) = n
      /\ \A k \in 1..n :
            bytes[2 * k - 1] * Base + bytes[2 * k] = parameters[k]
  <2>1. bytes = Bytes(parameters)
    BY <1>1
  <2> QED
    BY ONLY <1>2, <2>1, n \in 0..8, WordsWritten
<1>4. PICK id \in Seq(Byte) : id = <<1>> /\ Len(id) = 1 /\ id[1] = 1
  <2>1. 1 \in Byte
    BY SizesAssumption DEF Byte
  <2>2. <<1>> \in Seq(Byte) /\ Len(<<1>>) = 1
    BY <2>1
  <2> QED
    BY <2>2
<1>5. /\ data \in Seq(Byte) /\ Len(data) = Len(id) + Len(bytes)
      /\ \A j \in 1..Len(bytes) : data[Len(id) + j] = bytes[j]
  <2>1. data = id \o bytes
    BY <1>1, <1>4
  <2>2. bytes \in Seq(Byte)
    BY <1>3
  <2> QED
    BY ONLY <2>1, <2>2, id \in Seq(Byte), Glue
<1>6. BytesAhead(type) = 17 + skip /\ Step(type) = 2
  BY <1>1 DEF BytesAhead, Step
<1>7. Len(data) = skip + 2 * n
  BY <1>1, <1>3, <1>4, <1>5
<1>8. ASSUME NEW k \in 1..n
      PROVE  data[(skip + 2 * k) - 1] * Base + data[skip + 2 * k]
               = parameters[k]
  <2>1. 2 * k - 1 \in 1..Len(bytes) /\ 2 * k \in 1..Len(bytes)
    BY <1>3
  <2>2. /\ data[Len(id) + (2 * k - 1)] = bytes[2 * k - 1]
        /\ data[Len(id) + 2 * k] = bytes[2 * k]
    BY <1>5, <2>1
  <2>3. /\ Len(id) + (2 * k - 1) = (skip + 2 * k) - 1
        /\ Len(id) + 2 * k = skip + 2 * k
    BY <1>1, <1>4
  <2> QED
    BY <1>3, <2>2, <2>3
<1>9. /\ Build(type, counter, data) /\ Note(type, parameters)
      /\ Count(type, Step(type))
  BY <1>1, <1>6 DEF generate_tm_3_25
<1>10. data[1] = 1
  <2>1. data = id \o bytes /\ 1 \in 1..Len(id) /\ bytes \in Seq(Byte)
    BY <1>1, <1>3, <1>4
  <2>2. data[1] = id[1]
    BY ONLY <2>1, id \in Seq(Byte), Glue
  <2> QED
    BY <1>4, <2>2
<1>11. /\ type \notin {<<1, 7>>, <<1, 8>>} => counter = COUNTER[type]
       /\ type = <<3, 25>> => n = 8 /\ data[1] = 1
  BY <1>1, <1>10
<1>12. Len(parameters) = n /\ data \in Seq(Byte)
  BY <1>3, <1>5
<1> QED
  BY ONLY IInv, <1>6, <1>7, <1>8, <1>9, <1>11, <1>12, counter \in Word, n \in 0..8,
          type \in Types, skip \in {0, 1}, GeneratorKeepsIInv

(* TM[17,2].                                                               *)
LEMMA AliveReport ==
    ASSUME IInv, generate_tm_17_2
    PROVE  IInv'
<1>01. PICK n \in 0..8, skip \in {0, 1} : n = 0 /\ skip = 0
  OBVIOUS
<1>02. PICK type \in Types : type = <<17, 2>>
  BY DEF Types
<1>03. PICK counter \in Word : counter = COUNTER[type]
  BY DEF IInv, Counts
<1>04. PICK data \in Seq(Byte) : data = <<>> /\ Len(data) = 0
  <2>1. <<>> \in Seq(Byte) /\ Len(<<>>) = 0
    OBVIOUS
  <2> QED
    BY <2>1, Zenon
<1>05. PICK words : words = <<>> /\ Len(words) = 0
  OBVIOUS
<1>1. /\ n = 0 /\ skip = 0 /\ type = <<17, 2>>
      /\ counter = COUNTER[<<17, 2>>]
      /\ data = <<>> /\ Len(data) = 0 /\ words = <<>> /\ Len(words) = 0
  BY <1>01, <1>02, <1>03, <1>04, <1>05
<1>2. BytesAhead(type) = 17 + skip /\ Step(type) = 1
  BY <1>1 DEF BytesAhead, Step
<1>3. Len(words) = n /\ Len(data) = skip + 2 * n
  BY <1>1
<1>4. \A k \in 1..n : data[(skip + 2 * k) - 1] * Base + data[skip + 2 * k]
                        = words[k]
  BY <1>1
<1>5. /\ Build(type, counter, data) /\ Note(type, words)
      /\ Count(type, Step(type))
  BY <1>1, <1>2 DEF generate_tm_17_2
<1>6. /\ type \notin {<<1, 7>>, <<1, 8>>} => counter = COUNTER[type]
      /\ type = <<3, 25>> => n = 8 /\ data[1] = 1
  BY <1>1
<1> QED
  BY ONLY IInv, <1>2, <1>3, <1>4, <1>5, <1>6, counter \in Word, n \in 0..8,
          type \in Types, data \in Seq(Byte), skip \in {0, 1},
          GeneratorKeepsIInv

(* A new time changes no packet that has been built.                       *)
LEMMA TimeKeepsIInv ==
    ASSUME IInv, NEW coarse_time \in Times, update_time(coarse_time)
    PROVE  IInv'
<1>1. pus_time' \in [1..18 -> Byte]
  BY TimeBytesTyped, InputsAssumption DEF update_time
<1>2. /\ UNCHANGED <<pus_data, PusFrameOut, sp_data, SPPacketOut,
                     SPPacketLength>>
      /\ UNCHANGED <<sp_packet_count, COUNTER, report, generated, total>>
  BY DEF update_time, bufferVars
<1>3. TimeShown'
  BY UpperBytes, InputsAssumption DEF update_time, TimeShown
<1> QED
  BY <1>1, <1>2, <1>3 DEF IInv, Buffers, Counts, CountersExplained,
                          PacketReadsBack, TimeTagTruncates

(* Every step keeps the invariant.                                         *)
LEMMA IInvKept == IInv /\ [Next]_tmVars => IInv'
<1> SUFFICES ASSUME IInv, [Next]_tmVars PROVE IInv'
  OBVIOUS
<1>1. \A type \in Types : COUNTER[type] \in Word
  BY DEF IInv, Counts
<1>2. <<1, 1>> \in Types \ {<<3, 25>>} /\ <<5, 1>> \in Types \ {<<3, 25>>}
  BY DEF Types
<1>3. ASSUME NEW in \in Arguments, generate_tm_1_1(in) PROVE IInv'
  <2>1. COUNTER[<<1, 1>>] \in Word
    BY <1>1, <1>2
  <2> QED
    BY <1>2, <1>3, <2>1, TwoWords DEF generate_tm_1_1
<1>4. ASSUME NEW in \in Arguments, generate_tm_5_1(in) PROVE IInv'
  <2>1. COUNTER[<<5, 1>>] \in Word
    BY <1>1, <1>2
  <2> QED
    BY <1>2, <1>4, <2>1, TwoWords DEF generate_tm_5_1
<1>5. ASSUME UNCHANGED tmVars PROVE IInv'
  BY <1>5 DEF tmVars, bufferVars, IInv, Buffers, Counts, CountersExplained,
              PacketReadsBack, TimeShown, TimeTagTruncates
<1> QED
  BY <1>3, <1>4, <1>5, FailureReport, HousekeepingReport, AliveReport,
     TimeKeepsIInv DEF Next

-----------------------------------------------------------------------------
(* So it holds in every reachable state.                                   *)
LEMMA Invariance == Spec => []IInv
BY IInvStart, IInvKept, PTL DEF Spec

(* The static buffers keep their sizes, every packet fits into them, and   *)
(* the counters stay words.                                                *)
THEOREM TelemetryTypeCorrect == Spec => []TypeOK
<1>1. IInv => TypeOK
  <2> SUFFICES ASSUME IInv PROVE TypeOK
    OBVIOUS
  <2>1. pus_data \in [1..BufferSize -> Byte]
    BY DEF IInv, Buffers
  <2> QED
    BY <2>1 DEF IInv, Buffers, Counts, TypeOK, Byte
<1> QED
  BY <1>1, Invariance, PTL

(* For every base, every buffer size that holds the longest report, every  *)
(* checksum and all arguments: the packet built last says what its report  *)
(* was to say, where its generator puts it, whatever longer reports have   *)
(* left in the buffers; and a TM[3,25] is read as that by the mission      *)
(* database.                                                               *)
THEOREM ReportsReadBack == Spec => []PacketReadsBack
<1>1. IInv => PacketReadsBack
  BY DEF IInv
<1> QED
  BY <1>1, Invariance, PTL

(* Yamcs dates every report to the beginning of the WordMod seconds in     *)
(* which it was generated, whatever the base and the time.                 *)
THEOREM ReportsTagged == Spec => []TimeTagTruncates
<1>1. IInv => TimeTagTruncates
  BY DEF IInv
<1> QED
  BY <1>1, Invariance, PTL

(* The sequence count and the counters tell how many reports there were.   *)
THEOREM ReportsCounted == Spec => []CountersExplained
<1>1. IInv => CountersExplained
  BY DEF IInv, Counts
<1> QED
  BY <1>1, Invariance, PTL
=============================================================================
