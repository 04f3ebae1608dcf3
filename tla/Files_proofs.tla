----------------------------- MODULE Files_proofs -----------------------------
(***************************************************************************)
(* The framing of packets, for parts of any number and size, and the       *)
(* reading of batches of images and of configuration files, for files of  *)
(* any number and size.                                                    *)
(***************************************************************************)
EXTENDS WireData, CifarBatches, ConfigFile, Sums_proofs, SequenceTheorems

-----------------------------------------------------------------------------
(* The invariant *)

\* A packet is a sequence of parts; one with ciphertexts has one part.
PacketOK ==
    /\ parts \in Seq(Seq(Nat))
    /\ IsEncData => Len(parts) = 1

\* The size of part i and the place at which it begins, the header's for
\* i = 0, and that behind the last part for i = Len(parts) + 1.
PartSize(i) == IF i = 0 THEN HeaderSize ELSE SavedSize(parts[i])
Offset(i)   == IF i = 0 THEN 0 ELSE HeaderSize + SumsOf(PartSizes)[i - 1]
Behind      == Len(parts) + 1

\* The parts before n are written, and no cell before the position is blank.
PartsWritten(n) ==
    \A i \in 0 .. n - 1 : \A k \in 1 .. PartSize(i) :
       buffer[Offset(i) + k] = <<i, k>>

Filled == \A k \in 1 .. wpos : buffer[k] # Blank

SenderOK ==
    /\ status = "size" => wpos = 0 /\ step = 0
    /\ status # "size" => buffer = [k \in 1 .. Offset(Behind) |-> buffer[k]]
    /\ status = "write" => /\ step \in 0 .. Behind /\ wpos = Offset(step)
                           /\ PartsWritten(step)
    /\ status \notin {"size", "write"} =>
          wpos = Offset(Behind) /\ PartsWritten(Behind)
    /\ Filled

\* The receiver has the parts before step, and is where step begins.
ReceiverOK ==
    /\ status \in {"size", "write"} => rpos = 0 /\ got = <<>>
    /\ status = "read" => /\ step \in 0 .. Behind /\ rpos = Offset(step)
                          /\ step > 0 => header = PartSizes
                          /\ Len(got) = IF step = 0 THEN 0 ELSE step - 1
    /\ got \in Seq(Seq(Nat)) /\ Len(got) <= Len(parts)
    /\ \A i \in DOMAIN got : got[i] = parts[i]

WireInv ==
    /\ status \in {"size", "write", "read", "done", "threw"}
    /\ PacketOK /\ SenderOK /\ ReceiverOK /\ RoundTrip

-----------------------------------------------------------------------------
(* Sizes and places *)

\* A part's size is a number, with or without a count in front.
LEMMA SavedSizeType ==
    ASSUME NEW p \in Seq(Nat)
    PROVE  SavedSize(p) \in Nat
<1>1. Len(p) \in 0 .. Len(p)
  OBVIOUS
<1>2. Total(p) \in Nat
  BY <1>1, SumsOfType DEF Total
<1> QED
  BY <1>2, WireAssumption DEF SavedSize

\* The parts lie behind each other.
LEMMA Places ==
    ASSUME PacketOK
    PROVE  /\ Len(parts) \in Nat /\ Behind = Len(parts) + 1
           /\ \A i \in 0 .. Len(parts) :
                 PartSize(i) \in Nat /\ Offset(i + 1) = Offset(i) + PartSize(i)
           /\ \A i \in 0 .. Behind : Offset(i) \in Nat
           /\ \A i, j \in 0 .. Behind : i <= j => Offset(i) <= Offset(j)
           /\ Offset(0) = 0 /\ Offset(1) = HeaderSize
           /\ PartSize(0) = HeaderSize
           /\ Offset(Behind) = HeaderSize + Total(PartSizes)
           /\ \A i \in DOMAIN parts : PartSizes[i] = PartSize(i)
<1>1. parts \in Seq(Seq(Nat)) /\ Len(parts) \in Nat /\ HeaderSize \in Nat
  BY WireAssumption DEF PacketOK, HeaderSize
<1>2. \A i \in 1 .. Len(parts) : SavedSize(parts[i]) \in Nat
  BY <1>1, SavedSizeType
<1>3. PartSizes = [i \in 1 .. Len(parts) |-> SavedSize(parts[i])]
  BY <1>1 DEF PartSizes, StreamSize
<1>4. PartSizes \in Seq(Nat) /\ Len(PartSizes) = Len(parts)
  BY <1>1, <1>2, <1>3
<1> DEFINE s == SumsOf(PartSizes)
<1>5. /\ s[0] = 0
      /\ \A i \in 1 .. Len(parts) : s[i] = s[i - 1] + PartSizes[i]
      /\ \A i \in 0 .. Len(parts) : s[i] \in Nat
  BY <1>4, SumsOfSteps, SumsOfType
<1>6. \A i, j \in 0 .. Len(parts) : i <= j => s[i] <= s[j]
  BY <1>4, SumsOfGrow
<1>7. Total(PartSizes) = s[Len(parts)]
  BY <1>4 DEF Total
<1> HIDE DEF s
<1>8. \A i \in 0 .. Behind :
         Offset(i) = IF i = 0 THEN 0 ELSE HeaderSize + s[i - 1]
  BY DEF Offset, s
<1>9. ASSUME NEW i \in 0 .. Len(parts)
      PROVE  PartSize(i) \in Nat /\ Offset(i + 1) = Offset(i) + PartSize(i)
  <2>1. CASE i = 0
    BY <1>1, <1>5, <1>8, <2>1 DEF PartSize, Behind
  <2>2. CASE i # 0
    <3>1. i \in 1 .. Len(parts) /\ PartSize(i) = PartSizes[i]
      BY <1>1, <1>3, <2>2 DEF PartSize
    <3>2. PartSize(i) \in Nat
      BY <1>2, <1>3, <3>1
    <3>3. s[i] = s[i - 1] + PartSize(i) /\ s[i] \in Nat /\ s[i - 1] \in Nat
      BY <1>5, <3>1
    <3>4. Offset(i) = HeaderSize + s[i - 1] /\ Offset(i + 1) = HeaderSize + s[i]
      BY <1>1, <1>8, <3>1 DEF Behind
    <3> QED
      BY <1>1, <3>2, <3>3, <3>4
  <2> QED
    BY <2>1, <2>2
<1>10. ASSUME NEW i \in 0 .. Behind
       PROVE  Offset(i) \in Nat
  <2>1. CASE i = 0
    BY <1>8, <2>1
  <2>2. CASE i # 0
    <3>1. i - 1 \in 0 .. Len(parts)
      BY <1>1, <2>2 DEF Behind
    <3>2. s[i - 1] \in Nat
      BY <1>5, <3>1
    <3> QED
      BY <1>1, <1>8, <2>2, <3>2
  <2> QED
    BY <2>1, <2>2
<1>11. ASSUME NEW i \in 0 .. Behind, NEW j \in 0 .. Behind, i <= j
       PROVE  Offset(i) <= Offset(j)
  <2>1. CASE i = 0
    BY <1>8, <1>10, <2>1
  <2>2. CASE i # 0
    <3>1. i - 1 \in 0 .. Len(parts) /\ j - 1 \in 0 .. Len(parts)
          /\ i - 1 <= j - 1 /\ j # 0
      BY <1>1, <1>11, <2>2 DEF Behind
    <3>2. s[i - 1] <= s[j - 1] /\ s[i - 1] \in Nat /\ s[j - 1] \in Nat
      BY <1>5, <1>6, <3>1
    <3> QED
      BY <1>1, <1>8, <2>2, <3>1, <3>2
  <2> QED
    BY <2>1, <2>2
<1>12. Offset(0) = 0 /\ Offset(1) = HeaderSize /\ PartSize(0) = HeaderSize
  BY <1>1, <1>5, <1>8 DEF PartSize, Behind
<1>13. Offset(Behind) = HeaderSize + Total(PartSizes)
  BY <1>1, <1>7, <1>8 DEF Behind
<1>14. \A i \in DOMAIN parts : PartSizes[i] = PartSize(i)
  BY <1>1, <1>3 DEF PartSize
<1> QED
  BY <1>1, <1>9, <1>10, <1>11, <1>12, <1>13, <1>14 DEF Behind

\* The packet fixes all of them.
LEMMA SamePlaces ==
    ASSUME kind' = kind, parts' = parts
    PROVE  /\ PacketOK' <=> PacketOK
           /\ PartSizes' = PartSizes /\ Behind' = Behind
           /\ \A i : PartSize(i)' = PartSize(i) /\ Offset(i)' = Offset(i)
<1>1. IsEncData' <=> IsEncData
  BY DEF IsEncData
<1>2. \A p : SavedSize(p)' = SavedSize(p)
  BY <1>1 DEF SavedSize
<1>3. PartSizes' = PartSizes
  BY <1>2 DEF PartSizes, StreamSize
<1> QED
  BY <1>1, <1>2, <1>3 DEF PacketOK, PartSize, Offset, Behind

-----------------------------------------------------------------------------
(* Steps of the sender *)

\* What is indexed from 1 is a sequence.
LEMMA IndexedIsSeq ==
    ASSUME NEW S, NEW n \in Nat, NEW f \in [1 .. n -> S]
    PROVE  f \in Seq(S) /\ Len(f) = n
OBVIOUS

\* Before anything is written, whatever the packet.
LEMMA WireInitInv == WireInit => WireInv
<1> SUFFICES ASSUME WireInit PROVE WireInv
  OBVIOUS
<1>1. /\ buffer = <<>> /\ wpos = 0 /\ rpos = 0 /\ step = 0 /\ got = <<>>
      /\ status = "size"
  BY DEF WireInit
<1>2. PacketOK
  <2>1. Sizes \subseteq Nat
    BY WireAssumption
  <2>2. ASSUME NEW p \in Objects
        PROVE  p \in Seq(Nat)
    <3>1. p \in [1 .. 1 -> Nat]
      BY <2>1 DEF Objects
    <3> QED
      BY <3>1, IndexedIsSeq
  <2>3. ASSUME NEW p \in Ctxts
        PROVE  p \in Seq(Nat)
    <3>1. PICK n \in 0 .. MaxCtxts : p \in [1 .. n -> Sizes]
      BY DEF Ctxts
    <3>2. n \in Nat
      BY WireAssumption
    <3>3. p \in [1 .. n -> Nat]
      BY <2>1, <3>1
    <3> QED
      BY <3>2, <3>3, IndexedIsSeq
  <2>4. CASE kind = "keys" /\ parts \in [1 .. 3 -> Objects]
    <3>1. parts \in [1 .. 3 -> Seq(Nat)]
      BY <2>2, <2>4
    <3>2. parts \in Seq(Seq(Nat))
      BY <3>1, IndexedIsSeq
    <3> QED
      BY <2>4, <3>2 DEF PacketOK, IsEncData
  <2>5. CASE parts \in [1 .. 1 -> Ctxts]
    <3>1. parts \in [1 .. 1 -> Seq(Nat)]
      BY <2>3, <2>5
    <3>2. parts \in Seq(Seq(Nat)) /\ Len(parts) = 1
      BY <3>1, IndexedIsSeq
    <3> QED
      BY <3>2 DEF PacketOK
  <2>6. CASE kind \in {"query_id", "resreq"} /\ parts = <<>>
    BY <2>6 DEF PacketOK, IsEncData
  <2> QED
    BY <2>4, <2>5, <2>6 DEF WireInit
<1>3. SenderOK
  BY <1>1 DEF SenderOK, Filled
<1>4. ReceiverOK
  <2>1. Len(parts) \in Nat
    BY <1>2 DEF PacketOK
  <2>2. got \in Seq(Seq(Nat)) /\ Len(got) = 0
    BY <1>1
  <2> QED
    BY <1>1, <2>1, <2>2 DEF ReceiverOK
<1> QED
  BY <1>1, <1>2, <1>3, <1>4 DEF WireInv, RoundTrip

\* The buffer has room for all parts.
LEMMA AllocateKeeps ==
    ASSUME WireInv, Allocate
    PROVE  WireInv'
<1>1. /\ kind' = kind /\ parts' = parts /\ wpos' = wpos /\ rpos' = rpos
      /\ step' = step /\ got' = got /\ status = "size" /\ status' = "write"
      /\ buffer' = [k \in 1 .. HeaderSize + Total(PartSizes) |-> Blank]
  BY DEF Allocate
<1>2. PacketOK /\ SenderOK /\ ReceiverOK
  BY DEF WireInv
<1>3. /\ Len(parts) \in Nat /\ Behind = Len(parts) + 1 /\ Offset(0) = 0
      /\ Offset(Behind) = HeaderSize + Total(PartSizes)
  BY <1>2, Places
<1>4. PacketOK' /\ Behind' = Behind /\ \A i : Offset(i)' = Offset(i)
  BY <1>1, <1>2, SamePlaces
<1>5. wpos = 0 /\ step = 0
  BY <1>1, <1>2 DEF SenderOK
<1>6. SenderOK'
  <2>1. buffer' = [k \in 1 .. Offset(Behind)' |-> buffer'[k]]
    BY <1>1, <1>3, <1>4
  <2>2. Offset(step)' = 0
    BY <1>1, <1>3, <1>4, <1>5
  <2>3. PartsWritten(step)'
    BY <1>1, <1>5 DEF PartsWritten
  <2>4. Filled'
    BY <1>1, <1>5 DEF Filled
  <2> QED
    BY <1>1, <1>3, <1>4, <1>5, <2>1, <2>2, <2>3, <2>4 DEF SenderOK
<1>7. ReceiverOK'
  BY <1>1, <1>2 DEF ReceiverOK
<1> QED
  BY <1>1, <1>4, <1>6, <1>7 DEF WireInv, RoundTrip

\* What is written at the position of part step goes no further than the
\* part, leaves the parts before it alone and no cell of it blank.
LEMMA WriteKeeps ==
    ASSUME WireInv, status = "write", step <= Len(parts),
           kind' = kind, parts' = parts, rpos' = rpos, got' = got,
           status' = status, step' = step + 1,
           wpos' = wpos + PartSize(step),
           buffer' = Written(step, PartSize(step))
    PROVE  WireInv'
<1> DEFINE n == PartSize(step)
<1>1. PacketOK /\ SenderOK /\ ReceiverOK
  BY DEF WireInv
<1>2. /\ step \in 0 .. Len(parts) /\ Len(parts) \in Nat
      /\ Behind = Len(parts) + 1 /\ step \in 0 .. Behind
      /\ step + 1 \in 0 .. Behind /\ Behind \in 0 .. Behind
      /\ wpos = Offset(step) /\ PartsWritten(step)
  BY <1>1, Places DEF SenderOK
<1>3. /\ n \in Nat /\ Offset(step + 1) = wpos + n /\ wpos \in Nat
      /\ Offset(Behind) \in Nat /\ wpos + n <= Offset(Behind)
  <2>1. n \in Nat /\ Offset(step + 1) = Offset(step) + n
    BY <1>1, <1>2, Places
  <2>2. Offset(step) \in Nat /\ Offset(Behind) \in Nat
    BY <1>1, <1>2, Places
  <2>3. step + 1 <= Behind
    BY <1>2
  <2>4. Offset(step + 1) <= Offset(Behind)
    BY <1>1, <1>2, <2>3, Places
  <2> QED
    BY <1>2, <2>1, <2>2, <2>4
<1>4. PacketOK' /\ Behind' = Behind
      /\ \A i : PartSize(i)' = PartSize(i) /\ Offset(i)' = Offset(i)
  BY <1>1, SamePlaces
<1> HIDE DEF n
<1>5. buffer = [k \in 1 .. Offset(Behind) |-> buffer[k]]
  BY <1>1 DEF SenderOK
<1>6. buffer' = [k \in 1 .. Offset(Behind) |->
                   IF wpos < k /\ k <= wpos + n THEN <<step, k - wpos>>
                                                ELSE buffer[k]]
  <2>1. buffer' = [k \in 1 .. Offset(Behind) |->
                     IF wpos < k /\ k <= wpos + n
                     THEN CellsOf(step, n)[k - wpos] ELSE buffer[k]]
    BY <1>5 DEF Written, n
  <2>2. ASSUME NEW k \in 1 .. Offset(Behind), wpos < k, k <= wpos + n
        PROVE  CellsOf(step, n)[k - wpos] = <<step, k - wpos>>
    BY <1>3, <2>2 DEF CellsOf
  <2> QED
    BY <2>1, <2>2
<1>7. PartsWritten(step)'
  <2> SUFFICES ASSUME NEW i \in 0 .. step, NEW k \in 1 .. PartSize(i)
               PROVE  buffer'[Offset(i) + k] = <<i, k>>
    <3>1. step' - 1 = step
      BY <1>2
    <3> QED
      BY <1>4, <3>1 DEF PartsWritten
  <2>1. i \in 0 .. Len(parts) /\ i \in 0 .. Behind /\ i + 1 \in 0 .. Behind
    BY <1>2
  <2>2. /\ Offset(i) \in Nat /\ PartSize(i) \in Nat
        /\ Offset(i + 1) = Offset(i) + PartSize(i)
    BY <1>1, <2>1, Places
  <2>3. CASE i = step
    <3>1. k \in 1 .. n /\ Offset(i) = wpos
      BY <1>2, <2>3 DEF n
    <3>2. /\ wpos + k \in 1 .. Offset(Behind)
          /\ wpos < wpos + k /\ wpos + k <= wpos + n /\ (wpos + k) - wpos = k
      BY <1>3, <3>1
    <3> QED
      BY <1>6, <2>3, <3>1, <3>2
  <2>4. CASE i # step
    <3>1. i \in 0 .. step - 1 /\ i + 1 <= step
      BY <1>2, <2>4
    <3>2. Offset(i + 1) <= wpos
      BY <1>1, <1>2, <2>1, <3>1, Places
    <3>3. buffer[Offset(i) + k] = <<i, k>>
      BY <1>2, <3>1 DEF PartsWritten
    <3>4. Offset(i) + k \in 1 .. Offset(Behind) /\ ~(wpos < Offset(i) + k)
      BY <1>3, <2>2, <3>2
    <3> QED
      BY <1>6, <3>3, <3>4
  <2> QED
    BY <2>3, <2>4
<1>8. Filled'
  <2> SUFFICES ASSUME NEW k \in 1 .. wpos + n
               PROVE  buffer'[k] # Blank
    BY DEF Filled, n
  <2>1. k \in 1 .. Offset(Behind)
    BY <1>3
  <2>2. CASE wpos < k
    <3>1. buffer'[k] = <<step, k - wpos>>
      BY <1>3, <1>6, <2>1, <2>2
    <3>2. step \in Nat /\ k - wpos \in Nat
      BY <1>2, <1>3, <2>2
    <3>3. <<step, k - wpos>> \in Nat \X Nat
      BY <3>2
    <3> QED
      BY <3>1, <3>3, WireAssumption
  <2>3. CASE ~(wpos < k)
    <3>1. buffer'[k] = buffer[k] /\ k \in 1 .. wpos
      BY <1>3, <1>6, <2>1, <2>3
    <3> QED
      BY <1>1, <3>1 DEF SenderOK, Filled
  <2> QED
    BY <2>2, <2>3
<1>9. SenderOK'
  <2>1. Offset(step)' = wpos + n
    BY <1>3, <1>4
  <2>2. buffer' = [k \in 1 .. Offset(Behind)' |-> buffer'[k]]
    BY <1>4, <1>6
  <2>3. step' \in 0 .. Behind' /\ PartsWritten(step)'
    BY <1>2, <1>4, <1>7
  <2> QED
    BY <1>4, <1>8, <2>1, <2>2, <2>3 DEF SenderOK, n
<1>10. ReceiverOK'
  BY <1>1 DEF ReceiverOK
<1> QED
  BY <1>4, <1>9, <1>10 DEF WireInv, RoundTrip

\* The header is as large as was reserved for it,
LEMMA SaveHeaderKeeps ==
    ASSUME WireInv, SaveHeader
    PROVE  WireInv'
<1>1. PartSize(step) = HeaderSize /\ step <= Len(parts)
  <2>1. PacketOK
    BY DEF WireInv
  <2>2. Len(parts) \in Nat
    BY <2>1, Places
  <2> QED
    BY <2>2 DEF SaveHeader, PartSize
<1> QED
  BY <1>1, WriteKeeps DEF SaveHeader

\* and a part takes what stream_size said it would.
LEMMA WritePartKeeps ==
    ASSUME WireInv, WritePart
    PROVE  WireInv'
<1>1. PacketOK
  BY DEF WireInv
<1>2. step \in 1 .. Len(parts) /\ Len(parts) \in Nat
  BY <1>1 DEF WritePart, PacketOK
<1>3. PartSize(step) = SavedSize(parts[step]) /\ step <= Len(parts)
  BY <1>2 DEF PartSize
<1> QED
  BY <1>3, WriteKeeps DEF WritePart

\* What is sent is complete.
LEMMA SendKeeps ==
    ASSUME WireInv, Send
    PROVE  WireInv'
<1>1. /\ kind' = kind /\ parts' = parts /\ buffer' = buffer /\ wpos' = wpos
      /\ rpos' = rpos /\ step' = 0 /\ got' = got
      /\ status = "write" /\ status' = "read" /\ step = Behind
  BY DEF Send, Behind
<1>2. PacketOK /\ SenderOK /\ ReceiverOK
  BY DEF WireInv
<1>3. Offset(0) = 0 /\ Len(parts) \in Nat /\ Behind = Len(parts) + 1
  BY <1>2, Places
<1>4. PacketOK' /\ Behind' = Behind
      /\ \A i : PartSize(i)' = PartSize(i) /\ Offset(i)' = Offset(i)
  BY <1>1, <1>2, SamePlaces
<1>5. PartsWritten(Behind)'
  BY <1>1, <1>2, <1>4 DEF SenderOK, PartsWritten
<1>6. SenderOK'
  <2>1. wpos' = Offset(Behind)'
    BY <1>1, <1>2, <1>4 DEF SenderOK
  <2>2. buffer' = [k \in 1 .. Offset(Behind)' |-> buffer'[k]]
    BY <1>1, <1>2, <1>4 DEF SenderOK
  <2>3. Filled'
    BY <1>1, <1>2 DEF SenderOK, Filled
  <2> QED
    BY <1>1, <1>5, <2>1, <2>2, <2>3 DEF SenderOK
<1>7. ReceiverOK'
  <2>1. rpos' = Offset(step)' /\ step' \in 0 .. Behind'
    BY <1>1, <1>2, <1>3, <1>4 DEF ReceiverOK
  <2> QED
    BY <1>1, <1>2, <2>1 DEF ReceiverOK
<1> QED
  BY <1>1, <1>4, <1>6, <1>7 DEF WireInv, RoundTrip

-----------------------------------------------------------------------------
(* Steps of the receiver *)

\* n cells behind the first a.
LEMMA CellsOfSubSeq ==
    ASSUME NEW S, NEW s, NEW a \in Nat, NEW n \in Nat,
           \A k \in a + 1 .. a + n : s[k] \in S
    PROVE  SubSeq(s, a + 1, a + n) = [k \in 1 .. n |-> s[a + k]]
<1>1. PICK b \in Int, e \in Int : b = a + 1 /\ e = a + n
  OBVIOUS
<1>2. \A k \in b .. e : s[k] \in S
  BY <1>1
<1>3. /\ SubSeq(s, b, e) \in Seq(S)
      /\ Len(SubSeq(s, b, e)) = IF b <= e THEN e - b + 1 ELSE 0
      /\ \A k \in 1 .. e - b + 1 : SubSeq(s, b, e)[k] = s[b + k - 1]
  BY <1>2, SubSeqProperties
<1>4. e - b + 1 = n /\ \A k \in 1 .. n : b + k - 1 = a + k
  BY <1>1
<1>5. Len(SubSeq(s, b, e)) = n
  BY <1>1, <1>3
<1>6. \A k \in 1 .. n : SubSeq(s, b, e)[k] = s[a + k]
  BY <1>3, <1>4
<1>7. SubSeq(s, b, e) = [k \in 1 .. n |-> SubSeq(s, b, e)[k]]
  BY <1>3, <1>5
<1> QED
  BY <1>1, <1>6, <1>7

\* A part that was written is found at its place.
LEMMA Found ==
    ASSUME WireInv, status = "read", step \in 0 .. Len(parts)
    PROVE  CellsAt(rpos, PartSize(step)) = CellsOf(step, PartSize(step))
<1> DEFINE n == PartSize(step)
<1>1. PacketOK /\ SenderOK /\ ReceiverOK
  BY DEF WireInv
<1>2. /\ Len(parts) \in Nat /\ Behind = Len(parts) + 1 /\ step \in 0 .. Behind
      /\ n \in Nat /\ rpos = Offset(step) /\ rpos \in Nat
  BY <1>1, Places DEF ReceiverOK
<1>3. \A k \in 1 .. n : buffer[rpos + k] = <<step, k>>
  BY <1>1, <1>2 DEF SenderOK, PartsWritten
<1> HIDE DEF n
<1>4. CellsAt(rpos, n) = [k \in 1 .. n |-> buffer[rpos + k]]
  <2>1. /\ buffer = [k \in 1 .. Offset(Behind) |-> buffer[k]]
        /\ Offset(Behind) \in Nat /\ rpos + n <= Offset(Behind)
    <3>1. Offset(step + 1) = rpos + n
      BY <1>1, <1>2, Places DEF n
    <3>2. /\ step + 1 \in 0 .. Behind /\ Behind \in 0 .. Behind
          /\ step + 1 <= Behind
      BY <1>2
    <3>3. Offset(step + 1) <= Offset(Behind) /\ Offset(Behind) \in Nat
      BY <1>1, <3>2, Places
    <3> QED
      BY <1>1, <3>1, <3>3 DEF SenderOK
  <2> DEFINE S == {buffer[k] : k \in 1 .. Offset(Behind)}
  <2>2. buffer \in [1 .. Offset(Behind) -> S]
    BY <2>1
  <2> HIDE DEF S
  <2>3. ASSUME NEW k \in rpos + 1 .. rpos + n
        PROVE  buffer[k] \in S
    <3>1. k \in 1 .. Offset(Behind)
      BY <1>2, <2>1
    <3> QED
      BY <2>2, <3>1
  <2> QED
    BY <1>2, <2>3, CellsOfSubSeq DEF CellsAt
<1>5. CellsAt(rpos, n) = CellsOf(step, n)
  BY <1>3, <1>4 DEF CellsOf
<1> QED
  BY <1>5 DEF n

\* The sender's side is settled while the receiver reads.
LEMMA SenderStays ==
    ASSUME WireInv, status = "read", status' \in {"read", "done", "threw"},
           kind' = kind, parts' = parts, buffer' = buffer, wpos' = wpos
    PROVE  /\ PacketOK' /\ SenderOK' /\ Behind' = Behind
           /\ PartSizes' = PartSizes
           /\ \A i : Offset(i)' = Offset(i)
<1>1. PacketOK /\ SenderOK
  BY DEF WireInv
<1>2. PacketOK' /\ Behind' = Behind /\ PartSizes' = PartSizes
      /\ \A i : PartSize(i)' = PartSize(i) /\ Offset(i)' = Offset(i)
  BY <1>1, SamePlaces
<1>3. PartsWritten(Behind)'
  BY <1>1, <1>2 DEF SenderOK, PartsWritten
<1>4. wpos' = Offset(Behind)'
  BY <1>1, <1>2 DEF SenderOK
<1>5. buffer' = [k \in 1 .. Offset(Behind)' |-> buffer'[k]]
  BY <1>1, <1>2 DEF SenderOK
<1>6. Filled'
  BY <1>1 DEF SenderOK, Filled
<1> QED
  BY <1>2, <1>3, <1>4, <1>5, <1>6 DEF SenderOK

\* The header is found, and with it the sizes.
LEMMA LoadHeaderKeeps ==
    ASSUME WireInv, LoadHeader
    PROVE  WireInv'
<1>1. PacketOK /\ ReceiverOK /\ status = "read" /\ step = 0
  BY DEF WireInv, LoadHeader
<1>2. /\ Len(parts) \in Nat /\ Behind = Len(parts) + 1 /\ Offset(0) = 0
      /\ Offset(1) = HeaderSize /\ PartSize(0) = HeaderSize
  BY <1>1, Places
<1>3. CellsAt(rpos, HeaderSize) = CellsOf(0, HeaderSize)
  <2>1. step \in 0 .. Len(parts)
    BY <1>1, <1>2
  <2> QED
    BY <1>1, <1>2, <2>1, Found
<1>4. /\ header' = PartSizes /\ rpos' = rpos + HeaderSize /\ step' = 1
      /\ status' = status /\ got' = got
      /\ kind' = kind /\ parts' = parts /\ buffer' = buffer /\ wpos' = wpos
  BY <1>3 DEF LoadHeader
<1>5. /\ PacketOK' /\ SenderOK' /\ Behind' = Behind /\ PartSizes' = PartSizes
      /\ \A i : Offset(i)' = Offset(i)
  BY <1>1, <1>4, SenderStays
<1>6. HeaderSize \in Nat
  BY WireAssumption DEF HeaderSize
<1>7. rpos' = Offset(step)'
  <2>1. rpos = 0
    BY <1>1, <1>2 DEF ReceiverOK
  <2> QED
    BY <1>2, <1>4, <1>5, <1>6, <2>1
<1>8. ReceiverOK'
  <2>1. step' \in 0 .. Behind' /\ header' = PartSizes'
        /\ Len(got') = step' - 1
    BY <1>1, <1>2, <1>4, <1>5 DEF ReceiverOK
  <2> QED
    BY <1>1, <1>4, <1>7, <2>1 DEF ReceiverOK
<1> QED
  BY <1>1, <1>4, <1>5, <1>8 DEF WireInv, RoundTrip

\* Each part is found and its reader stops where the next one begins.
LEMMA ReadPartKeeps ==
    ASSUME WireInv, ReadPart
    PROVE  WireInv'
<1>1. PacketOK /\ ReceiverOK /\ status = "read" /\ step \in DOMAIN parts
  BY DEF WireInv, ReadPart
<1>2. /\ Len(parts) \in Nat /\ Behind = Len(parts) + 1
      /\ step \in 1 .. Len(parts) /\ step \in 0 .. Len(parts)
  <2>1. Len(parts) \in Nat /\ Behind = Len(parts) + 1
    BY <1>1, Places
  <2>2. step \in 1 .. Len(parts)
    BY <1>1 DEF PacketOK
  <2> QED
    BY <2>1, <2>2
<1>3. /\ PartSize(step) \in Nat
      /\ Offset(step + 1) = Offset(step) + PartSize(step)
      /\ PartSizes[step] = PartSize(step)
  BY <1>1, <1>2, Places
<1>4. header[step] = PartSize(step) /\ LoadedSize(step) = PartSize(step)
  <2>1. header = PartSizes
    BY <1>1, <1>2 DEF ReceiverOK
  <2>2. LoadedSize(step) = PartSize(step)
    BY <1>2 DEF LoadedSize, PartSize
  <2> QED
    BY <1>3, <2>1, <2>2
<1>5. CellsAt(rpos, PartSize(step)) = CellsOf(step, PartSize(step))
  BY <1>1, <1>2, Found
<1>6. /\ got' = Append(got, parts[step]) /\ rpos' = rpos + PartSize(step)
      /\ step' = step + 1 /\ status' = status /\ header' = header
      /\ kind' = kind /\ parts' = parts /\ buffer' = buffer /\ wpos' = wpos
  BY <1>3, <1>4, <1>5 DEF ReadPart
<1>7. /\ PacketOK' /\ SenderOK' /\ Behind' = Behind /\ PartSizes' = PartSizes
      /\ \A i : Offset(i)' = Offset(i)
  BY <1>1, <1>6, SenderStays
<1>8. /\ got \in Seq(Seq(Nat)) /\ Len(got) = step - 1
      /\ parts[step] \in Seq(Nat) /\ \A i \in DOMAIN got : got[i] = parts[i]
  BY <1>1, <1>2 DEF ReceiverOK, PacketOK
<1>9. /\ got' \in Seq(Seq(Nat)) /\ Len(got') = step
      /\ \A i \in DOMAIN got' : got'[i] = parts[i]
  <2>1. got' \in Seq(Seq(Nat)) /\ Len(got') = step /\ DOMAIN got' = 1 .. step
    BY <1>2, <1>6, <1>8
  <2>2. ASSUME NEW i \in 1 .. step
        PROVE  got'[i] = parts[i]
    BY <1>2, <1>6, <1>8
  <2> QED
    BY <2>1, <2>2
<1>10. rpos' = Offset(step)'
  <2>1. rpos = Offset(step)
    BY <1>1 DEF ReceiverOK
  <2> QED
    BY <1>3, <1>6, <1>7, <2>1
<1>11. ReceiverOK'
  <2>1. step' \in 0 .. Behind' /\ header' = PartSizes'
        /\ Len(got') = step' - 1 /\ step' > 0 /\ Len(got') <= Len(parts)
    BY <1>1, <1>2, <1>6, <1>7, <1>9 DEF ReceiverOK
  <2> QED
    BY <1>1, <1>6, <1>9, <1>10, <2>1 DEF ReceiverOK
<1> QED
  BY <1>1, <1>6, <1>7, <1>11 DEF WireInv, RoundTrip

\* All parts are read: there is nothing more to find, unless no ciphertext
\* was sent.
LEMMA ProcessKeeps ==
    ASSUME WireInv, Process
    PROVE  WireInv'
<1>1. PacketOK /\ ReceiverOK /\ status = "read" /\ step = Behind
  BY DEF WireInv, Process, Behind
<1>2. /\ kind' = kind /\ parts' = parts /\ buffer' = buffer /\ wpos' = wpos
      /\ rpos' = rpos /\ got' = got /\ step' = step /\ header' = header
      /\ status' = IF IsEncData /\ got[1] = <<>> THEN "threw" ELSE "done"
  BY DEF Process
<1>3. Len(parts) \in Nat /\ Behind = Len(parts) + 1 /\ parts \in Seq(Seq(Nat))
      /\ Offset(Behind) = HeaderSize + Total(PartSizes)
  BY <1>1, Places DEF PacketOK
<1>4. /\ PacketOK' /\ SenderOK' /\ Behind' = Behind
      /\ \A i : Offset(i)' = Offset(i)
  BY <1>1, <1>2, SenderStays
<1>5. got = parts
  <2>1. Len(got) = Len(parts) /\ got \in Seq(Seq(Nat))
        /\ \A i \in DOMAIN got : got[i] = parts[i]
    BY <1>1, <1>3 DEF ReceiverOK
  <2>2. DOMAIN got = 1 .. Len(got)
    BY <2>1
  <2>3. \A i \in 1 .. Len(got) : got[i] = parts[i]
    BY <2>1, <2>2
  <2> QED
    BY <1>3, <2>1, <2>3, SeqEqual
<1>6. rpos = Len(buffer)
  <2>1. buffer = [k \in 1 .. Offset(Behind) |-> buffer[k]]
    BY <1>1 DEF WireInv, SenderOK
  <2>2. Offset(Behind) \in Nat /\ rpos = Offset(Behind)
    BY <1>1, <1>3, Places DEF ReceiverOK
  <2> QED
    BY <2>1, <2>2
<1>7. ReceiverOK'
  BY <1>1, <1>2 DEF ReceiverOK
<1>8. RoundTrip'
  <2>1. CASE IsEncData /\ got[1] = <<>>
    BY <1>2, <1>5, <2>1 DEF RoundTrip, IsEncData
  <2>2. CASE ~(IsEncData /\ got[1] = <<>>)
    BY <1>2, <1>5, <1>6, <2>2 DEF RoundTrip
  <2> QED
    BY <2>1, <2>2
<1> QED
  BY <1>2, <1>4, <1>7, <1>8 DEF WireInv

-----------------------------------------------------------------------------
\* WireInv holds from the first size to the last part.
THEOREM WireInvHolds == WireSpec => []WireInv
<1>1. WireInv /\ [WireNext]_wireVars => WireInv'
  <2> SUFFICES ASSUME WireInv, [WireNext]_wireVars PROVE WireInv'
    OBVIOUS
  <2>1. CASE UNCHANGED wireVars
    <3>1. /\ kind' = kind /\ parts' = parts /\ buffer' = buffer
          /\ wpos' = wpos /\ rpos' = rpos /\ step' = step
          /\ header' = header /\ got' = got /\ status' = status
      BY <2>1 DEF wireVars
    <3>2. /\ PacketOK' <=> PacketOK
          /\ PartSizes' = PartSizes /\ Behind' = Behind
          /\ \A i : PartSize(i)' = PartSize(i) /\ Offset(i)' = Offset(i)
      BY <3>1, SamePlaces
    <3>3. Offset(Behind)' = Offset(Behind) /\ Offset(step)' = Offset(step)
      BY <3>1, <3>2
    <3>4. /\ PartsWritten(Behind)' <=> PartsWritten(Behind)
          /\ PartsWritten(step)' <=> PartsWritten(step)
      BY <3>1, <3>2 DEF PartsWritten
    <3>5. SenderOK'
      BY <3>1, <3>2, <3>3, <3>4 DEF WireInv, SenderOK, Filled
    <3>6. ReceiverOK'
      BY <3>1, <3>2, <3>3 DEF WireInv, ReceiverOK
    <3>7. RoundTrip'
      BY <3>1 DEF WireInv, RoundTrip, IsEncData
    <3> QED
      BY <3>1, <3>2, <3>5, <3>6, <3>7 DEF WireInv
  <2>2. CASE Allocate
    BY <2>2, AllocateKeeps
  <2>3. CASE SaveHeader
    BY <2>3, SaveHeaderKeeps
  <2>4. CASE WritePart
    BY <2>4, WritePartKeeps
  <2>5. CASE Send
    BY <2>5, SendKeeps
  <2>6. CASE LoadHeader
    BY <2>6, LoadHeaderKeeps
  <2>7. CASE ReadPart
    BY <2>7, ReadPartKeeps
  <2>8. CASE Process
    BY <2>8, ProcessKeeps
  <2> QED
    BY <2>1, <2>2, <2>3, <2>4, <2>5, <2>6, <2>7, <2>8 DEF WireNext
<1> QED
  BY <1>1, WireInitInv, PTL DEF WireSpec

\* Nothing is written past the buffer and no cell of it stays blank, whatever
\* the packet and the sizes of its parts.
THEOREM FillsItsBufferHolds == WireSpec => []FillsItsBuffer
<1>1. WireInv => FillsItsBuffer
  <2> SUFFICES ASSUME WireInv, status # "size" PROVE FillsItsBuffer
    BY DEF FillsItsBuffer
  <2>1. PacketOK /\ SenderOK
    BY DEF WireInv
  <2>2. /\ Len(parts) \in Nat /\ Behind = Len(parts) + 1
        /\ Offset(Behind) \in Nat
        /\ \A i \in 0 .. Behind : Offset(i) <= Offset(Behind)
    BY <2>1, Places
  <2>3. Len(buffer) = Offset(Behind) /\ DOMAIN buffer = 1 .. Offset(Behind)
    BY <2>1, <2>2 DEF SenderOK
  <2>4. wpos <= Len(buffer)
    BY <2>1, <2>2, <2>3 DEF SenderOK, WireInv
  <2>5. ASSUME status \in {"read", "done", "threw"}
        PROVE  \A k \in DOMAIN buffer : buffer[k] # Blank
    BY <2>1, <2>3, <2>5 DEF SenderOK, Filled
  <2> QED
    BY <2>4, <2>5 DEF FillsItsBuffer
<1> QED
  BY <1>1, WireInvHolds, PTL

\* The receiver gets the parts that were sent, and leaves no byte over.
THEOREM RoundTripHolds == WireSpec => []RoundTrip
<1>1. WireInv => RoundTrip
  BY DEF WireInv
<1> QED
  BY <1>1, WireInvHolds, PTL

-----------------------------------------------------------------------------
(* Flattened sequences *)

\* Concatenation, by a name that provers leave alone.
Glue(s, t) == s \o t

\* The beginnings of a sequence of sequences, flattened, by their length.
IsBeginnings(h, y) ==
    /\ h[0] = <<>>
    /\ \A i \in 1 .. Len(y) : h[i] = Glue(h[i - 1], y[i])
    /\ h[Len(y)] = FlattenSeq(y)

Beginnings(y) == CHOOSE h : IsBeginnings(h, y)

\* What one sequence after the other is appended to, as a function.
Glued(f, y, n) ==
    f = [i \in 0 .. n |-> IF i = 0 THEN <<>> ELSE Glue(f[i - 1], y[i])]

\* Such a function exists for any sequence of sequences,
LEMMA GluedExist ==
    ASSUME NEW y, NEW n \in Nat
    PROVE  \E f : Glued(f, y, n)
<1> DEFINE S == {k \in Nat : \E f : Glued(f, y, k)}
<1>1. 0 \in S
  <2> DEFINE f == [i \in {0} |-> <<>>]
  <2>1. f = [i \in 0 .. 0 |-> IF i = 0 THEN <<>> ELSE Glue(f[i - 1], y[i])]
    OBVIOUS
  <2> QED
    BY <2>1 DEF Glued
<1>2. ASSUME NEW k \in Nat, k \in S
      PROVE  k + 1 \in S
  <2>1. PICK f : f = [i \in 0 .. k |->
                        IF i = 0 THEN <<>> ELSE Glue(f[i - 1], y[i])]
    BY <1>2 DEF Glued
  <2> DEFINE g == [i \in 0 .. k + 1 |->
                     IF i = k + 1 THEN Glue(f[k], y[i]) ELSE f[i]]
  <2>2. ASSUME NEW i \in 0 .. k + 1
        PROVE  g[i] = IF i = 0 THEN <<>> ELSE Glue(g[i - 1], y[i])
    <3>1. CASE i = k + 1
      BY <3>1
    <3>2. CASE i # k + 1
      <4>1. i \in 0 .. k /\ g[i] = f[i]
        BY <3>2
      <4>2. i # 0 => i - 1 \in 0 .. k /\ g[i - 1] = f[i - 1]
        BY <4>1
      <4>3. f[i] = IF i = 0 THEN <<>> ELSE Glue(f[i - 1], y[i])
        BY <2>1, <4>1
      <4> HIDE DEF g
      <4> QED
        BY <4>1, <4>2, <4>3
    <3> QED
      BY <3>1, <3>2
  <2>3. Glued(g, y, k + 1)
    BY <2>2 DEF Glued
  <2> QED
    BY <2>3
<1>3. Nat \subseteq S
  <2> HIDE DEF S
  <2> QED
    BY <1>1, <1>2, SetInduction
<1> QED
  BY <1>3

\* it takes the steps it should,
LEMMA GluedSteps ==
    ASSUME NEW f, NEW y, NEW n \in Nat, Glued(f, y, n)
    PROVE  f[0] = <<>> /\ \A i \in 1 .. n : f[i] = Glue(f[i - 1], y[i])
<1>1. f = [i \in 0 .. n |-> IF i = 0 THEN <<>> ELSE Glue(f[i - 1], y[i])]
  BY DEF Glued
<1> QED
  BY <1>1

\* and its last value is the flattened sequence.
LEMMA BeginningsExist ==
    ASSUME NEW C, NEW y \in Seq(Seq(C))
    PROVE  \E h : IsBeginnings(h, y)
<1>1. Len(y) \in Nat /\ \A i \in 1 .. Len(y) : y[i] \in Seq(C)
  OBVIOUS
<1>2. CASE Len(y) = 0
  <2> DEFINE h == [i \in {0} |-> <<>>]
  <2>1. y = <<>> /\ FlattenSeq(y) = <<>>
    BY <1>2 DEF FlattenSeq
  <2>2. h[0] = <<>> /\ h[Len(y)] = FlattenSeq(y)
    BY <1>2, <2>1
  <2>3. 1 .. Len(y) = {}
    BY <1>2
  <2> HIDE DEF h
  <2> QED
    BY <2>2, <2>3 DEF IsBeginnings
<1>3. CASE Len(y) # 0
  <2>1. PICK g : g[0] = <<>>
                 /\ \A i \in 1 .. Len(y) : g[i] = Glue(g[i - 1], y[i])
    <3>1. PICK g : Glued(g, y, Len(y))
      BY <1>1, GluedExist
    <3> QED
      BY <1>1, <3>1, GluedSteps
  <2> DEFINE e == [i \in 1 .. Len(y) |-> g[i]]
  <2>2. ASSUME NEW i \in 1 .. Len(y)
        PROVE  e[i] = IF i = 1 THEN y[i] ELSE Glue(e[i - 1], y[i])
    <3>1. g[i] = Glue(g[i - 1], y[i]) /\ e[i] = g[i]
      BY <2>1
    <3>2. CASE i = 1
      <4>1. g[0] = <<>>
        BY <2>1
      <4>2. y[i] \in Seq(C)
        BY <1>1
      <4>3. Glue(<<>>, y[i]) = y[i]
        BY <4>2 DEF Glue
      <4> QED
        BY <3>1, <3>2, <4>1, <4>3
    <3>3. CASE i # 1
      <4>1. i - 1 \in 1 .. Len(y) /\ e[i - 1] = g[i - 1]
        BY <1>1, <3>3
      <4> HIDE DEF e
      <4> QED
        BY <3>1, <3>3, <4>1
    <3> QED
      BY <3>2, <3>3
  <2>3. \E f : f = [i \in 1 .. Len(y) |->
                      IF i = 1 THEN y[i] ELSE Glue(f[i - 1], y[i])]
    <3>1. e = [i \in 1 .. Len(y) |->
                 IF i = 1 THEN y[i] ELSE Glue(e[i - 1], y[i])]
      BY <2>2
    <3> QED
      BY <3>1
  <2> DEFINE f == CHOOSE f : f = [i \in 1 .. Len(y) |->
                      IF i = 1 THEN y[i] ELSE Glue(f[i - 1], y[i])]
  <2>4. f = [i \in 1 .. Len(y) |-> IF i = 1 THEN y[i] ELSE Glue(f[i - 1], y[i])]
    BY <2>3
  <2>5. FlattenSeq(y) = f[Len(y)]
    BY <1>3 DEF FlattenSeq, Glue
  <2> HIDE DEF f
  <2> DEFINE h == [i \in 0 .. Len(y) |-> IF i = 0 THEN <<>> ELSE f[i]]
  <2>6. ASSUME NEW i \in 1 .. Len(y)
        PROVE  h[i] = Glue(h[i - 1], y[i])
    <3>1. h[i] = f[i] /\ f[i] = IF i = 1 THEN y[i] ELSE Glue(f[i - 1], y[i])
      <4>1. h[i] = f[i]
        BY <1>1
      <4> HIDE DEF h
      <4>2. f[i] = IF i = 1 THEN y[i] ELSE Glue(f[i - 1], y[i])
        BY <2>4
      <4> QED
        BY <4>1, <4>2
    <3>2. CASE i = 1
      <4>1. h[i - 1] = <<>> /\ y[i] \in Seq(C)
        BY <1>1, <3>2
      <4>2. Glue(<<>>, y[i]) = y[i]
        BY <4>1 DEF Glue
      <4> QED
        BY <3>1, <3>2, <4>1, <4>2
    <3>3. CASE i # 1
      <4>1. h[i - 1] = f[i - 1]
        BY <1>1, <3>3
      <4> QED
        BY <3>1, <3>3, <4>1
    <3> QED
      BY <3>2, <3>3
  <2>7. h[0] = <<>> /\ h[Len(y)] = FlattenSeq(y)
    BY <1>1, <1>3, <2>5
  <2> HIDE DEF h
  <2> QED
    BY <2>6, <2>7 DEF IsBeginnings
<1> QED
  BY <1>2, <1>3

\* Each beginning is the one before it with one more sequence.
LEMMA BeginningsSteps ==
    ASSUME NEW C, NEW y \in Seq(Seq(C))
    PROVE  /\ Beginnings(y)[0] = <<>>
           /\ \A i \in 1 .. Len(y) :
                 Beginnings(y)[i] = Glue(Beginnings(y)[i - 1], y[i])
           /\ Beginnings(y)[Len(y)] = FlattenSeq(y)
<1>1. IsBeginnings(Beginnings(y), y)
  BY BeginningsExist DEF Beginnings
<1> QED
  BY <1>1 DEF IsBeginnings

\* They are sequences of the same items.
LEMMA BeginningsType ==
    ASSUME NEW C, NEW b, NEW y, NEW n \in Nat, b[0] = <<>>,
           \A i \in 1 .. n : b[i] = Glue(b[i - 1], y[i]) /\ y[i] \in Seq(C)
    PROVE  \A i \in 0 .. n : b[i] \in Seq(C)
<1> DEFINE S == {k \in Nat : k <= n => b[k] \in Seq(C)}
<1>1. 0 \in S
  <2>1. <<>> \in Seq(C)
    OBVIOUS
  <2> QED
    BY <2>1
<1>2. ASSUME NEW k \in Nat, k \in S
      PROVE  k + 1 \in S
  <2> SUFFICES ASSUME k + 1 <= n
               PROVE  b[k + 1] \in Seq(C)
    OBVIOUS
  <2>1. k + 1 \in 1 .. n /\ (k + 1) - 1 = k
    OBVIOUS
  <2>2. b[k + 1] = Glue(b[k], y[k + 1]) /\ y[k + 1] \in Seq(C)
    BY <2>1
  <2>3. b[k] \in Seq(C)
    BY <1>2
  <2>4. Glue(b[k], y[k + 1]) \in Seq(C)
    BY <2>2, <2>3 DEF Glue
  <2> QED
    BY <2>2, <2>4
<1>3. Nat \subseteq S
  <2> HIDE DEF S
  <2> QED
    BY <1>1, <1>2, SetInduction
<1> QED
  BY <1>3

\* s is how t starts.
StartOf(s, t) ==
    Len(s) <= Len(t) /\ \A i \in 1 .. Len(s) : s[i] = t[i]

\* A start is a prefix.
LEMMA StartIsPrefix ==
    ASSUME NEW C, NEW s \in Seq(C), NEW t \in Seq(C), StartOf(s, t)
    PROVE  IsPrefix(s, t)
<1>1. Len(s) \in Nat /\ Len(t) \in Nat /\ Len(s) <= Len(t)
  BY DEF StartOf
<1>2. SubSeq(s, 1, Len(s)) = [i \in 1 .. Len(s) |-> s[i]]
  BY <1>1
<1>3. SubSeq(t, 1, Len(s)) = [i \in 1 .. Len(s) |-> t[i]]
  BY <1>1
<1>4. \A i \in 1 .. Len(s) : s[i] = t[i]
  BY DEF StartOf
<1> QED
  BY <1>1, <1>2, <1>3, <1>4 DEF IsPrefix

\* What is appended to a whole start, or nothing to any start, goes on with it.
LEMMA StartGoesOn ==
    ASSUME NEW C, NEW s \in Seq(C), NEW t \in Seq(C), NEW m \in Seq(C),
           NEW y \in Seq(C), StartOf(s, t), StartOf(m, y),
           Len(s) = Len(t) \/ m = <<>>
    PROVE  /\ s \o m \in Seq(C) /\ t \o y \in Seq(C)
           /\ StartOf(s \o m, t \o y)
           /\ Len(s \o m) = Len(s) + Len(m)
           /\ Len(t \o y) = Len(t) + Len(y)
           /\ Len(s) \in Nat /\ Len(t) \in Nat /\ Len(m) \in Nat
           /\ Len(y) \in Nat
<1>1. /\ Len(s) \in Nat /\ Len(t) \in Nat /\ Len(m) \in Nat /\ Len(y) \in Nat
      /\ Len(s) <= Len(t) /\ Len(m) <= Len(y)
  BY DEF StartOf
<1>2. /\ s \o m \in Seq(C) /\ t \o y \in Seq(C)
      /\ Len(s \o m) = Len(s) + Len(m) /\ Len(t \o y) = Len(t) + Len(y)
  OBVIOUS
<1>3. ASSUME NEW i \in 1 .. Len(s) + Len(m)
      PROVE  (s \o m)[i] = (t \o y)[i]
  <2>1. CASE i <= Len(s)
    <3>1. i \in 1 .. Len(s) /\ i \in 1 .. Len(t)
      BY <1>1, <2>1
    <3>2. (s \o m)[i] = s[i] /\ (t \o y)[i] = t[i]
      BY <3>1
    <3> QED
      BY <3>1, <3>2 DEF StartOf
  <2>2. CASE i > Len(s)
    <3>1. Len(s) = Len(t) /\ i - Len(s) \in 1 .. Len(m)
          /\ i - Len(s) \in 1 .. Len(y)
      BY <1>1, <2>2
    <3>2. (s \o m)[i] = m[i - Len(s)] /\ (t \o y)[i] = y[i - Len(s)]
      BY <1>1, <2>2, <3>1
    <3> QED
      BY <3>1, <3>2 DEF StartOf
  <2> QED
    BY <1>1, <2>1, <2>2
<1> QED
  BY <1>1, <1>2, <1>3 DEF StartOf

\* A start of a sequence is one of any that goes on from it.
LEMMA StartOfLonger ==
    ASSUME NEW C, NEW s \in Seq(C), NEW t \in Seq(C), NEW y \in Seq(C),
           StartOf(s, t)
    PROVE  StartOf(s, Glue(t, y))
<1>1. Len(s) \in Nat /\ Len(t) \in Nat /\ Len(y) \in Nat /\ Len(s) <= Len(t)
  BY DEF StartOf
<1>2. Len(t \o y) = Len(t) + Len(y)
  OBVIOUS
<1>3. ASSUME NEW i \in 1 .. Len(s)
      PROVE  (t \o y)[i] = t[i] /\ s[i] = t[i]
  BY <1>1 DEF StartOf
<1> QED
  BY <1>1, <1>2, <1>3 DEF StartOf, Glue

\* A longer beginning starts with a shorter one.
LEMMA BeginningsGrow ==
    ASSUME NEW C, NEW b, NEW y, NEW n \in Nat,
           \A k \in 0 .. n : b[k] \in Seq(C),
           \A k \in 1 .. n : b[k] = Glue(b[k - 1], y[k]) /\ y[k] \in Seq(C),
           NEW i \in Nat, NEW j \in 0 .. n, i <= j
    PROVE  StartOf(b[i], b[j])
<1> DEFINE S == {d \in Nat : i + d <= n => StartOf(b[i], b[i + d])}
<1>1. 0 \in S
  <2>1. b[i] \in Seq(C) /\ i + 0 = i
    OBVIOUS
  <2>2. StartOf(b[i], b[i])
    BY <2>1 DEF StartOf
  <2> QED
    BY <2>1, <2>2
<1>2. ASSUME NEW d \in Nat, d \in S
      PROVE  d + 1 \in S
  <2> SUFFICES ASSUME i + d + 1 <= n
               PROVE  StartOf(b[i], b[i + (d + 1)])
    OBVIOUS
  <2>1. i + d + 1 \in 1 .. n /\ (i + d + 1) - 1 = i + d
        /\ i + (d + 1) = i + d + 1 /\ i + d \in 0 .. n /\ i \in 0 .. n
    OBVIOUS
  <2>2. b[i + d + 1] = Glue(b[i + d], y[i + d + 1])
        /\ y[i + d + 1] \in Seq(C)
    BY <2>1
  <2>3. b[i] \in Seq(C) /\ b[i + d] \in Seq(C)
    BY <2>1
  <2>4. StartOf(b[i], b[i + d])
    BY <1>2, <2>1
  <2>5. StartOf(b[i], Glue(b[i + d], y[i + d + 1]))
    BY <2>2, <2>3, <2>4, StartOfLonger
  <2> QED
    BY <2>1, <2>2, <2>5
<1>3. Nat \subseteq S
  <2> HIDE DEF S
  <2> QED
    BY <1>1, <1>2, SetInduction
<1>4. j - i \in Nat /\ i + (j - i) = j /\ j <= n
  OBVIOUS
<1>5. j - i \in S
  BY <1>3, <1>4
<1> QED
  BY <1>4, <1>5

-----------------------------------------------------------------------------
(* The invariant *)

Cells    == ((0 .. Batches) \X Nat) \cup {Garbage}
First(s) == Beginnings(Yields(s))

\* The files of a set that are read when file n is next.
FilesRead(s, n) ==
    IF s = "training" THEN IF n <= Batches THEN n - 1 ELSE Batches
    ELSE IF n = Batches + 2 THEN 1 ELSE 0

Wanted(len) == IF limit > 0 /\ limit < len THEN limit ELSE len

\* The images are how the files read so far start, all that is wanted of them
\* until they are cut.
Begun(s) ==
    LET read == First(s)[FilesRead(s, next)]
    IN  /\ StartOf(images[s], read)
        /\ limit > 0 => Len(images[s]) <= limit
        /\ next <= Batches + 1 => Len(images[s]) = Wanted(Len(read))

BatchInv ==
    /\ next \in 1 .. Batches + 2 /\ limit \in Limits
    /\ images \in [Sets -> Seq(Cells)] /\ labels = images
    /\ \A s \in Sets : Begun(s)

-----------------------------------------------------------------------------
(* What the files yield *)

\* Fewer items of a file are how more of them start.
LEMMA ItemsType ==
    ASSUME NEW f \in 0 .. Batches, NEW n \in Nat, NEW m \in Nat, n <= m
    PROVE  /\ Items(f, n) \in Seq(Cells) /\ Len(Items(f, n)) = n
           /\ StartOf(Items(f, n), Items(f, m))
<1>1. \A i \in Nat : Item(f, i) \in Cells
  BY DEF Item, Cells
<1>2. \A k \in Nat : Items(f, k) \in [1 .. k -> Cells]
  BY <1>1 DEF Items
<1>3. \A k \in Nat : Items(f, k) \in Seq(Cells) /\ Len(Items(f, k)) = k
  BY <1>2, IndexedIsSeq
<1>4. ASSUME NEW i \in 1 .. n
      PROVE  Items(f, n)[i] = Items(f, m)[i]
  BY DEF Items
<1>5. Len(Items(f, n)) = n /\ Len(Items(f, m)) = m
  BY <1>3
<1> QED
  BY <1>3, <1>4, <1>5 DEF StartOf

\* A file yields at most the items of a batch.
LEMMA YieldsType ==
    ASSUME NEW s \in Sets
    PROVE  /\ Yields(s) \in Seq(Seq(Cells)) /\ Len(Yields(s)) = Batches
           /\ \A k \in 1 .. Batches : /\ Yields(s)[k] \in Seq(Cells)
                                      /\ Len(Yields(s)[k]) <= BatchItems
<1>1. Batches \in Nat \ {0} /\ BatchItems \in Nat \ {0}
  BY CifarAssumption
<1>2. ASSUME NEW k \in 1 .. Batches
      PROVE  Yields(s)[k] \in Seq(Cells) /\ Len(Yields(s)[k]) <= BatchItems
  <2> DEFINE f == IF s = "test" THEN 0 ELSE k
  <2>1. f \in 0 .. Batches
    BY <1>1
  <2>2. Yields(s)[k] = <<>> \/ Yields(s)[k] = Items(f, BatchItems)
    BY DEF Yields
  <2>3. Items(f, BatchItems) \in Seq(Cells)
        /\ Len(Items(f, BatchItems)) = BatchItems
    BY <1>1, <2>1, ItemsType
  <2>4. <<>> \in Seq(Cells) /\ Len(<<>>) = 0
    OBVIOUS
  <2> HIDE DEF f
  <2>5. CASE Yields(s)[k] = <<>>
    BY <1>1, <2>4, <2>5
  <2>6. CASE Yields(s)[k] = Items(f, BatchItems)
    BY <1>1, <2>3, <2>6
  <2> QED
    BY <2>2, <2>5, <2>6
<1>3. Yields(s) \in [1 .. Batches -> Seq(Cells)]
  <2>1. DOMAIN Yields(s) = 1 .. Batches
        /\ Yields(s) = [k \in 1 .. Batches |-> Yields(s)[k]]
    BY DEF Yields
  <2> QED
    BY <1>2, <2>1
<1>4. Yields(s) \in Seq(Seq(Cells)) /\ Len(Yields(s)) = Batches
  BY <1>1, <1>3, IndexedIsSeq
<1> QED
  BY <1>2, <1>4

\* The last of n equal rows ends where all of them do.
LEMMA RowFits ==
    ASSUME NEW i \in Nat, NEW n \in Nat, NEW b \in Nat, i < n
    PROVE  i * b + b <= n * b /\ (i + 1) * b = i * b + b /\ i * b \in Nat
<1> DEFINE d == n - (i + 1)
<1>1. d \in Nat /\ n = i + 1 + d
  OBVIOUS
<1> HIDE DEF d
<1>2. d * b \in Nat /\ i * b \in Nat
  BY <1>1
<1>3. n * b = i * b + b + d * b
  BY <1>1
<1>4. (i + 1) * b = i * b + b
  OBVIOUS
<1> QED
  BY <1>2, <1>3, <1>4

\* What the first files yield grows by one file's items at most, and is how
\* the whole starts.
LEMMA FirstFacts ==
    ASSUME NEW s \in Sets
    PROVE  /\ First(s)[0] = <<>> /\ First(s)[Batches] = Whole(s)
           /\ \A i \in 1 .. Batches :
                 /\ First(s)[i] = Glue(First(s)[i - 1], Yields(s)[i])
                 /\ Yields(s)[i] \in Seq(Cells)
           /\ \A i \in 0 .. Batches :
                 /\ First(s)[i] \in Seq(Cells)
                 /\ Len(First(s)[i]) <= i * BatchItems
                 /\ StartOf(First(s)[i], Whole(s))
<1> DEFINE b == First(s)
           y == Yields(s)
<1>1. Batches \in Nat /\ BatchItems \in Nat
  BY CifarAssumption
<1>2. y \in Seq(Seq(Cells)) /\ Len(y) = Batches
      /\ \A k \in 1 .. Batches : y[k] \in Seq(Cells) /\ Len(y[k]) <= BatchItems
  BY YieldsType
<1>3. /\ Beginnings(y)[0] = <<>>
      /\ \A i \in 1 .. Len(y) :
            Beginnings(y)[i] = Glue(Beginnings(y)[i - 1], y[i])
      /\ Beginnings(y)[Len(y)] = FlattenSeq(y)
  BY <1>2, BeginningsSteps
<1>4. /\ b[0] = <<>> /\ b[Batches] = Whole(s)
      /\ \A i \in 1 .. Batches : b[i] = Glue(b[i - 1], y[i])
  BY <1>2, <1>3 DEF First, Whole
<1>5. \A k \in 1 .. Batches : y[k] \in Seq(Cells) /\ Len(y[k]) <= BatchItems
  BY <1>2
<1> HIDE DEF b, y
<1>6. \A i \in 0 .. Batches : b[i] \in Seq(Cells)
  BY <1>1, <1>4, <1>5, BeginningsType
<1>7. \A i \in 0 .. Batches : Len(b[i]) <= i * BatchItems
  <2> DEFINE S == {k \in Nat : k <= Batches => Len(b[k]) <= k * BatchItems}
  <2>1. 0 \in S
    BY <1>1, <1>4
  <2>2. ASSUME NEW k \in Nat, k \in S
        PROVE  k + 1 \in S
    <3> SUFFICES ASSUME k + 1 <= Batches
                 PROVE  Len(b[k + 1]) <= (k + 1) * BatchItems
      OBVIOUS
    <3>1. k + 1 \in 1 .. Batches /\ k \in 0 .. Batches /\ (k + 1) - 1 = k
      BY <1>1
    <3>2. /\ b[k + 1] = Glue(b[k], y[k + 1]) /\ y[k + 1] \in Seq(Cells)
          /\ Len(y[k + 1]) <= BatchItems
      BY <1>4, <1>5, <3>1
    <3>3. b[k] \in Seq(Cells) /\ Len(b[k]) <= k * BatchItems
      BY <1>6, <2>2, <3>1
    <3>4. PICK u \in Nat, v \in Nat :
             u = Len(b[k]) /\ v = Len(y[k + 1]) /\ Len(b[k + 1]) = u + v
      <4>1. Len(b[k + 1]) = Len(b[k]) + Len(y[k + 1])
        BY <3>2, <3>3 DEF Glue
      <4>2. Len(b[k]) \in Nat /\ Len(y[k + 1]) \in Nat
        BY <3>2, <3>3
      <4> QED
        BY <4>1, <4>2
    <3>5. PICK p \in Nat : /\ p = k * BatchItems
                           /\ (k + 1) * BatchItems = p + BatchItems
      BY <1>1, <3>1, RowFits
    <3>6. u <= p /\ v <= BatchItems
      BY <3>2, <3>3, <3>4, <3>5
    <3>7. u + v <= p + BatchItems
      BY <1>1, <3>6
    <3> QED
      BY <3>4, <3>5, <3>7
  <2>3. Nat \subseteq S
    <3> HIDE DEF S
    <3> QED
      BY <2>1, <2>2, SetInduction
  <2> QED
    BY <1>1, <2>3
<1>8. ASSUME NEW i \in 0 .. Batches
      PROVE  StartOf(b[i], Whole(s))
  <2>1. i \in Nat /\ i <= Batches /\ Batches \in 0 .. Batches
    BY <1>1
  <2>2. \A k \in 1 .. Batches : b[k] = Glue(b[k - 1], y[k])
                                /\ y[k] \in Seq(Cells)
    BY <1>4, <1>5
  <2>3. StartOf(b[i], b[Batches])
    BY <1>1, <1>6, <2>1, <2>2, BeginningsGrow
  <2> QED
    BY <1>4, <2>3
<1> QED
  BY <1>4, <1>5, <1>6, <1>7, <1>8 DEF b, y

\* The files fix what they yield.
LEMMA SameFiles ==
    ASSUME batch' = batch
    PROVE  \A s : First(s)' = First(s)
<1>1. \A s : Yields(s)' = Yields(s)
  BY DEF Yields, Items, Item
<1> QED
  BY <1>1 DEF First

-----------------------------------------------------------------------------
(* Reading one file *)

\* The items that are taken from a file.
Taken(size) ==
    LET room == Capacity(limit, size)
    IN  IF room > 0 /\ room < BatchItems THEN room ELSE BatchItems

\* What is taken fits, and is all of the file without a limit.
LEMMA TakenFits ==
    ASSUME limit \in Limits, NEW size \in Nat, size + BatchItems <= Width,
           limit = 0 \/ size < limit
    PROVE  Taken(size) = IF limit > 0 /\ limit < size + BatchItems
                         THEN limit - size ELSE BatchItems
<1>1. limit \in Nat /\ limit < Width /\ Width \in Nat
      /\ BatchItems \in Nat /\ BatchItems > 0
  BY CifarAssumption
<1>2. CASE limit > 0
  <2>1. (limit - size) % Width = limit - size
    BY <1>1, <1>2
  <2> QED
    BY <1>1, <1>2, <2>1 DEF Taken, Capacity
<1>3. CASE limit = 0 /\ size = 0
  <2>1. (limit - size) % Width = 0
    BY <1>1, <1>3
  <2> QED
    BY <1>1, <1>3, <2>1 DEF Taken, Capacity
<1>4. CASE limit = 0 /\ size > 0
  <2>1. (limit - size) % Width = Width - size
    BY <1>1, <1>4
  <2> QED
    BY <1>1, <1>4, <2>1 DEF Taken, Capacity
<1> QED
  BY <1>1, <1>2, <1>3, <1>4

\* The next file, the set it belongs to, and what it adds.
LEMMA NextFile ==
    ASSUME BatchInv, next <= Batches + 1
    PROVE  LET f == next % (Batches + 1)
               s == SetOf(f)
               k == FilesRead(s, next)
           IN  /\ f \in 0 .. Batches /\ s \in Sets /\ k \in 0 .. Batches - 1
               /\ FilesRead(s, next + 1) = k + 1
               /\ \A r \in Sets : r # s =>
                     FilesRead(r, next + 1) = FilesRead(r, next)
               /\ Yields(s)[k + 1] = IF batch[f] = Missing THEN <<>>
                                     ELSE Items(f, BatchItems)
<1> DEFINE f == next % (Batches + 1)
           s == SetOf(f)
           k == FilesRead(s, next)
<1>1. Batches \in Nat \ {0} /\ next \in 1 .. Batches + 1
  BY CifarAssumption DEF BatchInv
<1>2. CASE next <= Batches
  <2>1. f = next
    BY <1>1, <1>2
  <2>2. s = "training" /\ k = next - 1
    BY <1>1, <1>2, <2>1 DEF SetOf, FilesRead
  <2>3. next + 1 <= Batches => FilesRead(s, next + 1) = next
    BY <1>1, <2>2 DEF FilesRead
  <2>4. next + 1 > Batches => FilesRead(s, next + 1) = next
    BY <1>1, <1>2, <2>2 DEF FilesRead
  <2>5. FilesRead("test", next + 1) = FilesRead("test", next)
    BY <1>1, <1>2 DEF FilesRead
  <2>6. Yields(s)[k + 1] = IF batch[f] = Missing THEN <<>>
                           ELSE Items(f, BatchItems)
    <3>1. k + 1 = f /\ k + 1 \in 1 .. Batches /\ s # "test"
      BY <1>1, <1>2, <2>1, <2>2
    <3> HIDE DEF s, k, f
    <3> QED
      BY <3>1 DEF Yields
  <2>7. f \in 0 .. Batches /\ s \in Sets /\ k \in 0 .. Batches - 1
    BY <1>1, <1>2, <2>1, <2>2 DEF Sets
  <2>8. FilesRead(s, next + 1) = k + 1
    BY <1>1, <2>2, <2>3, <2>4
  <2>9. \A r \in Sets : r # s => FilesRead(r, next + 1) = FilesRead(r, next)
    BY <2>2, <2>5 DEF Sets
  <2> QED
    BY <2>6, <2>7, <2>8, <2>9
<1>3. CASE next = Batches + 1
  <2>1. f = 0
    BY <1>1, <1>3
  <2>2. s = "test" /\ k = 0
    BY <1>1, <1>3, <2>1 DEF SetOf, FilesRead
  <2>3. FilesRead(s, next + 1) = 1
    BY <1>1, <1>3, <2>2 DEF FilesRead
  <2>4. FilesRead("training", next + 1) = FilesRead("training", next)
    BY <1>1, <1>3 DEF FilesRead
  <2>5. Yields(s)[k + 1] = IF batch[f] = Missing THEN <<>>
                           ELSE Items(f, BatchItems)
    <3>1. k + 1 = 1 /\ 1 \in 1 .. Batches /\ s = "test" /\ f = 0
      BY <1>1, <2>1, <2>2
    <3> HIDE DEF s, k, f
    <3> QED
      BY <3>1 DEF Yields
  <2>6. f \in 0 .. Batches /\ s \in Sets /\ k \in 0 .. Batches - 1
    BY <1>1, <2>1, <2>2 DEF Sets
  <2>7. \A r \in Sets : r # s => FilesRead(r, next + 1) = FilesRead(r, next)
    BY <2>2, <2>4 DEF Sets
  <2> QED
    BY <2>2, <2>3, <2>5, <2>6, <2>7
<1> QED
  BY <1>1, <1>2, <1>3

\* A set has the images read, and then those of one more file.
LEMMA ReadBatchAdds ==
    ASSUME NEW f \in 0 .. Batches, NEW s \in Sets, s = SetOf(f),
           images \in [Sets -> Seq(Cells)], limit \in Limits,
           ReadBatch(f), labels = images,
           NEW b \in Seq(Cells), NEW y \in Seq(Cells),
           y = IF batch[f] = Missing THEN <<>> ELSE Items(f, BatchItems),
           StartOf(images[s], b), Len(images[s]) = Wanted(Len(b)),
           Len(b) + BatchItems <= Width
    PROVE  /\ images' \in [Sets -> Seq(Cells)] /\ labels' = images'
           /\ \A r \in Sets : r # s => images'[r] = images[r]
           /\ StartOf(images'[s], Glue(b, y))
           /\ Len(images'[s]) = Wanted(Len(Glue(b, y)))
<1> DEFINE old == images[s]
           size == Len(old)
<1>1. /\ old \in Seq(Cells) /\ size \in Nat /\ Len(b) \in Nat /\ Len(y) \in Nat
      /\ limit \in Nat /\ BatchItems \in Nat \ {0} /\ Width \in Nat
      /\ size <= Len(b)
  BY CifarAssumption DEF StartOf
<1>2. CASE limit > 0 /\ limit <= size
  <2>1. images' = images /\ labels' = labels
    BY <1>2 DEF ReadBatch
  <2>2. StartOf(old, Glue(b, y))
    BY <1>1, StartOfLonger
  <2>3. Len(Glue(b, y)) = Len(b) + Len(y)
    BY DEF Glue
  <2>4. size = Wanted(Len(b) + Len(y))
    BY <1>1, <1>2 DEF Wanted
  <2> QED
    BY <2>1, <2>2, <2>3, <2>4
<1>3. CASE batch[f] = Missing
  <2>1. images' = images /\ labels' = labels
    BY <1>3 DEF ReadBatch
  <2>2. Glue(b, y) = b
    BY <1>3 DEF Glue
  <2> QED
    BY <2>1, <2>2
<1>4. CASE ~(limit > 0 /\ limit <= size) /\ batch[f] # Missing
  <2> DEFINE n == Taken(size)
             m == Items(f, n)
  <2>1. /\ images' = [images EXCEPT ![s] = images[s] \o m]
        /\ labels' = [labels EXCEPT ![s] = labels[s] \o m]
    BY <1>4 DEF ReadBatch, Taken
  <2>2. size = Len(b)
    BY <1>1, <1>4 DEF Wanted
  <2>3. n = IF limit > 0 /\ limit < size + BatchItems
            THEN limit - size ELSE BatchItems
    BY <1>1, <1>4, <2>2, TakenFits
  <2>4. n \in Nat /\ n <= BatchItems
    BY <1>1, <1>4, <2>3
  <2>5. y = Items(f, BatchItems)
    BY <1>4
  <2>6. m \in Seq(Cells) /\ Len(m) = n /\ StartOf(m, y) /\ Len(y) = BatchItems
    BY <1>1, <2>4, <2>5, ItemsType
  <2> HIDE DEF m, n
  <2>7. /\ old \o m \in Seq(Cells) /\ StartOf(old \o m, b \o y)
        /\ Len(old \o m) = size + Len(m) /\ Len(b \o y) = Len(b) + Len(y)
    BY <1>1, <2>2, <2>6, StartGoesOn
  <2>8. size + n = Wanted(size + BatchItems)
    <3>1. PICK u \in Nat : u = size
      BY <1>1
    <3>2. n = IF limit > 0 /\ limit < u + BatchItems
              THEN limit - u ELSE BatchItems
      BY <2>3, <3>1
    <3>3. limit \in Nat /\ BatchItems \in Nat /\ (limit = 0 \/ u < limit)
      BY <1>1, <1>4, <3>1
    <3>4. u + n = IF limit > 0 /\ limit < u + BatchItems
                  THEN limit ELSE u + BatchItems
      BY <3>2, <3>3
    <3> QED
      BY <3>1, <3>4 DEF Wanted
  <2> DEFINE new == old \o m
  <2>9. images' = [images EXCEPT ![s] = new] /\ labels' = images'
    BY <2>1
  <2>10. new \in Seq(Cells)
    BY <2>7
  <2>11. StartOf(new, Glue(b, y)) /\ Len(new) = Wanted(Len(Glue(b, y)))
    BY <2>2, <2>6, <2>7, <2>8 DEF Glue
  <2> DEFINE C == Seq(Cells)
  <2>12. images \in [Sets -> C] /\ new \in C
    BY <2>10
  <2> HIDE DEF new, C
  <2>13. /\ images' \in [Sets -> C] /\ images'[s] = new
         /\ \A r \in Sets : r # s => images'[r] = images[r]
    BY <2>9, <2>12
  <2> QED
    BY <2>9, <2>11, <2>13 DEF C
<1> QED
  BY <1>2, <1>3, <1>4

\* A set after one more file is how the first files start, the other is left.
LEMMA ReadNextKeeps ==
    ASSUME BatchInv, ReadNext
    PROVE  BatchInv'
<1> DEFINE f == next % (Batches + 1)
           s == SetOf(f)
           k == FilesRead(s, next)
           b == First(s)[k]
           y == Yields(s)[k + 1]
<1>1. /\ next \in 1 .. Batches + 1 /\ Batches \in Nat \ {0}
      /\ BatchItems \in Nat /\ Width \in Nat /\ Batches * BatchItems <= Width
      /\ images \in [Sets -> Seq(Cells)] /\ labels = images
      /\ limit \in Limits
  BY CifarAssumption DEF BatchInv, ReadNext
<1>2. /\ batch' = batch /\ limit' = limit /\ next' = next + 1 /\ ReadBatch(f)
  BY DEF ReadNext
<1>3. /\ f \in 0 .. Batches /\ s \in Sets /\ k \in 0 .. Batches - 1
      /\ FilesRead(s, next + 1) = k + 1
      /\ \A r \in Sets : r # s => FilesRead(r, next + 1) = FilesRead(r, next)
      /\ y = IF batch[f] = Missing THEN <<>> ELSE Items(f, BatchItems)
  BY <1>1, NextFile
<1>4. s = SetOf(f)
  OBVIOUS
<1> HIDE DEF f, s, k
<1>5. k + 1 \in 1 .. Batches /\ k \in 0 .. Batches /\ k \in Nat
      /\ (k + 1) - 1 = k
  <2>1. k \in 0 .. Batches - 1 /\ Batches \in Nat
    BY <1>1, <1>3, Zenon
  <2> QED
    BY <2>1
<1>6. /\ b \in Seq(Cells) /\ y \in Seq(Cells) /\ First(s)[k + 1] = Glue(b, y)
      /\ Len(b) <= k * BatchItems
  BY <1>3, <1>5, FirstFacts
<1>7. Len(b) + BatchItems <= Width
  <2>1. k * BatchItems + BatchItems <= Batches * BatchItems
        /\ k * BatchItems \in Nat
    <3>1. k \in Nat /\ Batches \in Nat /\ BatchItems \in Nat /\ k < Batches
      BY <1>1, <1>3
    <3> QED
      BY <3>1, RowFits
  <2>2. PICK p \in Nat : p = k * BatchItems
    BY <2>1
  <2>3. PICK w \in Int : w = Batches * BatchItems
    BY <1>1
  <2>4. PICK u \in Nat : u = Len(b)
    BY <1>6
  <2>5. u <= p /\ p + BatchItems <= w /\ w <= Width
    BY <1>1, <1>6, <2>1, <2>2, <2>3, <2>4
  <2>6. u + BatchItems <= Width
    BY <1>1, <2>5
  <2> QED
    BY <2>4, <2>6
<1>8. StartOf(images[s], b) /\ Len(images[s]) = Wanted(Len(b))
  <2>1. Begun(s) /\ next <= Batches + 1
    BY <1>1, <1>3 DEF BatchInv
  <2> QED
    BY <2>1 DEF Begun, k
<1> HIDE DEF b, y
<1>9. /\ images' \in [Sets -> Seq(Cells)] /\ labels' = images'
      /\ \A r \in Sets : r # s => images'[r] = images[r]
      /\ StartOf(images'[s], Glue(b, y))
      /\ Len(images'[s]) = Wanted(Len(Glue(b, y)))
  <2>1. /\ f \in 0 .. Batches /\ s \in Sets /\ s = SetOf(f) /\ ReadBatch(f)
        /\ images \in [Sets -> Seq(Cells)] /\ labels = images
        /\ limit \in Limits /\ b \in Seq(Cells) /\ y \in Seq(Cells)
        /\ y = IF batch[f] = Missing THEN <<>> ELSE Items(f, BatchItems)
        /\ StartOf(images[s], b) /\ Len(images[s]) = Wanted(Len(b))
        /\ Len(b) + BatchItems <= Width
    BY <1>1, <1>2, <1>3, <1>4, <1>6, <1>7, <1>8
  <2> QED
    BY <2>1, ReadBatchAdds, Zenon
<1>10. \A r : First(r)' = First(r)
  BY <1>2, SameFiles
<1>11. \A n : Wanted(n)' = Wanted(n)
  BY <1>2 DEF Wanted
<1>12. ASSUME NEW r \in Sets
       PROVE  Begun(r)'
  <2>1. CASE r = s
    <3>1. First(r)'[FilesRead(r, next')] = Glue(b, y)
      BY <1>2, <1>3, <1>6, <1>10, <2>1
    <3>2. limit' > 0 => Len(images'[r]) <= limit'
      <4>1. /\ b \o y \in Seq(Cells) /\ Len(b \o y) \in Nat
        BY <1>6
      <4>2. limit \in Nat
        BY <1>1, CifarAssumption
      <4>3. limit > 0 => Wanted(Len(Glue(b, y))) <= limit
        BY <4>1, <4>2 DEF Wanted, Glue
      <4> QED
        BY <1>2, <1>9, <2>1, <4>3
    <3> QED
      BY <1>9, <1>11, <2>1, <3>1, <3>2 DEF Begun
  <2>2. CASE r # s
    <3>1. FilesRead(r, next') = FilesRead(r, next) /\ images'[r] = images[r]
      BY <1>2, <1>3, <1>9, <2>2
    <3>2. Begun(r) /\ next <= Batches + 1
      BY <1>1 DEF BatchInv
    <3> QED
      BY <1>2, <1>10, <1>11, <3>1, <3>2 DEF Begun
  <2> QED
    BY <2>1, <2>2
<1>13. next' \in 1 .. Batches + 2 /\ limit' \in Limits
  BY <1>1, <1>2
<1> QED
  BY <1>9, <1>12, <1>13 DEF BatchInv

\* What is cut is still a start.
LEMMA ResizeKeeps ==
    ASSUME BatchInv, NEW s \in Sets, NEW size \in Limits, Resize(s, size)
    PROVE  BatchInv'
<1>1. /\ next = Batches + 2 /\ images \in [Sets -> Seq(Cells)]
      /\ labels = images /\ limit \in Nat /\ size \in Nat
      /\ Batches \in Nat /\ limit \in Limits
  BY CifarAssumption DEF BatchInv, Resize
<1> DEFINE old == images[s]
           new == SubSeq(old, 1, size)
<1>2. /\ batch' = batch /\ limit' = limit /\ next' = next
      /\ images' = [images EXCEPT ![s] = new] /\ labels' = images'
      /\ Len(old) > size
  BY <1>1 DEF Resize
<1>3. old \in Seq(Cells) /\ Len(old) \in Nat
  BY <1>1
<1>4. /\ new \in Seq(Cells) /\ Len(new) = size
      /\ \A i \in 1 .. size : new[i] = old[i]
  BY <1>1, <1>2, <1>3
<1> HIDE DEF new
<1>5. /\ images' \in [Sets -> Seq(Cells)] /\ images'[s] = new
      /\ \A r \in Sets : r # s => images'[r] = images[r]
  <2> DEFINE C == Seq(Cells)
  <2>1. images \in [Sets -> C] /\ new \in C
    BY <1>1, <1>4
  <2> HIDE DEF C
  <2>2. /\ images' \in [Sets -> C] /\ images'[s] = new
        /\ \A r \in Sets : r # s => images'[r] = images[r]
    BY <1>2, <2>1
  <2> QED
    BY <2>2 DEF C
<1>6. \A r : First(r)' = First(r)
  BY <1>2, SameFiles
<1>7. ~(next' <= Batches + 1)
  BY <1>1, <1>2
<1>8. ASSUME NEW r \in Sets
      PROVE  Begun(r)'
  <2> DEFINE read == First(r)[FilesRead(r, next)]
  <2>1. StartOf(images[r], read) /\ (limit > 0 => Len(images[r]) <= limit)
    BY DEF BatchInv, Begun
  <2>2. read \in Seq(Cells)
    <3>1. FilesRead(r, next) \in 0 .. Batches
      BY <1>1, CifarAssumption DEF FilesRead
    <3> QED
      BY <3>1, FirstFacts
  <2> HIDE DEF read
  <2>3. StartOf(images'[r], read) /\ (limit > 0 => Len(images'[r]) <= limit)
    <3>1. CASE r = s
      <4>1. Len(old) <= Len(read) /\ \A i \in 1 .. Len(old) : old[i] = read[i]
        BY <2>1, <3>1 DEF StartOf
      <4>2. Len(read) \in Nat
        BY <2>2
      <4>3. \A i \in 1 .. size : i \in 1 .. Len(old)
        BY <1>1, <1>2, <1>3
      <4>4. StartOf(new, read)
        BY <1>1, <1>2, <1>3, <1>4, <4>1, <4>2, <4>3 DEF StartOf
      <4>5. limit > 0 => Len(new) <= limit
        BY <1>1, <1>2, <1>3, <1>4, <2>1, <3>1
      <4> QED
        BY <1>5, <3>1, <4>4, <4>5
    <3>2. CASE r # s
      BY <1>5, <2>1, <3>2
    <3> QED
      BY <3>1, <3>2
  <2> QED
    BY <1>2, <1>6, <1>7, <2>3 DEF Begun, read
<1> QED
  BY <1>1, <1>2, <1>5, <1>8 DEF BatchInv

-----------------------------------------------------------------------------
(* The theorems *)

\* BatchInv holds from the first batch to the last resize.
THEOREM BatchInvHolds == BatchSpec => []BatchInv
<1>1. BatchInit => BatchInv
  <2> SUFFICES ASSUME BatchInit PROVE BatchInv
    OBVIOUS
  <2>1. /\ next = 1 /\ limit \in Limits /\ images = [s \in Sets |-> <<>>]
        /\ labels = images
    BY DEF BatchInit, BatchStart
  <2>2. Batches \in Nat \ {0} /\ limit \in Nat
    BY <2>1, CifarAssumption
  <2>3. <<>> \in Seq(Cells) /\ Len(<<>>) = 0
    OBVIOUS
  <2>4. images \in [Sets -> Seq(Cells)]
    BY <2>1, <2>3
  <2>5. ASSUME NEW s \in Sets
        PROVE  Begun(s)
    <3>1. FilesRead(s, next) = 0
      BY <2>1, <2>2 DEF FilesRead
    <3>2. First(s)[0] = <<>>
      BY FirstFacts
    <3>3. images[s] = <<>>
      BY <2>1
    <3>4. StartOf(<<>>, <<>>) /\ Wanted(0) = 0
      BY <2>2, <2>3 DEF StartOf, Wanted
    <3> QED
      BY <2>2, <2>3, <3>1, <3>2, <3>3, <3>4 DEF Begun
  <2> QED
    BY <2>1, <2>2, <2>4, <2>5 DEF BatchInv
<1>2. BatchInv /\ [BatchNext]_batchVars => BatchInv'
  <2> SUFFICES ASSUME BatchInv, [BatchNext]_batchVars PROVE BatchInv'
    OBVIOUS
  <2>1. CASE UNCHANGED batchVars
    <3>1. \A s : First(s)' = First(s)
      BY <2>1, SameFiles DEF batchVars
    <3>2. \A n : Wanted(n)' = Wanted(n)
      BY <2>1 DEF batchVars, Wanted
    <3> QED
      BY <2>1, <3>1, <3>2 DEF batchVars, BatchInv, Begun
  <2>2. CASE ReadNext
    BY <2>2, ReadNextKeeps
  <2>3. ASSUME NEW s \in Sets, NEW size \in Limits, Resize(s, size)
        PROVE  BatchInv'
    BY <2>3, ResizeKeeps
  <2> QED
    BY <2>1, <2>2, <2>3 DEF BatchNext
<1> QED
  BY <1>1, <1>2, PTL DEF BatchSpec

\* A set is at every time how the files that are there start, with a label
\* for each image, whatever the files hold and however many there are.
THEOREM SetsAreAPrefixHolds == BatchSpec => []SetsAreAPrefix
<1>1. BatchInv => SetsAreAPrefix
  <2> SUFFICES ASSUME BatchInv, NEW s \in Sets
               PROVE  /\ labels[s] = images[s]
                      /\ IsPrefix(images[s], Whole(s))
                      /\ limit > 0 => Len(images[s]) <= limit
    BY DEF SetsAreAPrefix
  <2> DEFINE i == FilesRead(s, next)
             read == First(s)[i]
  <2>1. Batches \in Nat \ {0} /\ Batches \in 0 .. Batches
    BY CifarAssumption
  <2>2. i \in 0 .. Batches
    BY <2>1 DEF BatchInv, FilesRead
  <2>3. /\ read \in Seq(Cells) /\ Whole(s) \in Seq(Cells)
        /\ StartOf(read, Whole(s))
    <3>1. First(s)[Batches] = Whole(s) /\ First(s)[Batches] \in Seq(Cells)
      BY <2>1, FirstFacts
    <3> HIDE DEF i
    <3> QED
      BY <2>2, <3>1, FirstFacts
  <2>4. /\ labels = images /\ images[s] \in Seq(Cells)
        /\ StartOf(images[s], read)
        /\ limit > 0 => Len(images[s]) <= limit
    BY DEF BatchInv, Begun
  <2> HIDE DEF read
  <2>5. StartOf(images[s], Whole(s))
    <3>1. Len(images[s]) \in Nat /\ Len(read) \in Nat
          /\ Len(Whole(s)) \in Nat
      BY <2>3, <2>4
    <3>2. Len(images[s]) <= Len(read) /\ Len(read) <= Len(Whole(s))
      BY <2>3, <2>4 DEF StartOf
    <3>3. \A j \in 1 .. Len(images[s]) : j \in 1 .. Len(read)
      BY <3>1, <3>2
    <3>4. \A j \in 1 .. Len(images[s]) : images[s][j] = Whole(s)[j]
      BY <2>3, <2>4, <3>3 DEF StartOf
    <3> QED
      BY <3>1, <3>2, <3>4 DEF StartOf
  <2>6. IsPrefix(images[s], Whole(s))
    BY <2>3, <2>4, <2>5, StartIsPrefix
  <2> QED
    BY <2>4, <2>6
<1> QED
  BY <1>1, BatchInvHolds, PTL

\* Before the test file is read the training set has all that is wanted of
\* the files that are there.
THEOREM LimitIsReachedHolds == BatchSpec => LimitIsReached
<1>1. BatchInv => (next = Batches + 1 =>
          LET all == Len(Whole("training"))
          IN  Len(images["training"]) =
                 IF limit > 0 /\ limit < all THEN limit ELSE all)
  <2> SUFFICES ASSUME BatchInv, next = Batches + 1
               PROVE  Len(images["training"]) =
                         Wanted(Len(Whole("training")))
    BY DEF Wanted
  <2>1. "training" \in Sets /\ Batches \in Nat
    BY CifarAssumption DEF Sets
  <2>2. FilesRead("training", next) = Batches
    BY <2>1 DEF FilesRead
  <2>3. First("training")[Batches] = Whole("training")
    BY <2>1, FirstFacts
  <2>4. Begun("training") /\ next <= Batches + 1
    BY <2>1 DEF BatchInv
  <2> QED
    BY <2>2, <2>3, <2>4 DEF Begun
<1> QED
  BY <1>1, BatchInvHolds, PTL DEF LimitIsReached

-----------------------------------------------------------------------------
(* Configuration files *)

Characters == Chars \cup {Delim, Hash}

\* Searches answer with the least position there is.
LEMMA SmallestOf ==
    ASSUME NEW S \in SUBSET Nat
    PROVE  /\ Smallest(S) = Npos <=> S = {}
           /\ S # {} => Smallest(S) \in S /\ \A j \in S : Smallest(S) <= j
<1>1. CASE S = {}
  BY <1>1 DEF Smallest
<1>2. CASE S # {}
  <2>1. \E m \in S : \A n \in S : m <= n
    BY <1>2, LeastNumber
  <2>2. Smallest(S) \in S /\ \A j \in S : Smallest(S) <= j
    BY <1>2, <2>1 DEF Smallest
  <2>3. Smallest(S) # Npos
    BY <2>2 DEF Npos
  <2> QED
    BY <1>2, <2>2, <2>3
<1> QED
  BY <1>1, <1>2

\* find_first_of for one character, with positions that count from 1: no
\* earlier one has it, and it is there unless the answer is Npos.
LEMMA FoundFirst ==
    ASSUME NEW C, NEW l \in Seq(C), NEW c, NEW from \in Nat,
           NEW pos, pos = FindFirstOf(l, c, from)
    PROVE  /\ pos = Npos => \A i \in from + 1 .. Len(l) : l[i] # c
           /\ pos # Npos => /\ pos \in from .. Len(l) - 1
                            /\ l[pos + 1] = c
                            /\ \A i \in from + 1 .. pos : l[i] # c
<1> DEFINE S == {i \in from .. Len(l) - 1 : At(l, i) = c}
<1>1. S \in SUBSET Nat /\ pos = Smallest(S)
  BY DEF FindFirstOf
<1>2. \A i \in from + 1 .. Len(l) : l[i] = c => i - 1 \in S
  BY DEF At
<1>3. /\ pos = Npos <=> S = {}
      /\ S # {} => pos \in S /\ \A j \in S : pos <= j
  BY <1>1, SmallestOf
<1>4. pos # Npos => pos \in from .. Len(l) - 1 /\ l[pos + 1] = c
  BY <1>3 DEF At
<1>5. pos = Npos => \A i \in from + 1 .. Len(l) : l[i] # c
  BY <1>2, <1>3
<1>6. ASSUME pos # Npos, NEW i \in from + 1 .. pos
      PROVE  l[i] # c
  BY <1>2, <1>3, <1>4, <1>6
<1> QED
  BY <1>4, <1>5, <1>6

\* find_first_not_of, in the same way.
LEMMA FoundFirstNot ==
    ASSUME NEW C, NEW l \in Seq(C), NEW c, NEW from \in Nat,
           NEW pos, pos = FindFirstNotOf(l, c, from)
    PROVE  /\ pos = Npos => \A i \in from + 1 .. Len(l) : l[i] = c
           /\ pos # Npos => /\ pos \in from .. Len(l) - 1
                            /\ l[pos + 1] # c
                            /\ \A i \in from + 1 .. pos : l[i] = c
<1> DEFINE S == {i \in from .. Len(l) - 1 : At(l, i) # c}
<1>1. S \in SUBSET Nat /\ pos = Smallest(S)
  BY DEF FindFirstNotOf
<1>2. \A i \in from + 1 .. Len(l) : l[i] # c => i - 1 \in S
  BY DEF At
<1>3. /\ pos = Npos <=> S = {}
      /\ S # {} => pos \in S /\ \A j \in S : pos <= j
  BY <1>1, SmallestOf
<1>4. pos # Npos => pos \in from .. Len(l) - 1 /\ l[pos + 1] # c
  BY <1>3 DEF At
<1>5. pos = Npos => \A i \in from + 1 .. Len(l) : l[i] = c
  BY <1>2, <1>3
<1>6. ASSUME pos # Npos, NEW i \in from + 1 .. pos
      PROVE  l[i] = c
  BY <1>2, <1>3, <1>4, <1>6
<1> QED
  BY <1>4, <1>5, <1>6

\* What is left of a line without its comment: the line up to the first sign,
\* whose characters other than delimiters are those in tokens.
LEMMA UncommentedLine ==
    ASSUME NEW C, NEW l \in Seq(C), NEW u, u = Uncommented(l)
    PROVE  /\ u \in Seq(C) /\ Len(u) <= Len(l)
           /\ \A i \in 1 .. Len(u) : u[i] = l[i]
           /\ \A i \in 1 .. Len(l) :
                 InToken(l, i) <=> i <= Len(u) /\ u[i] # Delim
<1> DEFINE pos == FindFirstOf(l, Hash, 0)
<1>1. /\ pos = Npos => \A i \in 1 .. Len(l) : l[i] # Hash
      /\ pos # Npos => /\ pos \in 0 .. Len(l) - 1
                       /\ l[pos + 1] = Hash
                       /\ \A i \in 1 .. pos : l[i] # Hash
  BY FoundFirst, 0 \in Nat
<1>2. u = IF pos = Npos THEN l ELSE SubSeq(l, 1, pos)
  BY DEF Uncommented
<1> HIDE DEF pos
<1>3. CASE pos = Npos
  BY <1>1, <1>2, <1>3 DEF InToken
<1>4. CASE pos # Npos
  <2>1. u = SubSeq(l, 1, pos) /\ pos \in 0 .. Len(l) - 1
    BY <1>1, <1>2, <1>4
  <2>2. u \in Seq(C) /\ Len(u) = pos /\ \A i \in 1 .. pos : u[i] = l[i]
    BY <2>1, SubSeqProperties
  <2>3. ASSUME NEW i \in 1 .. Len(l), i <= pos
        PROVE  InToken(l, i) <=> u[i] # Delim
    <3>1. \A j \in 1 .. i : l[j] # Hash
      BY <1>1, <1>4, <2>1, <2>3
    <3>2. u[i] = l[i]
      BY <2>1, <2>2, <2>3
    <3> QED
      BY <3>1, <3>2 DEF InToken
  <2>4. ASSUME NEW i \in 1 .. Len(l), i > pos
        PROVE  ~InToken(l, i)
    <3>1. pos + 1 \in 1 .. i /\ l[pos + 1] = Hash
      BY <1>1, <1>4, <2>1, <2>4
    <3> QED
      BY <3>1 DEF InToken
  <2> QED
    BY <2>1, <2>2, <2>3, <2>4
<1> QED
  BY <1>3, <1>4

\* The token that begins at i ends where split cuts it.
LEMMA TokenEnds ==
    ASSUME NEW C, NEW l \in Seq(C), NEW u, u = Uncommented(l),
           NEW i \in 1 .. Len(u), NEW end \in i .. Len(u),
           \A k \in i .. end : u[k] # Delim,
           end < Len(u) => u[end + 1] = Delim
    PROVE  Token(l, i) = SubSeq(u, i, end)
<1>1. /\ u \in Seq(C) /\ Len(u) <= Len(l)
      /\ \A k \in 1 .. Len(u) : u[k] = l[k]
      /\ \A k \in 1 .. Len(l) :
            InToken(l, k) <=> k <= Len(u) /\ u[k] # Delim
  BY UncommentedLine
<1> DEFINE P(j) == /\ \A k \in i .. j : InToken(l, k)
                   /\ j < Len(l) => ~InToken(l, j + 1)
<1>2. end \in i .. Len(l) /\ P(end)
  BY <1>1
<1>3. ASSUME NEW j \in i .. Len(l), P(j)
      PROVE  j = end
  <2>1. CASE j < end
    <3>1. j + 1 \in i .. end /\ j < Len(l)
      BY <2>1, <1>1
    <3>2. InToken(l, j + 1)
      BY <1>2, <3>1
    <3> QED
      BY <1>3, <3>1, <3>2
  <2>2. CASE j > end
    <3>1. end + 1 \in i .. j /\ end < Len(l)
      BY <2>2, <1>1
    <3>2. InToken(l, end + 1)
      BY <1>3, <3>1
    <3> QED
      BY <1>2, <3>1, <3>2
  <2> QED
    BY <2>1, <2>2
<1>4. (CHOOSE j \in i .. Len(l) : P(j)) = end
  BY <1>2, <1>3
<1>5. Token(l, i) = SubSeq(l, i, end)
  BY <1>4 DEF Token
<1>6. /\ SubSeq(l, i, end) \in Seq(C) /\ Len(SubSeq(l, i, end)) = end - i + 1
      /\ \A k \in 1 .. end - i + 1 : SubSeq(l, i, end)[k] = l[i + k - 1]
  <2>1. \A k \in i .. end : l[k] \in C
    BY <1>1
  <2> QED
    BY <2>1, SubSeqProperties
<1>7. /\ SubSeq(u, i, end) \in Seq(C) /\ Len(SubSeq(u, i, end)) = end - i + 1
      /\ \A k \in 1 .. end - i + 1 : SubSeq(u, i, end)[k] = u[i + k - 1]
  <2>1. \A k \in i .. end : u[k] \in C
    BY <1>1
  <2> QED
    BY <2>1, <1>1, SubSeqProperties
<1>8. \A k \in 1 .. end - i + 1 : u[i + k - 1] = l[i + k - 1]
  BY <1>1
<1>9. SubSeq(l, i, end) = SubSeq(u, i, end)
  <2>1. /\ Len(SubSeq(l, i, end)) = Len(SubSeq(u, i, end))
        /\ \A k \in 1 .. Len(SubSeq(l, i, end)) :
              SubSeq(l, i, end)[k] = SubSeq(u, i, end)[k]
    BY <1>6, <1>7, <1>8
  <2> QED
    BY <1>6, <1>7, <2>1, SeqEqual, Zenon
<1> QED
  BY <1>5, <1>9

\* The next token begins at a position that counts from 0, the first one
\* behind a position that counts from 1.
Follows(l, end, begin) ==
    /\ begin = Npos => \A k \in Starts(l) : k <= end
    /\ begin # Npos => /\ begin + 1 \in Starts(l) /\ begin + 1 > end
                      /\ \A k \in Starts(l) : k > end => begin + 1 <= k

\* Skipping delimiters finds it.
LEMMA SkipsDelimiters ==
    ASSUME NEW C, NEW l \in Seq(C), NEW u, u = Uncommented(l),
           NEW end \in Nat, NEW from \in Nat, from > 0 => end < from,
           from = 0 => end = 0,
           \A k \in end + 1 .. from : k <= Len(u) => u[k] = Delim,
           NEW begin, begin = FindFirstNotOf(u, Delim, from)
    PROVE  Follows(l, end, begin)
<1>1. /\ u \in Seq(C) /\ Len(u) <= Len(l)
      /\ \A k \in 1 .. Len(l) :
            InToken(l, k) <=> k <= Len(u) /\ u[k] # Delim
  BY UncommentedLine
<1>2. /\ begin = Npos => \A i \in from + 1 .. Len(u) : u[i] = Delim
      /\ begin # Npos => /\ begin \in from .. Len(u) - 1
                        /\ u[begin + 1] # Delim
                        /\ \A i \in from + 1 .. begin : u[i] = Delim
  BY <1>1, FoundFirstNot
<1>3. ASSUME NEW k \in Starts(l), k > end
      PROVE  k \in from + 1 .. Len(u) /\ u[k] # Delim
  <2>1. k \in 1 .. Len(l) /\ InToken(l, k)
    BY DEF Starts
  <2>2. k <= Len(u) /\ u[k] # Delim
    BY <1>1, <2>1
  <2> QED
    BY <1>3, <2>1, <2>2
<1>4. CASE begin = Npos
  BY <1>2, <1>3, <1>4 DEF Follows, Starts
<1>5. CASE begin # Npos
  <2>1. /\ begin \in from .. Len(u) - 1 /\ u[begin + 1] # Delim
        /\ \A i \in from + 1 .. begin : u[i] = Delim
    BY <1>2, <1>5
  <2>2. begin + 1 \in 1 .. Len(l) /\ InToken(l, begin + 1)
    BY <1>1, <2>1
  <2>3. begin + 1 > 1 => ~InToken(l, begin)
    <3> HAVE begin + 1 > 1
    <3>1. begin \in 1 .. Len(u) /\ begin \in 1 .. Len(l)
      BY <1>1, <2>1
    <3>2. u[begin] = Delim
      <4>1. CASE begin > from
        BY <2>1, <4>1
      <4>2. CASE begin = from
        <5>1. begin \in end + 1 .. from
          BY <4>2, <3>1
        <5> QED
          BY <5>1, <3>1
      <4> QED
        BY <4>1, <4>2, <2>1
    <3> QED
      BY <1>1, <3>1, <3>2
  <2>4. begin + 1 \in Starts(l)
    <3>1. (begin + 1) - 1 = begin
      BY <2>1
    <3> QED
      BY <2>2, <2>3, <3>1 DEF Starts
  <2>5. begin + 1 > end
    BY <2>1
  <2>6. ASSUME NEW k \in Starts(l), k > end
        PROVE  begin + 1 <= k
    <3>1. k \in from + 1 .. Len(u) /\ u[k] # Delim
      BY <1>3, <2>6
    <3> QED
      BY <2>1, <3>1
  <2> QED
    BY <1>5, <2>4, <2>5, <2>6 DEF Follows
<1> QED
  BY <1>4, <1>5

\* One turn of split cuts the token at its position and finds the next one.
LEMMA CutsAToken ==
    ASSUME NEW C, NEW l \in Seq(C), NEW u, u = Uncommented(l),
           NEW i \in Starts(l),
           NEW found, found = FindFirstOf(u, Delim, i - 1),
           NEW end, end = IF found = Npos THEN Len(u) ELSE found
    PROVE  /\ end \in i .. Len(u)
           /\ SubSeq(u, i, end) = Token(l, i) /\ Token(l, i) \in Seq(C)
           /\ \A k \in Starts(l) : k >= i /\ k <= end => k = i
           /\ Follows(l, end, NextTokenAt(u, end))
<1>1. /\ u \in Seq(C) /\ Len(u) <= Len(l)
      /\ \A k \in 1 .. Len(l) :
            InToken(l, k) <=> k <= Len(u) /\ u[k] # Delim
  BY UncommentedLine
<1>2. i \in 1 .. Len(u) /\ u[i] # Delim
  BY <1>1 DEF Starts
<1>3. /\ found = Npos => \A k \in i .. Len(u) : u[k] # Delim
      /\ found # Npos => /\ found \in i - 1 .. Len(u) - 1
                         /\ u[found + 1] = Delim
                         /\ \A k \in i .. found : u[k] # Delim
  <2>1. i - 1 \in Nat /\ (i - 1) + 1 = i
    BY <1>2
  <2>2. /\ found = Npos => \A k \in (i - 1) + 1 .. Len(u) : u[k] # Delim
        /\ found # Npos => /\ found \in i - 1 .. Len(u) - 1
                           /\ u[found + 1] = Delim
                           /\ \A k \in (i - 1) + 1 .. found : u[k] # Delim
    BY <1>1, <2>1, FoundFirst
  <2> QED
    BY <2>1, <2>2
<1>4. found # Npos => found \in i .. Len(u) - 1
  <2> SUFFICES ASSUME found # Npos, found = i - 1 PROVE FALSE
    BY <1>2, <1>3
  <2>1. found + 1 = i
    BY <1>2
  <2> QED
    BY <1>2, <1>3, <2>1
<1>5. end \in i .. Len(u) /\ \A k \in i .. end : u[k] # Delim
  BY <1>1, <1>2, <1>3, <1>4
<1>6. end < Len(u) => u[end + 1] = Delim
  BY <1>1, <1>3, <1>4
<1>7. SubSeq(u, i, end) = Token(l, i)
  <2>1. i \in 1 .. Len(u)
    BY <1>2
  <2>2. end \in i .. Len(u)
    BY <1>5
  <2>3. \A k \in i .. end : u[k] # Delim
    BY <1>5
  <2> QED
    BY <2>1, <2>2, <2>3, <1>6, TokenEnds
<1>8. SubSeq(u, i, end) \in Seq(C)
  <2>1. \A k \in i .. end : u[k] \in C
    BY <1>1, <1>2, <1>5
  <2> QED
    BY <2>1, <1>2, <1>5, SubSeqProperties
<1>9. ASSUME NEW k \in Starts(l), k >= i, k <= end
      PROVE  k = i
  <2> SUFFICES ASSUME k > i PROVE FALSE
    BY <1>2, <1>9 DEF Starts
  <2>1. k \in 1 .. Len(l) /\ k > 1 /\ k - 1 \in i .. end /\ k - 1 \in 1 .. Len(l)
    BY <1>2, <1>5, <1>9 DEF Starts
  <2>2. InToken(l, k - 1)
    BY <1>1, <1>5, <2>1
  <2> QED
    BY <2>1, <2>2 DEF Starts
<1>10. Follows(l, end, NextTokenAt(u, end))
  <2>1. \A k \in end + 1 .. end + 1 : k <= Len(u) => u[k] = Delim
    BY <1>1, <1>2, <1>5, <1>6
  <2>2. end \in Nat /\ end + 1 \in Nat /\ end < end + 1 /\ end + 1 # 0
    BY <1>2, <1>5
  <2> QED
    BY <2>1, <2>2, SkipsDelimiters DEF NextTokenAt
<1> QED
  BY <1>5, <1>7, <1>8, <1>9, <1>10

\* The tokens cut so far are those that begin up to a position, of which
\* the first two matter.
Cut(l, end, toks) ==
    /\ toks = <<>> => \A k \in Starts(l) : k > end
    /\ Len(toks) = 1 => \E i \in Starts(l) :
                          /\ i <= end /\ toks[1] = Token(l, i)
                          /\ \A k \in Starts(l) : k <= end => k = i
    /\ Len(toks) >= 2 => \E i, j \in Starts(l) :
                          /\ i < j /\ j <= end
                          /\ toks[1] = Token(l, i) /\ toks[2] = Token(l, j)
                          /\ \A k \in Starts(l) : k = i \/ k >= j

\* When there is no other token, the first two make the line's setting.
LEMMA CutAll ==
    ASSUME NEW T, NEW C, NEW l \in Seq(C), NEW toks \in Seq(T), NEW end \in Nat,
           Cut(l, end, toks), Follows(l, end, Npos)
    PROVE  /\ Len(toks) >= 2 <=> HasSetting(l)
           /\ Len(toks) >= 2 => toks[1] = Key(l) /\ toks[2] = Value(l)
<1>1. Starts(l) \subseteq Nat \ {0}
  BY DEF Starts
<1>2. \A k \in Starts(l) : k <= end
  BY DEF Follows
<1>3. CASE Len(toks) >= 2
  <2>1. PICK i \in Starts(l), j \in Starts(l) :
            /\ i < j /\ j <= end
            /\ toks[1] = Token(l, i) /\ toks[2] = Token(l, j)
            /\ \A k \in Starts(l) : k = i \/ k >= j
    BY <1>3 DEF Cut
  <2>2. StartAfter(l, 0) = i
    BY <1>1, <2>1 DEF StartAfter
  <2>3. StartAfter(l, i) = j
    BY <1>1, <2>1 DEF StartAfter
  <2> QED
    BY <1>3, <2>1, <2>2, <2>3 DEF Key, Value, HasSetting
<1>4. CASE ~(Len(toks) >= 2)
  <2>1. Len(toks) = 0 \/ Len(toks) = 1
    <3>1. \A n \in Nat : ~(n >= 2) => n = 0 \/ n = 1
      OBVIOUS
    <3>2. Len(toks) \in Nat
      BY LenProperties
    <3> QED
      BY <3>1, <3>2, <1>4, Zenon
  <2>2. ASSUME NEW i \in Starts(l), NEW j \in Starts(l)
        PROVE  ~(i < j)
    <3>1. CASE Len(toks) = 0
      <4>1. toks = <<>>
        BY <3>1
      <4> QED
        BY <1>1, <1>2, <4>1 DEF Cut
    <3>2. CASE Len(toks) = 1
      BY <1>1, <1>2, <3>2 DEF Cut
    <3> QED
      BY <2>1, <3>1, <3>2
  <2> QED
    BY <1>4, <2>2 DEF HasSetting
<1> QED
  BY <1>3, <1>4

\* One more token.
LEMMA CutOneMore ==
    ASSUME NEW T, NEW C, NEW l \in Seq(C), NEW toks \in Seq(T), NEW end \in Nat,
           Cut(l, end, toks),
           NEW i \in Starts(l), i > end, \A k \in Starts(l) : k > end => i <= k,
           Token(l, i) \in T,
           NEW to \in Nat, i <= to,
           \A k \in Starts(l) : k >= i /\ k <= to => k = i
    PROVE  Cut(l, to, Append(toks, Token(l, i)))
<1>1. Starts(l) \subseteq Nat \ {0}
  BY DEF Starts
<1> DEFINE more == Append(toks, Token(l, i))
<1>2. /\ more # <<>> /\ Len(more) = Len(toks) + 1
      /\ \A n \in 1 .. Len(toks) : more[n] = toks[n]
      /\ more[Len(toks) + 1] = Token(l, i)
  BY AppendProperties
<1> HIDE DEF more
<1>3. CASE Len(toks) = 0
  <2>1. toks = <<>>
    BY <1>3
  <2>2. \A k \in Starts(l) : k <= to => k = i
    BY <1>1, <2>1 DEF Cut
  <2>3. Len(more) = 1 /\ more[1] = Token(l, i)
    BY <1>2, <1>3
  <2> QED
    BY <1>2, <2>2, <2>3 DEF Cut, more
<1>4. CASE Len(toks) = 1
  <2>1. PICK h \in Starts(l) : /\ h <= end /\ toks[1] = Token(l, h)
                               /\ \A k \in Starts(l) : k <= end => k = h
    BY <1>4 DEF Cut
  <2>2. \A k \in Starts(l) : k = h \/ k >= i
    BY <1>1, <2>1
  <2>3. Len(more) = 2 /\ more[1] = Token(l, h) /\ more[2] = Token(l, i)
    BY <1>2, <1>4, <2>1
  <2>4. h < i
    BY <1>1, <2>1
  <2> QED
    BY <1>2, <2>2, <2>3, <2>4 DEF Cut, more
<1>5. CASE Len(toks) >= 2
  <2>1. PICK g \in Starts(l), h \in Starts(l) :
            /\ g < h /\ h <= end
            /\ toks[1] = Token(l, g) /\ toks[2] = Token(l, h)
            /\ \A k \in Starts(l) : k = g \/ k >= h
    BY <1>5 DEF Cut
  <2>2. Len(more) >= 3 /\ more[1] = Token(l, g) /\ more[2] = Token(l, h)
    BY <1>2, <1>5, <2>1
  <2>3. h <= to
    BY <1>1, <2>1
  <2> QED
    BY <1>2, <2>1, <2>2, <2>3 DEF Cut, more
<1>6. Len(toks) = 0 \/ Len(toks) = 1 \/ Len(toks) >= 2
  <2>1. \A n \in Nat : n = 0 \/ n = 1 \/ n >= 2
    OBVIOUS
  <2>2. Len(toks) \in Nat
    BY LenProperties
  <2> QED
    BY <2>1, <2>2, Zenon
<1> QED
  BY <1>3, <1>4, <1>5, <1>6, Zenon DEF more

\* The settings of a file's first n lines.
Settings(f, n) ==
    {<<Key(f[m]), Value(f[m])>> : m \in {k \in 1 .. n :
        /\ HasSetting(f[k])
        /\ \A j \in 1 .. k - 1 : HasSetting(f[j]) => Key(f[j]) # Key(f[k])}}

ConfigTypeOK ==
    /\ pc \in {"open", "getline", "split", "done", "threw"}
    /\ pc \in {"getline", "split", "done"} =>
          file \in Seq(Seq(Characters)) /\ lineno \in 0 .. Len(file)
    /\ line \in Seq(Characters)
    /\ index \in Nat \cup {Npos}
    /\ tokens \in Seq(Seq(Characters))

\* The line in work is cut up to the next token.
SplitOK ==
    pc = "split" =>
       /\ lineno \in 1 .. Len(file)
       /\ line = Uncommented(file[lineno])
       /\ \E end \in Nat : /\ Cut(file[lineno], end, tokens)
                           /\ Follows(file[lineno], end, index)

MapOK ==
    /\ pc = "open" => /\ lineno = 0 /\ map = {}
                      /\ file = NoFile \/ file \in Seq(Seq(Characters))
    /\ pc = "split" => map = Settings(file, lineno - 1)
    /\ pc \in {"getline", "done"} => map = Settings(file, lineno)
    /\ pc = "done" => lineno = Len(file)
    /\ pc = "threw" => file = NoFile \/ file = <<>>

ConfigInv == ConfigTypeOK /\ SplitOK /\ MapOK

LEMMA ConfigInitOK == ConfigInit => ConfigInv
<1> SUFFICES ASSUME ConfigInit PROVE ConfigInv
  OBVIOUS
<1>1. file = NoFile \/ file \in Seq(Seq(Characters))
  <2>1. Lines \subseteq Seq(Characters)
    BY ConfigAssumption DEF Lines, Characters
  <2>2. ASSUME NEW n \in 0 .. MaxLines, file \in [1 .. n -> Lines]
        PROVE  file \in Seq(Seq(Characters))
    <3>1. file \in [1 .. n -> Seq(Characters)] /\ n \in Nat
      BY <2>1, <2>2, ConfigAssumption
    <3> QED
      BY <3>1
  <2>3. file \in Files
    BY DEF ConfigInit, ConfigStart
  <2> QED
    BY <2>2, <2>3 DEF Files
<1>2. <<>> \in Seq(Characters) /\ <<>> \in Seq(Seq(Characters))
  OBVIOUS
<1> QED
  BY <1>1, <1>2
     DEF ConfigInit, ConfigStart, ConfigInv, ConfigTypeOK, SplitOK, MapOK

LEMMA OpenOK ==
    ASSUME ConfigInv, Open
    PROVE  ConfigInv'
<1>1. /\ pc = "open" /\ lineno = 0 /\ map = {}
      /\ file = NoFile \/ file \in Seq(Seq(Characters))
      /\ UNCHANGED <<file, lineno, line, index, tokens, map>>
      /\ pc' = IF file = NoFile \/ file = <<>> THEN "threw" ELSE "getline"
  BY DEF Open, ConfigInv, MapOK
<1>2. Settings(file, 0) = {}
  BY DEF Settings
<1>3. ConfigTypeOK'
  BY <1>1 DEF ConfigInv, ConfigTypeOK
<1> QED
  BY <1>1, <1>2, <1>3 DEF ConfigInv, SplitOK, MapOK

LEMMA GetLineOK ==
    ASSUME ConfigInv, GetLine
    PROVE  ConfigInv'
<1>1. /\ pc = "getline" /\ pc' = "split" /\ lineno < Len(file)
      /\ lineno' = lineno + 1 /\ tokens' = <<>>
      /\ line' = Uncommented(file[lineno + 1])
      /\ index' = FindFirstNotOf(line', Delim, 0)
      /\ UNCHANGED <<file, map>>
  BY DEF GetLine
<1>2. /\ file \in Seq(Seq(Characters)) /\ lineno \in 0 .. Len(file)
      /\ map = Settings(file, lineno)
  BY <1>1 DEF ConfigInv, ConfigTypeOK, MapOK
<1> DEFINE l == file[lineno + 1]
<1>3. /\ lineno + 1 \in 1 .. Len(file) /\ l \in Seq(Characters)
      /\ (lineno + 1) - 1 = lineno
  BY <1>1, <1>2
<1>4. line' \in Seq(Characters)
  BY <1>1, <1>3, UncommentedLine
<1>5. index' \in Nat \cup {Npos}
  BY <1>1, <1>4, FoundFirstNot, 0 \in Nat
<1>6. Follows(l, 0, index')
  <2>1. \A k \in 0 + 1 .. 0 : k <= Len(line') => line'[k] = Delim
    OBVIOUS
  <2> QED
    BY <1>1, <1>3, <2>1, SkipsDelimiters, 0 \in Nat, 0 < 0 <=> FALSE
<1>7. Cut(l, 0, <<>>)
  <2>1. Len(<<>>) # 1 /\ ~(Len(<<>>) >= 2)
    OBVIOUS
  <2>2. \A k \in Starts(l) : k > 0
    <3>1. DOMAIN l = 1 .. Len(l)
      BY <1>3
    <3> QED
      BY <3>1 DEF Starts
  <2> QED
    BY <2>1, <2>2 DEF Cut
<1>8. ConfigTypeOK'
  BY <1>1, <1>2, <1>3, <1>4, <1>5 DEF ConfigTypeOK
<1>9. SplitOK'
  BY <1>1, <1>3, <1>6, <1>7 DEF SplitOK
<1>10. MapOK'
  BY <1>1, <1>2, <1>3 DEF MapOK
<1> QED
  BY <1>8, <1>9, <1>10 DEF ConfigInv

LEMMA SplitStepOK ==
    ASSUME ConfigInv, Split
    PROVE  ConfigInv'
<1> DEFINE l     == file[lineno]
           found == FindFirstOf(line, Delim, index)
           to    == IF found = Npos THEN Len(line) ELSE found
           i     == index + 1
<1>1. /\ pc = "split" /\ index # Npos
      /\ tokens' = Append(tokens, SubSeq(line, index + 1, to))
      /\ index' = NextTokenAt(line, to)
      /\ UNCHANGED <<file, pc, lineno, line, map>>
  BY DEF Split
<1>2. /\ lineno \in 1 .. Len(file) /\ line = Uncommented(l)
      /\ l \in Seq(Characters)
      /\ index \in Nat /\ tokens \in Seq(Seq(Characters))
  BY <1>1 DEF ConfigInv, ConfigTypeOK, SplitOK
<1>3. PICK end \in Nat : Cut(l, end, tokens) /\ Follows(l, end, index)
  BY <1>1 DEF ConfigInv, SplitOK
<1>4. /\ i \in Starts(l) /\ i > end /\ \A k \in Starts(l) : k > end => i <= k
      /\ i - 1 = index
  BY <1>1, <1>2, <1>3 DEF Follows
<1> HIDE DEF l, i
<1>5. found = FindFirstOf(line, Delim, i - 1)
  BY <1>4
<1>15. to = IF found = Npos THEN Len(line) ELSE found
  OBVIOUS
<1> HIDE DEF found, to
<1>6. /\ to \in i .. Len(line)
      /\ SubSeq(line, i, to) = Token(l, i) /\ Token(l, i) \in Seq(Characters)
      /\ \A k \in Starts(l) : k >= i /\ k <= to => k = i
      /\ Follows(l, to, NextTokenAt(line, to))
  <2>2. l \in Seq(Characters)
    BY <1>2
  <2>3. line = Uncommented(l)
    BY <1>2
  <2>4. i \in Starts(l)
    BY <1>4
  <2>5. found = FindFirstOf(line, Delim, i - 1)
    BY <1>5
  <2>6. to = IF found = Npos THEN Len(line) ELSE found
    BY <1>15
  <2> QED
    BY <2>2, <2>3, <2>4, <2>5, <2>6, CutsAToken
<1>7. i \in Nat
  BY <1>2 DEF i
<1>8. Len(line) \in Nat
  BY LenProperties DEF ConfigInv, ConfigTypeOK
<1>9. to \in Nat /\ i <= to
  BY <1>6, <1>7, <1>8
<1>10. tokens' = Append(tokens, Token(l, i))
  BY <1>1, <1>6 DEF i
<1>11. Cut(l, to, tokens')
  BY <1>2, <1>3, <1>4, <1>6, <1>9, <1>10, CutOneMore
<1>12. index' \in Nat \cup {Npos} /\ tokens' \in Seq(Seq(Characters))
  <2>1. to + 1 \in Nat /\ line \in Seq(Characters)
    BY <1>9 DEF ConfigInv, ConfigTypeOK
  <2>2. index' = FindFirstNotOf(line, Delim, to + 1)
    BY <1>1 DEF NextTokenAt
  <2>3. index' # Npos => index' \in (to + 1) .. Len(line) - 1
    BY <2>1, <2>2, FoundFirstNot
  <2>4. index' \in Nat \cup {Npos}
    BY <2>1, <2>3
  <2>5. tokens' \in Seq(Seq(Characters))
    BY <1>2, <1>6, <1>10, AppendProperties
  <2> QED
    BY <2>4, <2>5
<1>13. ConfigTypeOK'
  BY <1>1, <1>12 DEF ConfigInv, ConfigTypeOK
<1>14. SplitOK'
  BY <1>1, <1>2, <1>6, <1>9, <1>11 DEF SplitOK, l
<1>16. MapOK'
  BY <1>1 DEF ConfigInv, MapOK
<1> QED
  BY <1>13, <1>14, <1>16 DEF ConfigInv

\* A key that some line of a file sets has the value of the first that does.
LEMMA SettingsHaveKey ==
    ASSUME NEW f, NEW n \in Nat, NEW key
    PROVE  (\E s \in Settings(f, n) : s[1] = key)
           <=> \E m \in 1 .. n : HasSetting(f[m]) /\ Key(f[m]) = key
<1>1. ASSUME NEW s \in Settings(f, n), s[1] = key
      PROVE  \E m \in 1 .. n : HasSetting(f[m]) /\ Key(f[m]) = key
  BY <1>1 DEF Settings
<1>2. ASSUME NEW m \in 1 .. n, HasSetting(f[m]), Key(f[m]) = key
      PROVE  \E s \in Settings(f, n) : s[1] = key
  <2> DEFINE S == {k \in 1 .. n : HasSetting(f[k]) /\ Key(f[k]) = key}
  <2>1. PICK k \in S : \A j \in S : k <= j
    <3>1. S \in SUBSET Nat /\ m \in S
      BY <1>2
    <3> QED
      BY <3>1, LeastNumber
  <2>2. \A j \in 1 .. k - 1 : HasSetting(f[j]) => Key(f[j]) # Key(f[k])
    BY <2>1
  <2>3. <<Key(f[k]), Value(f[k])>> \in Settings(f, n)
    BY <2>1, <2>2 DEF Settings
  <2>4. <<Key(f[k]), Value(f[k])>>[1] = key
    BY <2>1
  <2> QED
    BY <2>3, <2>4
<1> QED
  BY <1>1, <1>2

LEMMA EmplaceSettingOK ==
    ASSUME ConfigInv, EmplaceSetting
    PROVE  ConfigInv'
<1> DEFINE l == file[lineno]
<1>1. /\ pc = "split" /\ index = Npos /\ pc' = "getline"
      /\ map' = IF Len(tokens) >= 2 /\ ~HasKey(tokens[1])
                THEN map \cup {<<tokens[1], tokens[2]>>} ELSE map
      /\ UNCHANGED <<file, lineno, line, index, tokens>>
  BY DEF EmplaceSetting
<1>2. /\ lineno \in 1 .. Len(file) /\ l \in Seq(Characters)
      /\ file \in Seq(Seq(Characters)) /\ lineno \in 0 .. Len(file)
      /\ tokens \in Seq(Seq(Characters))
      /\ map = Settings(file, lineno - 1)
  BY <1>1 DEF ConfigInv, ConfigTypeOK, SplitOK, MapOK
<1>3. PICK end \in Nat : Cut(l, end, tokens) /\ Follows(l, end, Npos)
  BY <1>1 DEF ConfigInv, SplitOK
<1>4. /\ Len(tokens) >= 2 <=> HasSetting(l)
      /\ Len(tokens) >= 2 => tokens[1] = Key(l) /\ tokens[2] = Value(l)
  BY <1>2, <1>3, CutAll
<1>5. HasKey(Key(l)) <=>
         \E m \in 1 .. lineno - 1 : HasSetting(file[m]) /\ Key(file[m]) = Key(l)
  <2>1. lineno - 1 \in Nat
    BY <1>2
  <2>2. (\E s \in Settings(file, lineno - 1) : s[1] = Key(l)) <=>
           \E m \in 1 .. lineno - 1 : HasSetting(file[m]) /\ Key(file[m]) = Key(l)
    BY <2>1, SettingsHaveKey
  <2>3. map = Settings(file, lineno - 1)
    BY <1>2
  <2> QED
    BY <2>2, <2>3 DEF HasKey
<1>6. map' = Settings(file, lineno)
  <2> DEFINE Earliest(k) == /\ HasSetting(file[k])
                         /\ \A j \in 1 .. k - 1 :
                               HasSetting(file[j]) => Key(file[j]) # Key(file[k])
             Setting(k) == <<Key(file[k]), Value(file[k])>>
  <2>1. /\ map = {Setting(m) : m \in {k \in 1 .. lineno - 1 : Earliest(k)}}
        /\ Settings(file, lineno) =
              {Setting(m) : m \in {k \in 1 .. lineno : Earliest(k)}}
    BY <1>2 DEF Settings
  <2>2. Earliest(lineno) <=> HasSetting(l) /\ ~HasKey(Key(l))
    BY <1>5
  <2>3. map' = IF Earliest(lineno) THEN map \cup {Setting(lineno)} ELSE map
    BY <1>1, <1>4, <2>2
  <2>4. 1 .. lineno = (1 .. lineno - 1) \cup {lineno}
    BY <1>2
  <2> HIDE DEF Earliest, Setting
  <2> QED
    BY <2>1, <2>3, <2>4
<1>7. ConfigTypeOK'
  BY <1>1, <1>2 DEF ConfigInv, ConfigTypeOK
<1> QED
  BY <1>1, <1>6, <1>7 DEF ConfigInv, SplitOK, MapOK

LEMMA FinishOK ==
    ASSUME ConfigInv, Finish
    PROVE  ConfigInv'
BY DEF ConfigInv, Finish, ConfigTypeOK, SplitOK, MapOK

\* While a configuration file is read, the settings are those of the lines
\* read, and the tokens those cut from the line in work.
THEOREM ConfigInvHolds == ConfigSpec => []ConfigInv
<1>1. ASSUME ConfigInv, [ConfigNext]_configVars
      PROVE  ConfigInv'
  <2>1. CASE UNCHANGED configVars
    BY <1>1, <2>1 DEF configVars, ConfigInv, ConfigTypeOK, SplitOK, MapOK
  <2> QED
    BY <1>1, <2>1, OpenOK, GetLineOK, SplitStepOK, EmplaceSettingOK, FinishOK
       DEF ConfigNext
<1> QED
  BY <1>1, ConfigInitOK, PTL DEF ConfigSpec

\* A loaded file has for each key the value of the first line that sets it,
\* and nothing else; only a file of no lines, or none, is refused
\* (load_from_file and split).
THEOREM FirstSettingHoldsHolds == ConfigSpec => []FirstSettingHolds
<1>1. ConfigInv => FirstSettingHolds
  <2> SUFFICES ASSUME ConfigInv PROVE FirstSettingHolds
    OBVIOUS
  <2>1. pc = "done" => map = Settings(file, Len(file)) /\ DOMAIN file = 1 .. Len(file)
    BY DEF ConfigInv, ConfigTypeOK, MapOK
  <2>2. pc = "threw" => file = NoFile \/ file = <<>>
    BY DEF ConfigInv, MapOK
  <2> QED
    BY <2>1, <2>2 DEF FirstSettingHolds, Settings
<1> QED
  BY <1>1, ConfigInvHolds, PTL
=============================================================================
