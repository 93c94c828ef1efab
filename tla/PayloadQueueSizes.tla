-------------------------- MODULE PayloadQueueSizes --------------------------
(* Proofs about what PayloadQueue counts, for all sizes and numbers of     *)
(* payloads: the bytes in memory, in files and in the quota, and the wakes *)
(* of the channel.                                                         *)
EXTENDS PayloadQueueProofs, TotalsProofs

\* The length of a payload is one of those allowed.
LEMMA LenIsNat == ASSUME NEW p \in Payload PROVE p.len \in Lengths /\ p.len \in Nat
BY SizesAssumption DEF Payload

----------------------------------------------------------------------------
(* The bytes of a sequence of payloads, and of a sequence of files.        *)

LenOf == [p \in Payload |-> p.len]

\* The bytes of payloads are a sum of lengths.
LEMMA BytesIsTotal ==
  /\ LenOf \in [Payload -> Nat]
  /\ \A s \in Seq(Payload) : Bytes(s) = Total(Image(LenOf, s))
<1>1. LenOf \in [Payload -> Nat]
  BY LenIsNat DEF LenOf
<1>2. ASSUME NEW s \in Seq(Payload) PROVE Bytes(s) = Total(Image(LenOf, s))
  <2>1. \A i \in 1..Len(s) : LenOf[s[i]] = s[i].len
    BY DEF LenOf
  <2>2. Image(LenOf, s) = [i \in 1..Len(s) |-> s[i].len]
    BY <2>1, Zenon DEF Image
  <2> QED BY <2>2 DEF Bytes
<1> QED BY <1>1, <1>2

\* Sizes are naturals, and a file is no smaller than its payloads.
LEMMA BytesIsNat ==
  ASSUME NEW s \in Seq(Payload)
  PROVE  /\ Bytes(s) \in Nat /\ FileBytes(s) \in Nat
         /\ Bytes(s) <= FileBytes(s)
<1>1. Bytes(s) \in Nat /\ Len(s) \in Nat
  BY BytesIsTotal, ImageTotals
<1> QED BY <1>1 DEF FileBytes

\* No payloads have no bytes.
LEMMA BytesOfNone == Bytes(<<>>) = 0 /\ FileBytes(<<>>) = 0
<1>1. <<>> \in Seq(Payload) /\ Len(<<>>) = 0
  OBVIOUS
<1>2. Bytes(<<>>) = 0
  BY <1>1, BytesIsTotal, ImageTotals
<1> QED BY <1>1, <1>2 DEF FileBytes

\* A payload alone has its length, and two bytes more in a file.
LEMMA BytesOfOne ==
  ASSUME NEW p \in Payload
  PROVE  /\ <<p>> \in Seq(Payload)
         /\ Bytes(<<p>>) = p.len /\ FileBytes(<<p>>) = p.len + 2
<1>1. <<p>> \in Seq(Payload) /\ Len(<<p>>) = 1
  OBVIOUS
<1>2. Bytes(<<p>>) = LenOf[p]
  BY <1>1, BytesIsTotal, ImageTotals
<1>3. LenOf[p] = p.len
  BY DEF LenOf
<1> QED BY <1>1, <1>2, <1>3 DEF FileBytes

\* The bytes of two sequences add up.
LEMMA BytesOfConcat ==
  ASSUME NEW s \in Seq(Payload), NEW t \in Seq(Payload)
  PROVE  /\ s \o t \in Seq(Payload)
         /\ Bytes(s \o t) = Bytes(s) + Bytes(t)
         /\ FileBytes(s \o t) = FileBytes(s) + FileBytes(t)
<1> DEFINE u == s \o t
<1>1. u \in Seq(Payload) /\ Len(u) = Len(s) + Len(t) /\ Len(s) \in Nat /\ Len(t) \in Nat
  OBVIOUS
<1>2. Total(Image(LenOf, u)) = Total(Image(LenOf, s)) + Total(Image(LenOf, t))
  BY BytesIsTotal, ImageTotals
<1> HIDE DEF u
<1>3. Bytes(u) = Bytes(s) + Bytes(t)
  BY <1>1, <1>2, BytesIsTotal
<1>4. Bytes(s) \in Nat /\ Bytes(t) \in Nat
  BY BytesIsNat
<1>5. FileBytes(u) = FileBytes(s) + FileBytes(t)
  BY <1>1, <1>3, <1>4 DEF FileBytes
<1> QED BY <1>1, <1>3, <1>5 DEF u

\* A payload more adds its bytes.
LEMMA BytesOfAppend ==
  ASSUME NEW s \in Seq(Payload), NEW p \in Payload
  PROVE  /\ Append(s, p) \in Seq(Payload)
         /\ Bytes(Append(s, p)) = Bytes(s) + p.len
         /\ FileBytes(Append(s, p)) = FileBytes(s) + p.len + 2
<1>1. Append(s, p) = s \o <<p>>
  OBVIOUS
<1>2. <<p>> \in Seq(Payload) /\ Bytes(<<p>>) = p.len /\ FileBytes(<<p>>) = p.len + 2
  BY BytesOfOne
<1>3. /\ s \o <<p>> \in Seq(Payload)
      /\ Bytes(s \o <<p>>) = Bytes(s) + p.len
      /\ FileBytes(s \o <<p>>) = FileBytes(s) + (p.len + 2)
  BY <1>2, BytesOfConcat
<1>4. FileBytes(s) \in Nat /\ p.len \in Nat
  BY BytesIsNat, LenIsNat
<1> QED BY <1>1, <1>3, <1>4

\* The first takes its bytes away with it.
LEMMA BytesOfTail ==
  ASSUME NEW s \in Seq(Payload), s # <<>>
  PROVE  /\ Tail(s) \in Seq(Payload) /\ Head(s) \in Payload
         /\ Bytes(Tail(s)) = Bytes(s) - Head(s).len
<1>1. s = <<Head(s)>> \o Tail(s) /\ Tail(s) \in Seq(Payload) /\ Head(s) \in Payload
  BY HeadAndTail
<1>2. Bytes(s) = Head(s).len + Bytes(Tail(s))
  <2>1. ASSUME NEW h \in Payload, NEW t \in Seq(Payload)
        PROVE  Bytes(<<h>> \o t) = h.len + Bytes(t)
    <3>1. <<h>> \in Seq(Payload) /\ Bytes(<<h>>) = h.len
      BY BytesOfOne
    <3>2. Bytes(<<h>> \o t) = Bytes(<<h>>) + Bytes(t)
      BY <3>1, BytesOfConcat
    <3> QED BY <3>1, <3>2
  <2>2. Bytes(<<Head(s)>> \o Tail(s)) = Head(s).len + Bytes(Tail(s))
    BY <1>1, <2>1
  <2> QED BY <1>1, <2>2, Zenon
<1>3. Head(s).len \in Nat /\ Bytes(Tail(s)) \in Nat
  BY <1>1, BytesIsNat, LenIsNat
<1> QED BY <1>1, <1>2, <1>3

\* Cutting a sequence loses no bytes.
LEMMA BytesOfPieces ==
  ASSUME NEW s \in Seq(Payload), NEW k \in 0..Len(s)
  PROVE  /\ SubSeq(s, 1, k) \in Seq(Payload) /\ SubSeq(s, k + 1, Len(s)) \in Seq(Payload)
         /\ Bytes(s) = Bytes(SubSeq(s, 1, k)) + Bytes(SubSeq(s, k + 1, Len(s)))
         /\ FileBytes(s) = FileBytes(SubSeq(s, 1, k)) + FileBytes(SubSeq(s, k + 1, Len(s)))
<1>1. /\ s = SubSeq(s, 1, k) \o SubSeq(s, k + 1, Len(s))
      /\ SubSeq(s, 1, k) \in Seq(Payload) /\ SubSeq(s, k + 1, Len(s)) \in Seq(Payload)
  BY SequenceSplit
<1> DEFINE a == SubSeq(s, 1, k)
           b == SubSeq(s, k + 1, Len(s))
<1>2. Bytes(a \o b) = Bytes(a) + Bytes(b) /\ FileBytes(a \o b) = FileBytes(a) + FileBytes(b)
  <2>1. a \in Seq(Payload) /\ b \in Seq(Payload)
    BY <1>1
  <2> HIDE DEF a, b
  <2> QED BY <2>1, BytesOfConcat
<1> QED BY <1>1, <1>2, Zenon

FileBytesOf == [f \in Seq(Payload) |-> FileBytes(f)]

\* The bytes of the files are the sum of each file's.
LEMMA DiscIsTotal ==
  /\ FileBytesOf \in [Seq(Payload) -> Nat]
  /\ \A fs \in Seq(Seq(Payload)) : DiscBytes(fs) = Total(Image(FileBytesOf, fs))
<1>1. FileBytesOf \in [Seq(Payload) -> Nat]
  BY BytesIsNat DEF FileBytesOf
<1>2. ASSUME NEW fs \in Seq(Seq(Payload))
      PROVE  DiscBytes(fs) = Total(Image(FileBytesOf, fs))
  <2>1. \A f \in 1..Len(fs) : FileBytesOf[fs[f]] = FileBytes(fs[f])
    <3>1. \A f \in 1..Len(fs) : fs[f] \in Seq(Payload)
      OBVIOUS
    <3> QED BY <3>1, Zenon DEF FileBytesOf
  <2>2. Image(FileBytesOf, fs) = [f \in 1..Len(fs) |-> FileBytes(fs[f])]
    BY <2>1, Zenon DEF Image
  <2> QED BY <2>2, Zenon DEF DiscBytes
<1> QED BY <1>1, <1>2

\* The bytes of lists of files add up.
LEMMA DiscBytesFacts ==
  /\ DiscBytes(<<>>) = 0
  /\ \A f \in Seq(Payload) : DiscBytes(<<f>>) = FileBytes(f)
  /\ \A fs \in Seq(Seq(Payload)) : DiscBytes(fs) \in Nat
  /\ \A fs, gs \in Seq(Seq(Payload)) :
       DiscBytes(fs \o gs) = DiscBytes(fs) + DiscBytes(gs)
<1>1. /\ Total(Image(FileBytesOf, <<>>)) = 0
      /\ \A f \in Seq(Payload) : Total(Image(FileBytesOf, <<f>>)) = FileBytesOf[f]
      /\ \A fs \in Seq(Seq(Payload)) : Total(Image(FileBytesOf, fs)) \in Nat
      /\ \A fs, gs \in Seq(Seq(Payload)) :
           Total(Image(FileBytesOf, fs \o gs))
             = Total(Image(FileBytesOf, fs)) + Total(Image(FileBytesOf, gs))
  BY DiscIsTotal, ImageTotals
<1>2. ASSUME NEW S
      PROVE  /\ <<>> \in Seq(S) /\ \A f \in S : <<f>> \in Seq(S)
             /\ \A fs, gs \in Seq(S) : fs \o gs \in Seq(S)
  OBVIOUS
<1>3. /\ <<>> \in Seq(Seq(Payload)) /\ \A f \in Seq(Payload) : <<f>> \in Seq(Seq(Payload))
      /\ \A fs, gs \in Seq(Seq(Payload)) : fs \o gs \in Seq(Seq(Payload))
  BY <1>2
<1>4. \A f \in Seq(Payload) : FileBytesOf[f] = FileBytes(f)
  BY DEF FileBytesOf
<1> QED BY <1>1, <1>3, <1>4, DiscIsTotal, Zenon

\* A new file is empty.
LEMMA DiscBytesOfNew ==
  ASSUME NEW fs \in Seq(Seq(Payload))
  PROVE  DiscBytes(Append(fs, <<>>)) = DiscBytes(fs)
<1>1. ASSUME NEW S, NEW q \in Seq(S), NEW x \in S
      PROVE  Append(q, x) = q \o <<x>> /\ <<x>> \in Seq(S)
  OBVIOUS
<1>2. <<>> \in Seq(Payload)
  OBVIOUS
<1> DEFINE nil == <<>>
<1>3. Append(fs, nil) = fs \o <<nil>> /\ <<nil>> \in Seq(Seq(Payload))
  BY <1>1, <1>2
<1>4. DiscBytes(<<nil>>) = 0
  BY <1>2, BytesOfNone, DiscBytesFacts
<1>5. DiscBytes(fs) \in Nat
  BY DiscBytesFacts
<1> HIDE DEF nil
<1>6. DiscBytes(fs \o <<nil>>) = DiscBytes(fs) + DiscBytes(<<nil>>)
  BY <1>3, DiscBytesFacts
<1>7. DiscBytes(Append(fs, nil)) = DiscBytes(fs)
  BY <1>3, <1>4, <1>5, <1>6
<1> QED BY <1>7 DEF nil

\* What is read and deleted, and what is not.
LEMMA DiscBytesOfPieces ==
  ASSUME NEW fs \in Seq(Seq(Payload)), NEW k \in 0..Len(fs)
  PROVE  DiscBytes(fs) = DiscBytes(SubSeq(fs, 1, k)) + DiscBytes(SubSeq(fs, k + 1, Len(fs)))
<1> DEFINE a == SubSeq(fs, 1, k)
           b == SubSeq(fs, k + 1, Len(fs))
<1>1. a \in Seq(Seq(Payload)) /\ b \in Seq(Seq(Payload)) /\ fs = a \o b
  BY SequenceSplit
<1> HIDE DEF a, b
<1>2. DiscBytes(fs) = DiscBytes(a) + DiscBytes(b)
  BY <1>1, DiscBytesFacts, Zenon
<1> QED BY <1>2 DEF a, b

\* Records are added to the last file.
LEMMA DiscBytesOfWritten ==
  ASSUME NEW fs \in Seq(Seq(Payload)), fs # <<>>, NEW s \in Seq(Payload)
  PROVE  LET to == Written(fs, s)
             n  == Len(fs)
         IN  /\ to \in Seq(Seq(Payload)) /\ Len(to) = n /\ n \in 1..n
             /\ \A i \in 1..n : to[i] = IF i = n THEN fs[n] \o s ELSE fs[i]
             /\ fs[n] \in Seq(Payload)
             /\ DiscBytes(to) = DiscBytes(fs) + FileBytes(s)
<1> DEFINE n == Len(fs)
           to == Written(fs, s)
           last == fs[n] \o s
           init == SubSeq(fs, 1, n - 1)
<1>1. n \in Nat /\ n # 0 /\ n \in 1..n /\ n - 1 \in 0..n /\ fs[n] \in Seq(Payload)
  OBVIOUS
<1>2. last \in Seq(Payload) /\ FileBytes(last) = FileBytes(fs[n]) + FileBytes(s)
  BY <1>1, BytesOfConcat
<1>3. /\ to \in Seq(Seq(Payload)) /\ Len(to) = n
      /\ \A i \in 1..n : to[i] = IF i = n THEN last ELSE fs[i]
  <2>1. ASSUME NEW S, NEW q \in Seq(S), NEW e \in S, NEW j \in 1..Len(q)
        PROVE  LET r == [q EXCEPT ![j] = e] IN
               /\ r \in Seq(S) /\ Len(r) = Len(q)
               /\ \A i \in 1..Len(q) : r[i] = IF i = j THEN e ELSE q[i]
    OBVIOUS
  <2> QED BY <1>1, <1>2, <2>1 DEF Written
<1>4. ASSUME NEW S, NEW q \in Seq(S), Len(q) \in Nat \ {0}
      PROVE  LET r == SubSeq(q, 1, Len(q) - 1)
             IN  /\ r \in Seq(S) /\ Len(r) = Len(q) - 1
                 /\ \A i \in 1..(Len(q) - 1) : r[i] = q[i]
                 /\ q = r \o <<q[Len(q)]>>
  <2> DEFINE r == SubSeq(q, 1, Len(q) - 1)
             x == q[Len(q)]
  <2>1. r \in Seq(S) /\ Len(r) = Len(q) - 1 /\ (\A i \in 1..(Len(q) - 1) : r[i] = q[i])
        /\ x \in S
    <3>1. Len(q) - 1 \in 0..Len(q) /\ Len(q) \in 1..Len(q)
      BY <1>4
    <3>2. x \in S
      BY <3>1
    <3> QED BY <3>1, <3>2, PrefixFacts
  <2> HIDE DEF r, x
  <2>2. /\ r \o <<x>> \in Seq(S) /\ Len(r \o <<x>>) = Len(r) + 1
        /\ (r \o <<x>>)[Len(r) + 1] = x /\ \A i \in 1..Len(r) : (r \o <<x>>)[i] = r[i]
    BY <2>1
  <2>3. \A i \in 1..Len(q) : i \in 1..(Len(q) - 1) \/ i = Len(q)
    BY <1>4
  <2>4. \A i \in 1..Len(q) : q[i] = (r \o <<x>>)[i]
    BY <1>4, <2>1, <2>2, <2>3 DEF x
  <2>5. Len(q) = Len(r \o <<x>>)
    BY <1>4, <2>1, <2>2
  <2>6. q = r \o <<x>>
    BY <2>2, <2>4, <2>5, SequencesEqual
  <2> QED BY <2>1, <2>6 DEF r, x
<1>5. /\ init \in Seq(Seq(Payload)) /\ Len(init) = n - 1
      /\ \A i \in 1..(n - 1) : init[i] = fs[i]
      /\ fs = init \o <<fs[n]>>
  BY <1>1, <1>4
<1> HIDE DEF init, to, last
<1>6. to = init \o <<last>>
  <2> DEFINE v == SubSeq(to, 1, Len(to) - 1)
  <2>1. /\ v \in Seq(Seq(Payload)) /\ Len(v) = n - 1
        /\ \A i \in 1..(n - 1) : v[i] = to[i]
        /\ to = v \o <<to[n]>>
    BY <1>1, <1>3, <1>4
  <2>2. \A i \in 1..(n - 1) : i \in 1..n /\ i # n
    BY <1>1
  <2> HIDE DEF v
  <2>3. v = init
    <3>1. \A i \in 1..(n - 1) : v[i] = init[i]
      BY <1>3, <1>5, <2>1, <2>2
    <3> HIDE DEF n
    <3> QED BY <1>5, <2>1, <3>1, SequencesEqual
  <2> QED BY <1>1, <1>3, <2>1, <2>3
<1>7. DiscBytes(to) = DiscBytes(fs) + FileBytes(s)
  <2>1. ASSUME NEW f \in Seq(Payload)
        PROVE  DiscBytes(init \o <<f>>) = DiscBytes(init) + FileBytes(f)
    <3>1. ASSUME NEW S, NEW x \in S PROVE <<x>> \in Seq(S)
      OBVIOUS
    <3>2. <<f>> \in Seq(Seq(Payload))
      BY <3>1
    <3>3. DiscBytes(init \o <<f>>) = DiscBytes(init) + DiscBytes(<<f>>)
      BY <1>5, <3>2, DiscBytesFacts, Zenon
    <3>4. DiscBytes(<<f>>) = FileBytes(f)
      BY DiscBytesFacts
    <3> QED BY <3>3, <3>4
  <2>2. DiscBytes(to) = DiscBytes(init) + FileBytes(last)
    BY <1>2, <1>6, <2>1
  <2>3. DiscBytes(fs) = DiscBytes(init) + FileBytes(fs[n])
    BY <1>1, <1>5, <2>1, Zenon
  <2>4. /\ DiscBytes(init) \in Nat /\ FileBytes(fs[n]) \in Nat
        /\ FileBytes(s) \in Nat
    BY <1>1, <1>5, BytesIsNat, DiscBytesFacts
  <2> QED BY <1>2, <2>2, <2>3, <2>4
<1> QED BY <1>1, <1>3, <1>7 DEF to, last

----------------------------------------------------------------------------
(* The inductive invariant: sz_mem is right and under the limit, and so is *)
(* the size of any file, for it may be read into memory; sz_out covers the *)
(* file that is open and its buffer, without which that file might outgrow *)
(* the limit; the quota covers the disc; and a running queue with nothing  *)
(* in memory has no file and a user to tell, while one with something has  *)
(* told its channel.                                                       *)

FilesBounded == \A f \in 1..Len(files) : Bytes(files[f]) < MaxMem

StreamSized ==
  /\ szOut \in Nat
  /\ out = "listed" =>
       /\ szOut < MaxMem
       /\ FileBytes(files[Len(files)]) + FileBytes(buffered) <= szOut

QuotaSized == amount \in Nat /\ QuotaCoversDisc

Alert ==
  running => /\ mem = <<>> => files = <<>> /\ disappointed
             /\ mem # <<>> => event \/ streaming

SizeInv == MemoryBounded /\ FilesBounded /\ StreamSized /\ QuotaSized /\ Alert

\* What load_head_file() leaves of the files.
LEMMA LoadSizes ==
  ASSUME NEW fs \in Seq(Seq(Payload)), \A f \in 1..Len(fs) : Bytes(fs[f]) < MaxMem
  PROVE  LET h    == HeadFile(fs)
             rest == SubSeq(fs, h + 1, Len(fs))
         IN  /\ Loaded(fs) \in Seq(Payload) /\ Bytes(Loaded(fs)) < MaxMem
             /\ rest \in Seq(Seq(Payload))
             /\ \A f \in 1..Len(rest) : Bytes(rest[f]) < MaxMem
             /\ rest # <<>> => rest[Len(rest)] = fs[Len(fs)]
             /\ Loaded(fs) = <<>> => rest = <<>>
             /\ DiscBytes(fs) = DiscBytes(SubSeq(fs, 1, h)) + DiscBytes(rest)
             /\ DiscBytes(SubSeq(fs, 1, h)) \in Nat /\ DiscBytes(rest) \in Nat
<1> DEFINE h == HeadFile(fs)
           read == SubSeq(fs, 1, h)
           rest == SubSeq(fs, h + 1, Len(fs))
<1>1. h \in 0..Len(fs) /\ Loaded(fs) \in Seq(Payload) /\ (Loaded(fs) = <<>> => h = Len(fs))
  BY HeadFileFacts
<1>2. Loaded(fs) = IF h = 0 THEN <<>> ELSE fs[h]
  BY DEF Loaded
<1> HIDE DEF h
<1>3. DiscBytes(fs) = DiscBytes(read) + DiscBytes(rest)
  BY <1>1, DiscBytesOfPieces
<1>4. read \in Seq(Seq(Payload)) /\ rest \in Seq(Seq(Payload))
  BY <1>1, SequenceSplit
<1>5. DiscBytes(read) \in Nat /\ DiscBytes(rest) \in Nat
  BY <1>4, DiscBytesFacts
<1>6. Bytes(Loaded(fs)) < MaxMem
  <2>1. CASE h = 0
    BY <1>2, <2>1, BytesOfNone, SizesAssumption
  <2>2. CASE h # 0
    <3>1. h \in 1..Len(fs)
      BY <1>1, <2>2
    <3> QED BY <1>2, <2>2, <3>1
  <2> QED BY <2>1, <2>2
<1>7. /\ Len(rest) = Len(fs) - h /\ Len(fs) \in Nat
      /\ \A f \in 1..Len(rest) : h + f \in 1..Len(fs) /\ rest[f] = fs[h + f]
  <2>1. ASSUME NEW S, NEW q \in Seq(S), NEW n \in 0..Len(q)
        PROVE  LET r == SubSeq(q, n + 1, Len(q)) IN
               /\ Len(r) = Len(q) - n /\ Len(q) \in Nat
               /\ \A i \in 1..Len(r) : n + i \in 1..Len(q) /\ r[i] = q[n + i]
    OBVIOUS
  <2> QED BY <1>1, <2>1
<1>8. rest = <<>> <=> Len(rest) = 0
  <2>1. ASSUME NEW S, NEW q \in Seq(S) PROVE q = <<>> <=> Len(q) = 0
    OBVIOUS
  <2> QED BY <1>4, <2>1
<1> HIDE DEF read, rest
<1>9. \A f \in 1..Len(rest) : Bytes(rest[f]) < MaxMem
  BY <1>7
<1>10. ASSUME rest # <<>> PROVE rest[Len(rest)] = fs[Len(fs)]
  <2>1. Len(rest) \in 1..Len(rest) /\ h + Len(rest) = Len(fs)
    BY <1>1, <1>7, <1>8, <1>10
  <2> QED BY <1>7, <2>1
<1>11. Loaded(fs) = <<>> => rest = <<>>
  BY <1>1, <1>7, <1>8
<1> QED BY <1>1, <1>3, <1>4, <1>5, <1>6, <1>9, <1>10, <1>11 DEF h, read, rest

\* peek() keeps the counts, and disappoints if there is nothing at all.
LEMMA PeekSizes ==
  ASSUME Inv, SizeInv, running, running',
         NEW m \in Seq(Payload), NEW sz, sz = Bytes(m), sz < MaxMem, Peek(m, sz)
  PROVE  /\ MemoryBounded' /\ FilesBounded' /\ StreamSized' /\ QuotaSized'
         /\ mem' = <<>> => files' = <<>> /\ disappointed'
<1>1. CASE m # <<>>
  <2>1. mem' = m /\ szMem' = sz /\ UNCHANGED <<files, amount, out, buffered, szOut>>
    BY <1>1 DEF Peek, outVars
  <2> QED BY <1>1, <2>1 DEF SizeInv, MemoryBounded, FilesBounded, StreamSized, QuotaSized,
                            QuotaCoversDisc
<1>2. CASE m = <<>>
  <2> DEFINE h == HeadFile(files)
             read == SubSeq(files, 1, h)
             rest == SubSeq(files, h + 1, Len(files))
  <2>1. /\ mem' = Loaded(files) /\ szMem' = sz + Bytes(mem')
        /\ files' = rest /\ amount' = Less(DiscBytes(read))
        /\ szOut' = szOut
        /\ disappointed' = (disappointed \/ mem' = <<>>)
        /\ IF out = "listed" /\ files' = <<>>
           THEN out' = "unlinked" /\ buffered' = <<>>
           ELSE UNCHANGED <<out, buffered>>
    BY <1>2 DEF Peek, LoadHeadFile
  <2>2. /\ files \in Seq(Seq(Payload)) /\ buffered \in Seq(Payload)
        /\ \A f \in 1..Len(files) : Bytes(files[f]) < MaxMem
    BY InvFacts DEF SizeInv, FilesBounded
  <2>3. /\ Loaded(files) \in Seq(Payload) /\ Bytes(Loaded(files)) < MaxMem
        /\ rest \in Seq(Seq(Payload))
        /\ \A f \in 1..Len(rest) : Bytes(rest[f]) < MaxMem
        /\ rest # <<>> => rest[Len(rest)] = files[Len(files)]
        /\ Loaded(files) = <<>> => rest = <<>>
        /\ DiscBytes(files) = DiscBytes(read) + DiscBytes(rest)
        /\ DiscBytes(read) \in Nat /\ DiscBytes(rest) \in Nat
    BY <2>2, LoadSizes
  <2> HIDE DEF h, read, rest
  <2>4. MemoryBounded'
    <3>1. sz = 0 /\ Bytes(mem') \in Nat
      BY <1>2, <2>1, <2>3, BytesOfNone, BytesIsNat
    <3> QED BY <2>1, <2>3, <3>1 DEF MemoryBounded
  <2>5. FilesBounded'
    BY <2>1, <2>3 DEF FilesBounded
  <2>6. StreamSized'
    <3>1. CASE out' = "listed"
      <4>1. out = "listed" /\ files' # <<>> /\ buffered' = buffered
        BY <2>1, <3>1
      <4> QED BY <2>1, <2>3, <4>1 DEF SizeInv, StreamSized
    <3>2. CASE out' # "listed"
      BY <2>1, <3>2 DEF SizeInv, StreamSized
    <3> QED BY <3>1, <3>2
  <2>7. QuotaSized'
    <3>1. /\ amount \in Nat /\ FileBytes(buffered) \in Nat
          /\ amount >= DiscBytes(files) + FileBytes(buffered)
      BY <2>2, BytesIsNat DEF SizeInv, QuotaSized, QuotaCoversDisc
    <3>2. FileBytes(buffered') \in {0, FileBytes(buffered)}
      BY <2>1, BytesOfNone
    <3>3. amount' = amount - DiscBytes(read) /\ amount' \in Nat
      BY <2>1, <2>3, <3>1 DEF Less
    <3>4. amount' >= DiscBytes(files') + FileBytes(buffered')
      BY <2>1, <2>3, <3>1, <3>2, <3>3
    <3> QED BY <3>3, <3>4 DEF QuotaSized, QuotaCoversDisc
  <2> QED BY <2>1, <2>3, <2>4, <2>5, <2>6, <2>7
<1> QED BY <1>1, <1>2

\* A payload that goes to memory fits there.
LEMMA PushToMemorySizes ==
  ASSUME Inv, SizeInv, NEW p \in Payload, PushToMemory(p), running,
         UNCHANGED <<streaming, running>>
  PROVE  SizeInv'
<1>1. /\ mem' = Append(mem, p) /\ szMem' = szMem + p.len /\ szMem + p.len < MaxMem
      /\ UNCHANGED <<files, out, buffered, szOut, amount>>
      /\ IF mem = <<>> /\ disappointed
         THEN disappointed' = FALSE /\ event' = TRUE
         ELSE UNCHANGED <<disappointed, event>>
  BY DEF PushToMemory, GoesToMemory, WakesUser, outVars
<1>2. mem' \in Seq(Payload) /\ Bytes(mem') = Bytes(mem) + p.len /\ mem' # <<>>
  <2>1. ASSUME NEW S, NEW q \in Seq(S), NEW x \in S PROVE Append(q, x) # <<>>
    <3>1. Len(Append(q, x)) = Len(q) + 1 /\ Len(q) \in Nat /\ Len(<<>>) = 0
      OBVIOUS
    <3>2. Len(Append(q, x)) # Len(<<>>)
      BY <3>1
    <3> QED BY <3>2
  <2>2. Append(mem, p) # <<>>
    BY <2>1, InvFacts
  <2> QED BY <1>1, <2>2, InvFacts, BytesOfAppend
<1>3. MemoryBounded'
  BY <1>1, <1>2 DEF SizeInv, MemoryBounded
<1>4. FilesBounded' /\ StreamSized' /\ QuotaSized'
  BY <1>1 DEF SizeInv, FilesBounded, StreamSized, QuotaSized, QuotaCoversDisc
<1>5. Alert'
  BY <1>1, <1>2 DEF SizeInv, Alert
<1> QED BY <1>3, <1>4, <1>5 DEF SizeInv

\* Closing the stream moves what is buffered to the last file.
LEMMA FlushSizes ==
  ASSUME Inv, SizeInv
  PROVE  /\ FlushedFiles \in Seq(Seq(Payload))
         /\ \A f \in 1..Len(FlushedFiles) : Bytes(FlushedFiles[f]) < MaxMem
         /\ DiscBytes(FlushedFiles) = DiscBytes(files) + FileBytes(buffered)
<1>1. /\ files \in Seq(Seq(Payload)) /\ buffered \in Seq(Payload)
      /\ \A f \in 1..Len(files) : Bytes(files[f]) < MaxMem
  BY InvFacts DEF SizeInv, FilesBounded
<1>2. CASE out = "listed"
  <2> DEFINE n == Len(files)
             to == Written(files, buffered)
  <2>1. FlushedFiles = to /\ files # <<>>
    BY <1>2 DEF FlushedFiles, Inv, TypeOK
  <2>2. /\ to \in Seq(Seq(Payload)) /\ Len(to) = n /\ n \in 1..n
        /\ \A i \in 1..n : to[i] = IF i = n THEN files[n] \o buffered ELSE files[i]
        /\ files[n] \in Seq(Payload)
        /\ DiscBytes(to) = DiscBytes(files) + FileBytes(buffered)
    BY <1>1, <2>1, DiscBytesOfWritten
  <2>3. szOut < MaxMem /\ FileBytes(files[n]) + FileBytes(buffered) <= szOut /\ szOut \in Nat
    BY <1>2 DEF SizeInv, StreamSized
  <2> HIDE DEF to, n
  <2>4. Bytes(files[n] \o buffered) < MaxMem
    <3>1. Bytes(files[n] \o buffered) = Bytes(files[n]) + Bytes(buffered)
      BY <1>1, <2>2, BytesOfConcat
    <3>2. /\ Bytes(files[n]) \in Nat /\ FileBytes(files[n]) \in Nat
          /\ Bytes(files[n]) <= FileBytes(files[n])
      BY <2>2, BytesIsNat
    <3>3. /\ Bytes(buffered) \in Nat /\ FileBytes(buffered) \in Nat
          /\ Bytes(buffered) <= FileBytes(buffered)
      BY <1>1, BytesIsNat
    <3>4. MaxMem \in Nat
      BY SizesAssumption
    <3> QED BY <2>3, <3>1, <3>2, <3>3, <3>4
  <2>5. \A i \in 1..n : Bytes(to[i]) < MaxMem
    BY <1>1, <2>2, <2>4 DEF n
  <2> QED BY <2>1, <2>2, <2>5
<1>3. CASE out # "listed"
  <2>1. FlushedFiles = files /\ buffered = <<>>
    BY <1>3 DEF FlushedFiles, Inv, TypeOK
  <2>2. FileBytes(buffered) = 0 /\ DiscBytes(files) \in Nat
    BY <1>1, <2>1, BytesOfNone, DiscBytesFacts
  <2> QED BY <1>1, <2>1, <2>2
<1> QED BY <1>2, <1>3

\* Any part of a buffer that, with the last file, is under the limit may be
\* written to that file.
LEMMA WriteSizes ==
  ASSUME NEW base \in Seq(Seq(Payload)), base # <<>>,
         \A f \in 1..Len(base) : Bytes(base[f]) < MaxMem,
         NEW buf \in Seq(Payload), NEW k \in 0..Len(buf), NEW sz \in Nat, sz < MaxMem,
         FileBytes(base[Len(base)]) + FileBytes(buf) <= sz
  PROVE  LET to   == Written(base, SubSeq(buf, 1, k))
             todo == SubSeq(buf, k + 1, Len(buf))
         IN  /\ \A f \in 1..Len(to) : Bytes(to[f]) < MaxMem
             /\ FileBytes(to[Len(to)]) + FileBytes(todo) <= sz
             /\ DiscBytes(to) + FileBytes(todo) = DiscBytes(base) + FileBytes(buf)
<1> DEFINE done == SubSeq(buf, 1, k)
           todo == SubSeq(buf, k + 1, Len(buf))
           n == Len(base)
           to == Written(base, done)
<1>1. /\ done \in Seq(Payload) /\ todo \in Seq(Payload)
      /\ FileBytes(buf) = FileBytes(done) + FileBytes(todo)
  BY BytesOfPieces
<1> HIDE DEF done, todo
<1>2. /\ to \in Seq(Seq(Payload)) /\ Len(to) = n /\ n \in 1..n
      /\ \A i \in 1..n : to[i] = IF i = n THEN base[n] \o done ELSE base[i]
      /\ base[n] \in Seq(Payload)
      /\ DiscBytes(to) = DiscBytes(base) + FileBytes(done)
  BY <1>1, DiscBytesOfWritten
<1>3. FileBytes(base[n]) + FileBytes(buf) <= sz
  OBVIOUS
<1>4. \A f \in 1..n : Bytes(base[f]) < MaxMem
  OBVIOUS
<1> HIDE DEF to, n
<1>5. FileBytes(to[n]) = FileBytes(base[n]) + FileBytes(done)
  <2>1. to[n] = base[n] \o done
    BY <1>2
  <2>2. FileBytes(base[n] \o done) = FileBytes(base[n]) + FileBytes(done)
    BY <1>1, <1>2, BytesOfConcat
  <2> QED BY <2>1, <2>2
<1>6. /\ FileBytes(base[n]) \in Nat /\ FileBytes(done) \in Nat /\ FileBytes(todo) \in Nat
      /\ DiscBytes(base) \in Nat /\ to[n] \in Seq(Payload)
  <2>1. base[n] \in Seq(Payload) /\ base[n] \o done \in Seq(Payload)
    BY <1>1, <1>2, BytesOfConcat
  <2>2. DiscBytes(base) \in Nat
    BY DiscBytesFacts
  <2> QED BY <1>1, <1>2, <2>1, <2>2, BytesIsNat
<1>7. FileBytes(to[n]) + FileBytes(todo) <= sz
  BY <1>1, <1>3, <1>5, <1>6
<1>8. Bytes(to[n]) < MaxMem
  <2>1. /\ Bytes(to[n]) \in Nat /\ FileBytes(to[n]) \in Nat
        /\ Bytes(to[n]) <= FileBytes(to[n])
    BY <1>6, BytesIsNat
  <2>2. MaxMem \in Nat
    BY SizesAssumption
  <2> QED BY <1>6, <1>7, <2>1, <2>2
<1>9. \A f \in 1..n : Bytes(to[f]) < MaxMem
  <2>1. \A f \in 1..n : f # n => Bytes(to[f]) < MaxMem
    BY <1>2, <1>4
  <2> QED BY <1>8, <2>1
<1>10. DiscBytes(to) + FileBytes(todo) = DiscBytes(base) + FileBytes(buf)
  BY <1>1, <1>2, <1>6
<1> QED BY <1>2, <1>7, <1>9, <1>10 DEF to, n, done, todo

\* A new file's limit counts the two bytes that precede each payload, so
\* that it can be read back into memory; the quota is charged for them too.
LEMMA PushToFileSizes ==
  ASSUME Inv, SizeInv, NEW p \in Payload, PushToFile(p), running,
         UNCHANGED <<streaming, running>>
  PROVE  SizeInv'
<1> DEFINE fresh == out = "closed" \/ szOut + 2 + p.len >= MaxMem
           base  == IF fresh THEN Append(FlushedFiles, <<>>) ELSE files
           buf   == IF fresh THEN <<p>> ELSE Append(buffered, p)
           sz    == (IF fresh THEN 0 ELSE szOut) + 2 + p.len
<1>1. /\ UNCHANGED <<mem, szMem, disappointed, event>>
      /\ szOut' = sz /\ amount' = amount + (p.len + 2)
      /\ ~(files = <<>> /\ szMem + p.len < MaxMem)
  BY DEF PushToFile, memVars, RecordBytes, GoesToMemory
<1>2. /\ p.len \in Nat /\ p.len + 2 < MaxMem /\ szOut \in Nat /\ MaxMem \in Nat
      /\ amount \in Nat /\ FileBytes(buffered) \in Nat /\ DiscBytes(files) \in Nat
      /\ amount >= DiscBytes(files) + FileBytes(buffered)
      /\ files \in Seq(Seq(Payload)) /\ buffered \in Seq(Payload)
  <2>1. p.len \in Nat /\ p.len + 2 < MaxMem /\ MaxMem \in Nat
    BY LenIsNat, SizesAssumption
  <2>2. files \in Seq(Seq(Payload)) /\ buffered \in Seq(Payload)
    BY InvFacts
  <2>3. FileBytes(buffered) \in Nat /\ DiscBytes(files) \in Nat
    BY <2>2, BytesIsNat, DiscBytesFacts
  <2> QED BY <2>1, <2>2, <2>3 DEF SizeInv, StreamSized, QuotaSized, QuotaCoversDisc
<1>3. sz \in Nat /\ sz < MaxMem /\ amount' \in Nat
  <2>1. amount' \in Nat
    BY <1>1, <1>2
  <2>2. CASE fresh
    <3>1. sz = 0 + 2 + p.len
      BY <2>2
    <3> QED BY <1>2, <2>1, <3>1
  <2>3. CASE ~fresh
    <3>1. sz = szOut + 2 + p.len /\ ~(szOut + 2 + p.len >= MaxMem)
      BY <2>3
    <3> HIDE DEF sz
    <3> QED BY <1>2, <2>1, <3>1
  <2> QED BY <2>2, <2>3
<1>4. MemoryBounded'
  BY <1>1 DEF SizeInv, MemoryBounded
<1>5. mem # <<>> \/ files # <<>>
  <2> SUFFICES ASSUME mem = <<>>, files = <<>> PROVE FALSE
    OBVIOUS
  <2>1. szMem = 0
    BY BytesOfNone DEF SizeInv, MemoryBounded
  <2> QED BY <1>1, <1>2, <2>1
<1>6. Alert'
  <2>1. mem # <<>>
    BY <1>5 DEF SizeInv, Alert
  <2> QED BY <1>1, <2>1 DEF SizeInv, Alert
<1>7. CASE fresh \/ out = "listed"
  <2>1. PICK k \in 0..Len(buf) :
          /\ files' = Written(base, SubSeq(buf, 1, k))
          /\ buffered' = SubSeq(buf, k + 1, Len(buf))
          /\ out' = IF szOut' >= MaxMem THEN "closed" ELSE "listed"
    BY <1>7 DEF PushToFile
  <2>2. /\ base \in Seq(Seq(Payload)) /\ base # <<>>
        /\ \A f \in 1..Len(base) : Bytes(base[f]) < MaxMem
        /\ buf \in Seq(Payload)
        /\ FileBytes(base[Len(base)]) + FileBytes(buf) <= sz
        /\ DiscBytes(base) + FileBytes(buf) <= amount'
    <3>1. CASE fresh
      <4> DEFINE flushed == FlushedFiles
      <4>1. /\ flushed \in Seq(Seq(Payload))
            /\ \A f \in 1..Len(flushed) : Bytes(flushed[f]) < MaxMem
            /\ DiscBytes(flushed) = DiscBytes(files) + FileBytes(buffered)
        BY FlushSizes
      <4>2. base = Append(flushed, <<>>) /\ buf = <<p>> /\ sz = p.len + 2
        BY <1>2, <3>1
      <4> HIDE DEF flushed, base, buf, sz, fresh
      <4>3. /\ base \in Seq(Seq(Payload)) /\ Len(base) = Len(flushed) + 1
            /\ base[Len(base)] = <<>> /\ base # <<>>
            /\ \A f \in 1..Len(base) :
                 (f \in 1..Len(flushed) /\ base[f] = flushed[f]) \/ base[f] = <<>>
        <5>1. ASSUME NEW S, NEW q \in Seq(S), NEW x \in S
              PROVE  LET r == Append(q, x) IN
                     /\ r \in Seq(S) /\ Len(r) = Len(q) + 1 /\ r[Len(r)] = x
                     /\ Len(q) \in Nat
                     /\ \A f \in 1..Len(r) : (f \in 1..Len(q) /\ r[f] = q[f]) \/ r[f] = x
          OBVIOUS
        <5>2. <<>> \in Seq(Payload) /\ Len(<<>>) = 0
          OBVIOUS
        <5>3. base \in Seq(Seq(Payload)) /\ Len(base) = Len(flushed) + 1 /\ Len(flushed) \in Nat
              /\ base[Len(base)] = <<>>
              /\ \A f \in 1..Len(base) :
                   (f \in 1..Len(flushed) /\ base[f] = flushed[f]) \/ base[f] = <<>>
          BY <4>1, <4>2, <5>1, <5>2
        <5>4. base # <<>>
          <6>1. Len(base) # Len(<<>>)
            BY <5>2, <5>3
          <6> QED BY <6>1
        <5> QED BY <5>3, <5>4
      <4>4. \A f \in 1..Len(base) : Bytes(base[f]) < MaxMem
        <5>1. Bytes(<<>>) < MaxMem
          BY <1>2, BytesOfNone
        <5> QED BY <4>1, <4>3, <5>1
      <4>5. buf \in Seq(Payload) /\ FileBytes(buf) = p.len + 2
        BY <4>2, BytesOfOne
      <4>6. FileBytes(base[Len(base)]) = 0 /\ DiscBytes(base) = DiscBytes(flushed)
        BY <4>1, <4>2, <4>3, BytesOfNone, DiscBytesOfNew
      <4>7. DiscBytes(base) + FileBytes(buf) <= amount'
        BY <1>1, <1>2, <4>1, <4>5, <4>6
      <4>8. FileBytes(base[Len(base)]) + FileBytes(buf) <= sz
        BY <1>2, <4>2, <4>5, <4>6
      <4> QED BY <4>3, <4>4, <4>5, <4>7, <4>8
    <3>2. CASE ~fresh
      <4>1. base = files /\ buf = Append(buffered, p) /\ sz = szOut + 2 + p.len /\ out = "listed"
        BY <1>7, <3>2
      <4> HIDE DEF base, buf, sz, fresh
      <4>2. files # <<>>
        BY <4>1 DEF Inv, TypeOK
      <4>3. buf \in Seq(Payload) /\ FileBytes(buf) = FileBytes(buffered) + p.len + 2
        BY <1>2, <4>1, BytesOfAppend
      <4>4. FileBytes(files[Len(files)]) + FileBytes(buffered) <= szOut
        BY <4>1 DEF SizeInv, StreamSized
      <4>5. FileBytes(files[Len(files)]) \in Nat
        <5>1. ASSUME NEW S, NEW q \in Seq(S), q # <<>> PROVE q[Len(q)] \in S
          BY <5>1
        <5>2. files[Len(files)] \in Seq(Payload)
          BY <1>2, <4>2, <5>1
        <5> QED BY <5>2, BytesIsNat
      <4>6. FileBytes(base[Len(base)]) + FileBytes(buf) <= sz
        <5> DEFINE written == FileBytes(files[Len(files)])
                   waiting == FileBytes(buffered)
        <5>1. written + FileBytes(buf) <= szOut + 2 + p.len
          <6>1. written \in Nat /\ waiting \in Nat /\ szOut \in Nat /\ p.len \in Nat
            BY <1>2, <4>5
          <6>2. written + waiting <= szOut /\ FileBytes(buf) = waiting + p.len + 2
            BY <4>3, <4>4
          <6> HIDE DEF written, waiting
          <6> QED BY <6>1, <6>2
        <5> QED BY <4>1, <5>1, Zenon
      <4>7. DiscBytes(base) + FileBytes(buf) <= amount'
        BY <1>1, <1>2, <4>1, <4>3
      <4> QED BY <1>2, <4>1, <4>2, <4>3, <4>6, <4>7 DEF SizeInv, FilesBounded
    <3> QED BY <3>1, <3>2
  <2> HIDE DEF base, buf, sz, fresh
  <2>3. /\ \A f \in 1..Len(files') : Bytes(files'[f]) < MaxMem
        /\ FileBytes(files'[Len(files')]) + FileBytes(buffered') <= sz
        /\ DiscBytes(files') + FileBytes(buffered') = DiscBytes(base) + FileBytes(buf)
    BY <1>3, <2>1, <2>2, WriteSizes
  <2>4. FilesBounded'
    BY <2>3 DEF FilesBounded
  <2>5. StreamSized'
    BY <1>1, <1>3, <2>3 DEF StreamSized
  <2>6. QuotaSized'
    <3>1. /\ DiscBytes(base) \in Nat /\ FileBytes(buf) \in Nat
      BY <2>2, BytesIsNat, DiscBytesFacts
    <3> QED BY <1>3, <2>2, <2>3, <3>1 DEF QuotaSized, QuotaCoversDisc
  <2> QED BY <1>4, <1>6, <2>4, <2>5, <2>6 DEF SizeInv
<1>8. CASE ~(fresh \/ out = "listed")
  <2>1. UNCHANGED <<files, buffered>> /\ out' # "listed"
    BY <1>8 DEF PushToFile
  <2> HIDE DEF sz
  <2>2. FilesBounded' /\ StreamSized'
    BY <1>1, <1>3, <2>1 DEF SizeInv, FilesBounded, StreamSized
  <2>3. QuotaSized'
    BY <1>1, <1>2, <1>3, <2>1 DEF QuotaSized, QuotaCoversDisc
  <2> QED BY <1>4, <1>6, <2>2, <2>3 DEF SizeInv
<1> QED BY <1>7, <1>8

\* Once the queue is gone only the sizes of its files matter.
LEMMA GoneSizes ==
  ASSUME Gone, \A f \in 1..Len(files') : Bytes(files'[f]) < MaxMem
  PROVE  SizeInv'
<1>1. /\ mem' = <<>> /\ szMem' = 0 /\ out' = "closed" /\ szOut' = 0
      /\ amount' = 0 /\ running' = FALSE
  BY DEF Gone
<1>2. MemoryBounded'
  BY <1>1, BytesOfNone, SizesAssumption DEF MemoryBounded
<1> QED BY <1>1, <1>2
        DEF SizeInv, FilesBounded, StreamSized, QuotaSized, QuotaCoversDisc, Alert

\* The destructor keeps the sizes right.
LEMMA StopSizes == ASSUME Inv, SizeInv, Stop PROVE SizeInv'
<1> DEFINE flushed == FlushedFiles
<1>1. Gone /\ files' = IF mem = <<>> THEN flushed ELSE <<mem>> \o flushed
  BY DEF Stop, SavedFiles
<1>2. /\ flushed \in Seq(Seq(Payload))
      /\ \A f \in 1..Len(flushed) : Bytes(flushed[f]) < MaxMem
  BY FlushSizes
<1> HIDE DEF flushed
<1>3. mem \in Seq(Payload) /\ Bytes(mem) < MaxMem
  BY InvFacts DEF SizeInv, MemoryBounded
<1>4. \A f \in 1..Len(files') : Bytes(files'[f]) < MaxMem
  <2>1. CASE mem = <<>>
    BY <1>1, <1>2, <2>1
  <2>2. CASE mem # <<>>
    <3>1. ASSUME NEW S, NEW q \in Seq(S), NEW x \in S
          PROVE  \A f \in 1..Len(<<x>> \o q) :
                   (<<x>> \o q)[f] = x \/ \E g \in 1..Len(q) : (<<x>> \o q)[f] = q[g]
      <4> DEFINE r == <<x>> \o q
      <4>1. /\ Len(r) = 1 + Len(q) /\ Len(q) \in Nat /\ r[1] = x
            /\ \A f \in 2..Len(r) : r[f] = q[f - 1] /\ f - 1 \in 1..Len(q)
        OBVIOUS
      <4> HIDE DEF r
      <4>2. \A f \in 1..Len(r) : f = 1 \/ f \in 2..Len(r)
        BY <4>1
      <4>3. \A f \in 1..Len(r) : r[f] = x \/ \E g \in 1..Len(q) : r[f] = q[g]
        BY <4>1, <4>2
      <4> QED BY <4>3 DEF r
    <3>2. \A f \in 1..Len(<<mem>> \o flushed) :
            (<<mem>> \o flushed)[f] = mem
              \/ \E g \in 1..Len(flushed) : (<<mem>> \o flushed)[f] = flushed[g]
      BY <1>2, <1>3, <3>1
    <3>3. files' = <<mem>> \o flushed
      BY <1>1, <2>2
    <3> QED BY <1>2, <1>3, <3>2, <3>3
  <2> QED BY <2>1, <2>2
<1> QED BY <1>1, <1>4, GoneSizes

\* The constructor keeps them right, and measures the files it finds.
LEMMA StartSizes == ASSUME Inv, SizeInv, Start PROVE SizeInv'
<1> DEFINE h == HeadFile(files)
           rest == SubSeq(files, h + 1, Len(files))
<1>1. /\ mem' = Loaded(files) /\ files' = rest
      /\ amount' = DiscBytes(files') /\ szMem' = Bytes(mem')
      /\ running' = TRUE /\ disappointed' = TRUE /\ event' = (mem' # <<>>)
      /\ UNCHANGED <<out, buffered, szOut>>
  BY DEF Start, outVars
<1>2. out = "closed" /\ buffered = <<>> /\ szOut \in Nat
  BY DEF Start, Inv, TypeOK, SizeInv, StreamSized
<1>3. /\ files \in Seq(Seq(Payload)) /\ \A f \in 1..Len(files) : Bytes(files[f]) < MaxMem
  BY InvFacts DEF SizeInv, FilesBounded
<1>4. /\ Loaded(files) \in Seq(Payload) /\ Bytes(Loaded(files)) < MaxMem
      /\ \A f \in 1..Len(rest) : Bytes(rest[f]) < MaxMem
      /\ Loaded(files) = <<>> => rest = <<>>
      /\ DiscBytes(rest) \in Nat
  BY <1>3, LoadSizes
<1> HIDE DEF h, rest
<1>5. MemoryBounded' /\ FilesBounded'
  BY <1>1, <1>4 DEF MemoryBounded, FilesBounded
<1>6. StreamSized' /\ Alert'
  BY <1>1, <1>2, <1>4 DEF StreamSized, Alert
<1>7. QuotaSized'
  <2>1. FileBytes(buffered') = 0
    BY <1>1, <1>2, BytesOfNone
  <2> QED BY <1>1, <1>4, <2>1 DEF QuotaSized, QuotaCoversDisc
<1> QED BY <1>5, <1>6, <1>7 DEF SizeInv

\* A head payload that is consumed leaves the memory, and the channel is
\* told of the next (consume(), poke()).
LEMMA TransmitSizes == ASSUME Inv, SizeInv, Transmit PROVE SizeInv'
<1>1. running /\ running' /\ UNCHANGED running
  BY DEF Transmit, Inv, TypeOK
<1>2. mem \in Seq(Payload) /\ szMem = Bytes(mem) /\ szMem < MaxMem /\ MaxMem \in Nat
  BY InvFacts, SizesAssumption DEF SizeInv, MemoryBounded
<1>3. CASE mem = <<>>
  <2>1. Peek(mem, szMem)
    BY <1>3 DEF Transmit
  <2>2. /\ MemoryBounded' /\ FilesBounded' /\ StreamSized' /\ QuotaSized'
        /\ mem' = <<>> => files' = <<>> /\ disappointed'
    BY <1>1, <1>2, <2>1, PeekSizes
  <2>3. mem' = <<>>
    <3>1. files = <<>>
      BY <1>1, <1>3 DEF SizeInv, Alert
    <3>2. mem' = Loaded(files)
      BY <1>3, <2>1 DEF Peek, LoadHeadFile
    <3>3. HeadFile(<<>>) \in 0..Len(<<>>) /\ Len(<<>>) = 0
      <4>1. <<>> \in Seq(Seq(Payload)) /\ Len(<<>>) = 0
        BY NothingInOrder
      <4> QED BY <4>1, HeadFileFacts
    <3> QED BY <3>1, <3>2, <3>3 DEF Loaded
  <2> QED BY <2>2, <2>3 DEF SizeInv, Alert
<1>4. CASE mem # <<>>
  <2> DEFINE rest == Tail(mem)
             sz == szMem - Head(mem).len
  <2>1. Poke(rest, sz)
    BY <1>4 DEF Transmit
  <2>2. rest \in Seq(Payload) /\ Head(mem) \in Payload /\ Bytes(rest) = Bytes(mem) - Head(mem).len
    BY <1>2, <1>4, BytesOfTail
  <2>3. sz = Bytes(rest) /\ sz < MaxMem
    <3>1. Head(mem).len \in Nat /\ Bytes(mem) \in Nat
      BY <1>2, <2>2, LenIsNat, BytesIsNat
    <3> QED BY <1>2, <2>2, <3>1
  <2> HIDE DEF rest, sz
  <2>4. Peek(rest, sz) /\ event' = (event \/ mem' # <<>>)
    BY <2>1 DEF Poke
  <2>5. /\ MemoryBounded' /\ FilesBounded' /\ StreamSized' /\ QuotaSized'
        /\ mem' = <<>> => files' = <<>> /\ disappointed'
    BY <1>1, <2>2, <2>3, <2>4, PeekSizes
  <2> QED BY <2>4, <2>5 DEF SizeInv, Alert
<1> QED BY <1>3, <1>4

\* Every step keeps them right.
LEMMA StepSizes == Inv /\ SizeInv /\ [Next]_vars => SizeInv'
<1> SUFFICES ASSUME Inv, SizeInv, [Next]_vars PROVE SizeInv'
  OBVIOUS
<1>1. CASE Push
  <2>1. PICK len \in Lengths :
          \/ PushToMemory([id |-> pushes + 1, len |-> len])
          \/ PushToFile([id |-> pushes + 1, len |-> len])
    BY <1>1 DEF Push
  <2>2. pushes + 1 \in 1..MaxPushes
    BY <1>1, InvFacts, BoundsAssumption DEF Push
  <2>3. [id |-> pushes + 1, len |-> len] \in Payload
    BY <2>2 DEF Payload
  <2>4. running /\ UNCHANGED <<streaming, running>>
    BY <1>1 DEF Push
  <2> QED BY <2>1, <2>3, <2>4, PushToMemorySizes, PushToFileSizes
<1>2. CASE QueueReady
  <2>1. UNCHANGED <<mem, szMem, files, out, buffered, szOut, disappointed, amount, running>>
        /\ streaming' = TRUE
    BY <1>2 DEF QueueReady, memVars, outVars
  <2> QED BY <2>1 DEF SizeInv, MemoryBounded, FilesBounded, StreamSized, QuotaSized,
                      QuotaCoversDisc, Alert
<1>3. CASE Transmit
  BY <1>3, TransmitSizes
<1>4. CASE Stop
  BY <1>4, StopSizes
<1>5. CASE Crash
  BY <1>5, GoneSizes DEF Crash, SizeInv, FilesBounded
<1>6. CASE Start
  BY <1>6, StartSizes
<1>7. CASE UNCHANGED vars
  BY <1>7 DEF vars, SizeInv, MemoryBounded, FilesBounded, StreamSized, QuotaSized,
              QuotaCoversDisc, Alert
<1> QED BY <1>1, <1>2, <1>3, <1>4, <1>5, <1>6, <1>7 DEF Next

\* An empty queue has its sizes right.
LEMMA InitSizes == Init => SizeInv
<1> SUFFICES ASSUME Init PROVE SizeInv
  OBVIOUS
<1>1. /\ mem = <<>> /\ szMem = 0 /\ files = <<>> /\ out = "closed" /\ szOut = 0
      /\ amount = 0 /\ running = FALSE
  BY DEF Init
<1>2. MemoryBounded
  BY <1>1, BytesOfNone, SizesAssumption DEF MemoryBounded
<1>3. FilesBounded
  <2>1. Len(<<>>) = 0
    OBVIOUS
  <2> QED BY <1>1, <2>1 DEF FilesBounded
<1> QED BY <1>1, <1>2, <1>3 DEF SizeInv, StreamSized, QuotaSized, QuotaCoversDisc, Alert

----------------------------------------------------------------------------
(* The theorems.                                                           *)

\* Both invariants hold together.
LEMMA SizesCorrect == Spec => [](Inv /\ SizeInv)
<1>1. Init => Inv /\ SizeInv
  BY InitInv, InitSizes
<1>2. Inv /\ SizeInv /\ [Next]_vars => Inv' /\ SizeInv'
  BY StepInv, StepSizes
<1> QED BY <1>1, <1>2, PTL DEF Spec

\* sz_mem is the size of what is in memory and under max_mem, even when
\* memory was filled from a file (push(), load_head_file(), consume()).
THEOREM MemoryCorrect == Spec => []MemoryBounded
<1>1. SizeInv => MemoryBounded
  BY DEF SizeInv
<1> QED BY <1>1, SizesCorrect, PTL

\* The quota takes the queue's disc usage for no less than it is, buffered
\* records included (push(), load_head_file(), PayloadQueue()).
THEOREM QuotaCorrect == Spec => []QuotaCoversDisc
<1>1. SizeInv => QuotaCoversDisc
  BY DEF SizeInv, QuotaSized
<1> QED BY <1>1, SizesCorrect, PTL

\* A running queue that could yield something has told its channel, which is
\* about to ask or is among the streamers (push(), poke(), queue_ready()).
THEOREM WakeCorrect == Spec => []NotStranded
<1>1. Inv /\ SizeInv => NotStranded
  <2> SUFFICES ASSUME Inv, SizeInv, running, KeptIds # {}
               PROVE  mem # <<>> /\ (event \/ streaming)
    BY DEF NotStranded
  <2>1. mem # <<>>
    <3> SUFFICES ASSUME mem = <<>> PROVE FALSE
      OBVIOUS
    <3>1. files = <<>>
      BY DEF SizeInv, Alert
    <3> QED BY <3>1, NothingInOrder DEF KeptIds, DiscIds
  <2> QED BY <2>1 DEF SizeInv, Alert
<1> QED BY <1>1, SizesCorrect, PTL

\* What has reached the disc stays there or goes to memory, and what is in
\* memory stays there until it is consumed or the process ends.
THEOREM DiscCorrect == Spec => DiscSurvives
<1> DEFINE Survives == /\ DiscIds \subseteq KeptIds'
                       /\ running' => Ids(mem) \subseteq Ids(mem') \cup {taken'}
<1>1. Inv /\ [Next]_vars => [Survives]_vars
  <2> SUFFICES ASSUME Inv, Next PROVE Survives
    OBVIOUS
  <2>1. CASE Push
    <3>1. KeptIds \subseteq KeptIds'
      BY <2>1, PushKeeps DEF Fifo!Put
    <3>2. mem' = mem \/ \E p \in Payload : mem' = Append(mem, p)
      <4>1. PICK len \in Lengths :
              \/ PushToMemory([id |-> pushes + 1, len |-> len])
              \/ PushToFile([id |-> pushes + 1, len |-> len])
        BY <2>1 DEF Push
      <4>2. pushes + 1 \in 1..MaxPushes
        BY <2>1, InvFacts, BoundsAssumption DEF Push
      <4>3. [id |-> pushes + 1, len |-> len] \in Payload
        BY <4>2 DEF Payload
      <4> QED BY <4>1, <4>3 DEF PushToMemory, PushToFile, memVars
    <3>3. Ids(mem) \subseteq Ids(mem')
      BY <3>2, InvFacts, IdsOfAppend
    <3> QED BY <3>1, <3>3 DEF KeptIds
  <2>2. CASE QueueReady
    BY <2>2 DEF QueueReady, memVars, KeptIds, DiscIds
  <2>3. CASE Transmit
    <3>1. CASE mem = <<>>
      <4>1. Peek(mem, szMem)
        BY <2>3, <3>1 DEF Transmit
      <4>2. Ids(mem') \cup FileIds(files') = Ids(mem) \cup FileIds(files)
        BY <4>1, InvFacts, PeekKeeps
      <4> QED BY <3>1, <4>2, NothingInOrder DEF KeptIds, DiscIds
    <3>2. CASE mem # <<>>
      <4> DEFINE rest == Tail(mem)
      <4>1. taken' = Head(mem).id /\ Peek(rest, szMem - Head(mem).len)
        BY <2>3, <3>2 DEF Transmit, Poke
      <4>2. rest \in Seq(Payload) /\ Ids(rest) = Ids(mem) \ {Head(mem).id}
        BY <3>2, InvFacts, IdsOfTail DEF InOrder
      <4>3. InOrder(rest, files, buffered)
        BY <3>2, InvFacts, LessKeepsOrder
      <4> HIDE DEF rest
      <4>4. Ids(mem') \cup FileIds(files') = Ids(rest) \cup FileIds(files)
        BY <4>1, <4>2, <4>3, PeekKeeps
      <4>5. rest # <<>> => mem' = rest
        BY <4>1 DEF Peek
      <4>6. rest = <<>> => Ids(rest) = {}
        BY NothingInOrder
      <4>7. Ids(rest) \subseteq Ids(mem')
        BY <4>5, <4>6
      <4> QED BY <4>1, <4>2, <4>4, <4>7 DEF KeptIds, DiscIds
    <3> QED BY <3>1, <3>2
  <2>4. CASE Stop
    BY <2>4, StopKeeps DEF Stop, Gone, KeptIds, StoredIds
  <2>5. CASE Crash
    BY <2>5 DEF Crash, Gone, KeptIds, DiscIds
  <2>6. CASE Start
    <3>1. KeptIds' = KeptIds /\ mem = <<>>
      BY <2>6, StartKeeps DEF Abstract, Start, Inv, TypeOK
    <3> QED BY <3>1, NothingInOrder DEF KeptIds
  <2> QED BY <2>1, <2>2, <2>3, <2>4, <2>5, <2>6 DEF Next
<1> QED BY <1>1, SizesCorrect, PTL DEF Spec, DiscSurvives
=============================================================================
