------------------------- MODULE PayloadQueueProofs -------------------------
(* Proofs about PayloadQueue, for all sizes and numbers of payloads.       *)
EXTENDS PayloadQueue, LeastNumber, TLAPS

USE BoundsAssumption

\* The number of a payload is its push, one of those allowed.
LEMMA IdIsNat == ASSUME NEW p \in Payload PROVE p.id \in 1..MaxPushes /\ p.id \in Nat
BY DEF Payload

----------------------------------------------------------------------------
(* Sequences of payloads: their numbers, and their order.                  *)

\* Two sequences in order, one after the other, are in order together.
LEMMA IdsOfConcat ==
  ASSUME NEW s \in Seq(Payload), NEW t \in Seq(Payload)
  PROVE  /\ s \o t \in Seq(Payload)
         /\ Ids(s \o t) = Ids(s) \cup Ids(t)
         /\ Increasing(s) /\ Increasing(t) /\ Before(s, t) => Increasing(s \o t)
<1>1. s \o t \in Seq(Payload) /\ Len(s \o t) = Len(s) + Len(t)
  OBVIOUS
<1>2. \A i \in 1..Len(s) : (s \o t)[i] = s[i]
  OBVIOUS
<1>3. \A i \in 1..Len(t) : (s \o t)[i + Len(s)] = t[i]
  OBVIOUS
<1>4. Ids(s \o t) = Ids(s) \cup Ids(t)
  BY <1>1, <1>2, <1>3 DEF Ids
<1>5. ASSUME Increasing(s), Increasing(t), Before(s, t)
      PROVE  Increasing(s \o t)
  <2> SUFFICES ASSUME NEW i \in 1..Len(s \o t), NEW j \in 1..Len(s \o t), i < j
               PROVE  (s \o t)[i].id < (s \o t)[j].id
    BY DEF Increasing
  <2>1. CASE j <= Len(s)
    BY <1>1, <1>2, <1>5, <2>1 DEF Increasing
  <2>2. CASE i <= Len(s) /\ j > Len(s)
    BY <1>1, <1>5, <2>2 DEF Before
  <2>3. CASE i > Len(s)
    BY <1>1, <1>5, <2>3 DEF Increasing
  <2> QED BY <1>1, <2>1, <2>2, <2>3
<1> QED BY <1>1, <1>4, <1>5

\* A payload newer than all may be put behind them.
LEMMA IdsOfAppend ==
  ASSUME NEW s \in Seq(Payload), NEW p \in Payload
  PROVE  /\ Append(s, p) \in Seq(Payload)
         /\ Ids(Append(s, p)) = Ids(s) \cup {p.id}
         /\ Increasing(s) /\ (\A id \in Ids(s) : id < p.id)
              => Increasing(Append(s, p))
BY DEF Ids, Increasing

\* A sequence cut in two has the same numbers, in the same order.
LEMMA Pieces ==
  ASSUME NEW s \in Seq(Payload), NEW k \in 0..Len(s)
  PROVE  /\ SubSeq(s, 1, k) \in Seq(Payload)
         /\ SubSeq(s, k + 1, Len(s)) \in Seq(Payload)
         /\ Ids(s) = Ids(SubSeq(s, 1, k)) \cup Ids(SubSeq(s, k + 1, Len(s)))
         /\ Increasing(s) => /\ Increasing(SubSeq(s, 1, k))
                             /\ Increasing(SubSeq(s, k + 1, Len(s)))
                             /\ Before(SubSeq(s, 1, k), SubSeq(s, k + 1, Len(s)))
<1> DEFINE a == SubSeq(s, 1, k)
           b == SubSeq(s, k + 1, Len(s))
<1>1. a \in Seq(Payload) /\ Len(a) = k /\ \A i \in 1..k : a[i] = s[i]
  OBVIOUS
<1>2. /\ b \in Seq(Payload) /\ Len(b) = Len(s) - k
      /\ \A i \in 1..(Len(s) - k) : b[i] = s[k + i]
  OBVIOUS
<1>3. \A i \in (k + 1)..Len(s) : i - k \in 1..Len(b) /\ s[i] = b[i - k]
  BY <1>2
<1>7. \A i \in 1..Len(a) : i \in 1..Len(s) /\ i <= k /\ a[i] = s[i]
  BY <1>1
<1>8. \A i \in 1..Len(b) : k + i \in 1..Len(s) /\ b[i] = s[k + i]
  BY <1>2
<1> HIDE DEF a, b
<1>4. Ids(a) \cup Ids(b) \subseteq Ids(s)
  BY <1>7, <1>8 DEF Ids
<1>5. Ids(s) \subseteq Ids(a) \cup Ids(b)
  <2>1. ASSUME NEW i \in 1..Len(s) PROVE s[i].id \in Ids(a) \cup Ids(b)
    BY <1>1, <1>3 DEF Ids
  <2> QED BY <2>1 DEF Ids
<1>6. ASSUME Increasing(s) PROVE Increasing(a) /\ Increasing(b) /\ Before(a, b)
  <2>1. Increasing(a)
    BY <1>6, <1>7 DEF Increasing
  <2>2. Increasing(b)
    <3>1. \A i, j \in 1..Len(b) : i < j => k + i < k + j
      BY <1>2
    <3> QED BY <1>6, <1>8, <3>1 DEF Increasing
  <2>3. Before(a, b)
    <3>1. \A i \in 1..Len(a), j \in 1..Len(b) : i < k + j
      BY <1>1, <1>2
    <3> QED BY <1>6, <1>7, <1>8, <3>1 DEF Increasing, Before
  <2> QED BY <2>1, <2>2, <2>3
<1> QED BY <1>1, <1>2, <1>4, <1>5, <1>6 DEF a, b

\* The order between two sequences is an order between their sets of numbers.
LEMMA BeforeByIds ==
  ASSUME NEW s \in Seq(Payload), NEW t \in Seq(Payload)
  PROVE  Before(s, t) <=> \A i \in Ids(s), j \in Ids(t) : i < j
BY DEF Before, Ids

\* What is before, or after, two sequences is so for both together.
LEMMA BeforeConcat ==
  ASSUME NEW s \in Seq(Payload), NEW t \in Seq(Payload), NEW u \in Seq(Payload)
  PROVE  /\ Before(s, u) /\ Before(t, u) => Before(s \o t, u)
         /\ Before(u, s) /\ Before(u, t) => Before(u, s \o t)
<1>1. s \o t \in Seq(Payload) /\ Ids(s \o t) = Ids(s) \cup Ids(t)
  BY IdsOfConcat
<1> DEFINE st == s \o t
<1>2. st \in Seq(Payload) /\ Ids(st) = Ids(s) \cup Ids(t)
  BY <1>1
<1> HIDE DEF st
<1>3. Before(s, u) /\ Before(t, u) => Before(st, u)
  BY <1>2, BeforeByIds
<1>4. Before(u, s) /\ Before(u, t) => Before(u, st)
  BY <1>2, BeforeByIds
<1> QED BY <1>3, <1>4 DEF st

\* When the first is taken, its number alone goes.
LEMMA IdsOfTail ==
  ASSUME NEW s \in Seq(Payload), s # <<>>, Increasing(s)
  PROVE  /\ Tail(s) \in Seq(Payload)
         /\ Head(s) \in Payload
         /\ Increasing(Tail(s))
         /\ Ids(Tail(s)) = Ids(s) \ {Head(s).id}
         /\ Head(s).id \in Ids(s)
         /\ \A id \in Ids(s) : Head(s).id <= id
<1>1. Len(s) \in Nat /\ Len(s) > 0 /\ Head(s) = s[1] /\ Head(s) \in Payload
  OBVIOUS
<1>2. /\ Tail(s) \in Seq(Payload) /\ Len(Tail(s)) = Len(s) - 1
      /\ \A i \in 1..(Len(s) - 1) : Tail(s)[i] = s[i + 1]
  OBVIOUS
<1>3. \A i \in 1..Len(s) : s[i].id \in Nat
  BY IdIsNat
<1>4. \A i \in 2..Len(s) : Head(s).id < s[i].id
  BY <1>1 DEF Increasing
<1>5. Increasing(Tail(s))
  BY <1>1, <1>2 DEF Increasing
<1>6. Ids(s) \ {Head(s).id} = {s[i].id : i \in 2..Len(s)}
  BY <1>1, <1>3, <1>4 DEF Ids
<1>7. Ids(Tail(s)) = {s[i].id : i \in 2..Len(s)}
  <2>1. \A i \in 2..Len(s) : i - 1 \in 1..(Len(s) - 1) /\ s[i] = Tail(s)[i - 1]
    BY <1>1, <1>2
  <2> QED BY <1>1, <1>2, <2>1 DEF Ids
<1>8. Head(s).id \in Ids(s) /\ \A id \in Ids(s) : Head(s).id <= id
  BY <1>1, <1>3, <1>4 DEF Ids
<1> QED BY <1>1, <1>2, <1>5, <1>6, <1>7, <1>8

----------------------------------------------------------------------------
(* load_head_file(): the file it ends with, and what becomes of the order. *)

\* load_head_file() passes over empty files and loads the first that is not, or
\* nothing when it has come to the last.
LEMMA HeadFileFacts ==
  ASSUME NEW S, NEW fs \in Seq(Seq(S))
  PROVE  /\ HeadFile(fs) \in 0..Len(fs)
         /\ \A i \in 1..(HeadFile(fs) - 1) : fs[i] = <<>>
         /\ Loaded(fs) \in Seq(S)
         /\ Loaded(fs) = <<>> => HeadFile(fs) = Len(fs)
<1> DEFINE full == {i \in 1..Len(fs) : fs[i] # <<>>}
<1>1. CASE full = {}
  <2>1. HeadFile(fs) = Len(fs)
    BY <1>1 DEF HeadFile
  <2>2. \A i \in 1..Len(fs) : fs[i] = <<>>
    BY <1>1
  <2> QED BY <2>1, <2>2 DEF Loaded
<1>2. CASE full # {}
  <2>1. full \in SUBSET Nat
    OBVIOUS
  <2>2. \E m \in full : \A k \in full : m <= k
    <3> HIDE DEF full
    <3> QED BY <1>2, <2>1, LeastNatural
  <2>3. HeadFile(fs) \in full /\ \A k \in full : HeadFile(fs) <= k
    BY <1>2, <2>2 DEF HeadFile
  <2>4. HeadFile(fs) \in 1..Len(fs) /\ fs[HeadFile(fs)] # <<>>
    BY <2>3
  <2>5. \A i \in 1..(HeadFile(fs) - 1) : fs[i] = <<>>
    BY <2>3, <2>4
  <2> QED BY <2>4, <2>5 DEF Loaded
<1> QED BY <1>1, <1>2

\* Membership file by file.
LEMMA FileIdsWithin ==
  ASSUME NEW fs, NEW T, \A i \in 1..Len(fs) : Ids(fs[i]) \subseteq T
  PROVE  FileIds(fs) \subseteq T
BY Zenon DEF FileIds

\* What is in one file is in the files.
LEMMA IdsInFile ==
  ASSUME NEW fs, NEW i \in 1..Len(fs)
  PROVE  Ids(fs[i]) \subseteq FileIds(fs)
BY Zenon DEF FileIds

\* What is not loaded stays listed, in the same order, after what is.
LEMMA LoadKeepsOrder ==
  ASSUME NEW fs \in Seq(Seq(Payload)), NEW b \in Seq(Payload)
  PROVE  LET rest == SubSeq(fs, HeadFile(fs) + 1, Len(fs)) IN
         /\ rest \in Seq(Seq(Payload))
         /\ FileIds(fs) = Ids(Loaded(fs)) \cup FileIds(rest)
         /\ InOrder(<<>>, fs, b) => InOrder(Loaded(fs), rest, b)
<1> DEFINE h == HeadFile(fs)
           rest == SubSeq(fs, h + 1, Len(fs))
<1>1. /\ h \in 0..Len(fs) /\ Loaded(fs) \in Seq(Payload)
      /\ \A i \in 1..(h - 1) : fs[i] = <<>>
  BY HeadFileFacts
<1>2. IF h = 0 THEN Loaded(fs) = <<>> ELSE Loaded(fs) = fs[h]
  BY DEF Loaded
<1> HIDE DEF h
<1>3. /\ rest \in Seq(Seq(Payload)) /\ Len(rest) = Len(fs) - h
      /\ \A i \in 1..(Len(fs) - h) : rest[i] = fs[h + i]
  <2>1. ASSUME NEW S, NEW q \in Seq(S), NEW n \in 0..Len(q)
        PROVE  LET r == SubSeq(q, n + 1, Len(q)) IN
               /\ r \in Seq(S) /\ Len(r) = Len(q) - n
               /\ \A i \in 1..(Len(q) - n) : r[i] = q[n + i]
    OBVIOUS
  <2> QED BY <1>1, <2>1
<1>4. \A i \in (h + 1)..Len(fs) : i - h \in 1..Len(rest) /\ fs[i] = rest[i - h]
  BY <1>1, <1>3
<1> HIDE DEF rest
<1>5. Ids(<<>>) = {}
  BY DEF Ids
<1>6. FileIds(fs) \subseteq Ids(Loaded(fs)) \cup FileIds(rest)
  <2>1. ASSUME NEW i \in 1..Len(fs)
        PROVE  Ids(fs[i]) \subseteq Ids(Loaded(fs)) \cup FileIds(rest)
    <3>1. CASE i < h
      BY <1>1, <1>5, <3>1
    <3>2. CASE i = h
      BY <1>1, <1>2, <3>2
    <3>3. CASE i > h
      <4>1. i - h \in 1..Len(rest) /\ fs[i] = rest[i - h]
        BY <1>1, <1>4, <3>3
      <4> QED BY <4>1, IdsInFile
    <3> QED BY <1>1, <3>1, <3>2, <3>3
  <2> QED BY <2>1 DEF FileIds
<1>7. Ids(Loaded(fs)) \cup FileIds(rest) \subseteq FileIds(fs)
  <2>1. Ids(Loaded(fs)) \subseteq FileIds(fs)
    <3>1. CASE h = 0
      BY <1>2, <1>5, <3>1
    <3>2. CASE h # 0
      <4>1. h \in 1..Len(fs) /\ Loaded(fs) = fs[h]
        BY <1>1, <1>2, <3>2
      <4> QED BY <4>1, IdsInFile
    <3> QED BY <3>1, <3>2
  <2>2. \A i \in 1..Len(rest) : h + i \in 1..Len(fs) /\ rest[i] = fs[h + i]
    BY <1>1, <1>3
  <2> QED BY <2>1, <2>2 DEF FileIds
<1>8. ASSUME InOrder(<<>>, fs, b) PROVE InOrder(Loaded(fs), rest, b)
  <2>1. \A s \in Seq(Payload) : Increasing(<<>>) /\ Before(<<>>, s)
    BY DEF Increasing, Before
  <2>2. \A i \in 1..Len(rest) : h + i \in 1..Len(fs) /\ rest[i] = fs[h + i]
    BY <1>1, <1>3
  <2>3. rest \in Seq(Seq(Payload)) /\ \A i \in 1..Len(rest) : rest[i] \in Seq(Payload)
    BY <1>3
  <2>4. CASE h = 0
    BY <1>2, <1>8, <2>1, <2>2, <2>3, <2>4 DEF InOrder
  <2>5. CASE h # 0
    <3>1. h \in 1..Len(fs) /\ Loaded(fs) = fs[h]
      BY <1>1, <1>2, <2>5
    <3>2. \A i \in 1..Len(rest) : h < h + i
      BY <1>1, <1>3
    <3>3. \A i, j \in 1..Len(rest) : i < j => h + i < h + j
      BY <1>1, <1>3
    <3> QED BY <1>8, <2>2, <3>1, <3>2, <3>3 DEF InOrder
  <2> QED BY <2>4, <2>5
<1> QED BY <1>3, <1>6, <1>7, <1>8 DEF rest, h

----------------------------------------------------------------------------
(* What the other operations do to the files, and to the order.            *)

\* Nothing is in order with anything.
LEMMA NothingInOrder ==
  /\ Ids(<<>>) = {} /\ FileIds(<<>>) = {}
  /\ Increasing(<<>>)
  /\ \A s \in Seq(Payload) : Before(<<>>, s) /\ Before(s, <<>>)
  /\ <<>> \in Seq(Payload) /\ <<>> \in Seq(Seq(Payload))
BY DEF Ids, FileIds, Increasing, Before

\* A part of the buffer is written to the last file.
LEMMA WriteKeepsOrder ==
  ASSUME NEW m \in Seq(Payload), NEW fs \in Seq(Seq(Payload)), fs # <<>>,
         NEW buf \in Seq(Payload), NEW k \in 0..Len(buf)
  PROVE  LET done == SubSeq(buf, 1, k)
             todo == SubSeq(buf, k + 1, Len(buf))
             to   == Written(fs, done) IN
         /\ to \in Seq(Seq(Payload)) /\ Len(to) = Len(fs)
         /\ FileIds(to) = FileIds(fs) \cup Ids(done)
         /\ InOrder(m, fs, buf) => InOrder(m, to, todo)
<1> DEFINE done == SubSeq(buf, 1, k)
           todo == SubSeq(buf, k + 1, Len(buf))
           n    == Len(fs)
           to   == Written(fs, done)
<1>1. /\ done \in Seq(Payload) /\ todo \in Seq(Payload)
      /\ Ids(buf) = Ids(done) \cup Ids(todo)
      /\ Increasing(buf) => Increasing(done) /\ Increasing(todo) /\ Before(done, todo)
  BY Pieces
<1> HIDE DEF done, todo
<1>2. n \in 1..Len(fs) /\ fs[n] \in Seq(Payload) /\ \A i \in 1..n : fs[i] \in Seq(Payload)
  OBVIOUS
<1>3. fs[n] \o done \in Seq(Payload) /\ Ids(fs[n] \o done) = Ids(fs[n]) \cup Ids(done)
  BY <1>1, <1>2, IdsOfConcat
<1>4. /\ to \in Seq(Seq(Payload)) /\ Len(to) = n /\ to[n] = fs[n] \o done
      /\ \A i \in 1..n : i # n => to[i] = fs[i]
  <2>1. ASSUME NEW S, NEW q \in Seq(S), NEW e \in S, NEW j \in 1..Len(q)
        PROVE  LET r == [q EXCEPT ![j] = e] IN
               /\ r \in Seq(S) /\ Len(r) = Len(q)
               /\ \A i \in 1..Len(q) : r[i] = IF i = j THEN e ELSE q[i]
    OBVIOUS
  <2> QED BY <1>2, <1>3, <2>1 DEF Written
<1> HIDE DEF n, to
<1>5. FileIds(to) = FileIds(fs) \cup Ids(done)
  <2>1. FileIds(to) \subseteq FileIds(fs) \cup Ids(done)
    <3>1. ASSUME NEW i \in 1..Len(to)
          PROVE  Ids(to[i]) \subseteq FileIds(fs) \cup Ids(done)
      <4>1. i \in 1..Len(fs) /\ Ids(to[i]) \subseteq Ids(fs[i]) \cup Ids(done)
        BY <1>3, <1>4 DEF n
      <4> QED BY <4>1, IdsInFile
    <3> QED BY <3>1 DEF FileIds
  <2>2. ASSUME NEW i \in 1..Len(fs) PROVE Ids(fs[i]) \subseteq FileIds(to)
    <3>1. i \in 1..Len(to) /\ Ids(fs[i]) \subseteq Ids(to[i])
      BY <1>3, <1>4 DEF n
    <3> QED BY <3>1, IdsInFile
  <2>3. Ids(done) \subseteq FileIds(to)
    <3>1. n \in 1..Len(to) /\ Ids(done) \subseteq Ids(to[n])
      BY <1>2, <1>3, <1>4 DEF n
    <3> QED BY <3>1, IdsInFile
  <2>4. FileIds(fs) \subseteq FileIds(to)
    BY <2>2 DEF FileIds
  <2> QED BY <2>1, <2>3, <2>4
<1>6. ASSUME InOrder(m, fs, buf) PROVE InOrder(m, to, todo)
  <2>1. \A i \in 1..n : /\ fs[i] \in Seq(Payload) /\ Increasing(fs[i])
                        /\ Before(m, fs[i]) /\ Before(fs[i], buf)
                        /\ \A j \in 1..n : i < j => Before(fs[i], fs[j])
    BY <1>2, <1>6 DEF InOrder, n
  <2>2. Before(m, buf) /\ Increasing(m) /\ Increasing(buf)
    BY <1>6 DEF InOrder
  <2>3. Before(m, done) /\ Before(m, todo)
    BY <1>1, <2>2, BeforeByIds
  <2>4. \A i \in 1..n : Before(fs[i], done) /\ Before(fs[i], todo)
    BY <1>1, <2>1, BeforeByIds
  <2>5. /\ Increasing(fs[n] \o done) /\ Before(m, fs[n] \o done)
        /\ Before(fs[n] \o done, todo)
        /\ \A i \in 1..n : i < n => Before(fs[i], fs[n] \o done)
    <3>1. Increasing(fs[n] \o done)
      BY <1>1, <1>2, <2>1, <2>2, <2>4, IdsOfConcat
    <3>2. Before(m, fs[n] \o done) /\ Before(fs[n] \o done, todo)
      BY <1>1, <1>2, <2>1, <2>2, <2>3, <2>4, BeforeConcat
    <3>3. \A i \in 1..n : i < n => Before(fs[i], fs[n] \o done)
      BY <1>1, <1>2, <2>1, <2>4, BeforeConcat
    <3> QED BY <3>1, <3>2, <3>3
  <2>6. \A i \in 1..n : /\ Increasing(to[i]) /\ Before(m, to[i])
                        /\ Before(to[i], todo)
                        /\ \A j \in 1..n : i < j => Before(to[i], to[j])
    <3>1. \A i \in 1..n : i # n => i < n
      BY <1>2 DEF n
    <3> DEFINE last == fs[n] \o done
    <3>2. /\ to[n] = last /\ Increasing(last) /\ Before(m, last)
          /\ Before(last, todo) /\ \A i \in 1..n : i < n => Before(fs[i], last)
      BY <1>4, <2>5
    <3> HIDE DEF last
    <3>3. \A i \in 1..n : ~ (n < i)
      BY <1>2 DEF n
    <3> QED BY <1>4, <2>1, <2>4, <3>1, <3>2, <3>3
  <2> QED BY <1>1, <1>4, <2>2, <2>3, <2>6 DEF InOrder
<1> QED BY <1>4, <1>5, <1>6 DEF to, n, done, todo

\* The stream is closed: all of the buffer is written.
LEMMA FlushKeepsOrder ==
  ASSUME TypeOK
  PROVE  /\ FlushedFiles \in Seq(Seq(Payload))
         /\ FileIds(FlushedFiles) = DiscIds \cup Ids(buffered)
         /\ InOrder(mem, files, buffered) => InOrder(mem, FlushedFiles, <<>>)
<1>1. CASE out = "listed"
  <2>1. /\ mem \in Seq(Payload) /\ files \in Seq(Seq(Payload)) /\ files # <<>>
        /\ buffered \in Seq(Payload)
    BY <1>1 DEF TypeOK
  <2>2. PICK n \in 0..Len(buffered) : n = Len(buffered)
    BY <2>1
  <2>3. SubSeq(buffered, 1, n) = buffered /\ SubSeq(buffered, n + 1, n) = <<>>
    BY <2>1, <2>2
  <2>4. FlushedFiles = Written(files, buffered)
    BY <1>1 DEF FlushedFiles
  <2> DEFINE done == SubSeq(buffered, 1, n)
             todo == SubSeq(buffered, n + 1, Len(buffered))
  <2>5. /\ Written(files, done) \in Seq(Seq(Payload))
        /\ FileIds(Written(files, done)) = FileIds(files) \cup Ids(done)
        /\ InOrder(mem, files, buffered)
             => InOrder(mem, Written(files, done), todo)
    BY <2>1, WriteKeepsOrder, Zenon
  <2>6. done = buffered /\ todo = <<>>
    BY <2>2, <2>3, Zenon
  <2> QED BY <2>4, <2>5, <2>6, Zenon DEF DiscIds
<1>2. CASE out # "listed"
  BY <1>2, NothingInOrder DEF TypeOK, FlushedFiles, DiscIds
<1> QED BY <1>1, <1>2

\* A payload newer than any other goes to a new file, to the stream buffer,
\* or to an otherwise empty memory and disc.
LEMMA NewestKeepsOrder ==
  ASSUME NEW m \in Seq(Payload), NEW fs \in Seq(Seq(Payload)),
         NEW b \in Seq(Payload), NEW p \in Payload,
         \A id \in Ids(m) \cup FileIds(fs) \cup Ids(b) : id < p.id
  PROVE  /\ <<p>> \in Seq(Payload) /\ Ids(<<p>>) = {p.id}
         /\ Append(fs, <<>>) \in Seq(Seq(Payload))
         /\ FileIds(Append(fs, <<>>)) = FileIds(fs)
         /\ InOrder(m, fs, <<>>) => InOrder(m, Append(fs, <<>>), <<p>>)
         /\ InOrder(m, fs, b) => InOrder(m, fs, Append(b, p))
         /\ InOrder(m, <<>>, <<>>) => InOrder(Append(m, p), <<>>, <<>>)
<1>1. /\ <<p>> \in Seq(Payload) /\ Ids(<<p>>) = {p.id} /\ Increasing(<<p>>)
  BY IdIsNat DEF Ids, Increasing
<1>2. /\ Append(b, p) \in Seq(Payload) /\ Ids(Append(b, p)) = Ids(b) \cup {p.id}
      /\ Increasing(b) => Increasing(Append(b, p))
  BY IdsOfAppend
<1>3. /\ Append(m, p) \in Seq(Payload)
      /\ Increasing(m) => Increasing(Append(m, p))
  BY IdsOfAppend
<1>4. \A i \in 1..Len(fs) : fs[i] \in Seq(Payload) /\ \A id \in Ids(fs[i]) : id < p.id
  BY IdsInFile
<1> DEFINE fs2 == Append(fs, <<>>)
<1>5. /\ fs2 \in Seq(Seq(Payload)) /\ Len(fs2) = Len(fs) + 1
      /\ fs2[Len(fs) + 1] = <<>> /\ \A i \in 1..Len(fs) : fs2[i] = fs[i]
  OBVIOUS
<1>6. Len(fs) \in Nat /\ 1..(Len(fs) + 1) = 1..Len(fs) \cup {Len(fs) + 1}
  OBVIOUS
<1>11. \A i \in 1..Len(fs2) : i \in 1..Len(fs) \/ i = Len(fs) + 1
  BY <1>5, <1>6
<1> HIDE DEF fs2
<1>7. FileIds(fs2) = FileIds(fs)
  <2>1. \A i \in 1..Len(fs2) : Ids(fs2[i]) \subseteq FileIds(fs)
    BY <1>5, <1>6, IdsInFile, NothingInOrder
  <2>2. \A i \in 1..Len(fs) : Ids(fs[i]) \subseteq FileIds(fs2)
    BY <1>5, <1>6, IdsInFile
  <2>3. FileIds(fs2) \subseteq FileIds(fs)
    BY <2>1, FileIdsWithin
  <2>4. FileIds(fs) \subseteq FileIds(fs2)
    BY <2>2, FileIdsWithin
  <2> QED BY <2>3, <2>4
<1>8. ASSUME InOrder(m, fs, <<>>) PROVE InOrder(m, fs2, <<p>>)
  <2>1. Before(m, <<p>>) /\ \A i \in 1..Len(fs) : Before(fs[i], <<p>>)
    BY <1>1, <1>4, BeforeByIds
  <2>2. \A i \in 1..Len(fs) : i < Len(fs) + 1 /\ ~ (Len(fs) + 1 < i)
    BY <1>6
  <2>3. Before(m, <<>>) /\ Before(<<>>, <<p>>) /\ Increasing(<<>>)
        /\ \A i \in 1..Len(fs) : Before(fs[i], <<>>)
    BY <1>1, <1>4, NothingInOrder
  <2> DEFINE new == <<p>>
             nil == <<>>
  <2>4. /\ Increasing(new) /\ Before(m, new) /\ Before(m, nil)
        /\ Before(nil, new) /\ Increasing(nil)
        /\ \A i \in 1..Len(fs) : Before(fs[i], new) /\ Before(fs[i], nil)
    BY <1>1, <2>1, <2>3
  <2>5. /\ Increasing(m)
        /\ \A i \in 1..Len(fs) :
             /\ Increasing(fs[i]) /\ Before(m, fs[i])
             /\ \A j \in 1..Len(fs) : i < j => Before(fs[i], fs[j])
    BY <1>8 DEF InOrder
  <2>6. fs2[Len(fs) + 1] = nil
    BY <1>5
  <2> HIDE DEF new, nil
  <2>7. InOrder(m, fs2, new)
    <3>1. ASSUME NEW f \in 1..Len(fs2)
          PROVE  Increasing(fs2[f]) /\ Before(m, fs2[f]) /\ Before(fs2[f], new)
      <4>1. CASE f \in 1..Len(fs)
        BY <1>5, <2>4, <2>5, <4>1
      <4>2. CASE f = Len(fs) + 1
        BY <2>4, <2>6, <4>2
      <4> QED BY <1>11, <4>1, <4>2
    <3>2. ASSUME NEW f \in 1..Len(fs2), NEW g \in 1..Len(fs2), f < g
          PROVE  Before(fs2[f], fs2[g])
      <4>1. f \in 1..Len(fs) /\ fs2[f] = fs[f]
        <5>1. f # Len(fs) + 1
          BY <1>11, <2>2, <3>2
        <5> QED BY <1>5, <1>11, <5>1
      <4>2. CASE g \in 1..Len(fs)
        BY <1>5, <2>5, <3>2, <4>1, <4>2
      <4>3. CASE g = Len(fs) + 1
        BY <2>4, <2>6, <4>1, <4>3
      <4> QED BY <1>11, <4>2, <4>3
    <3> QED BY <2>4, <2>5, <3>1, <3>2 DEF InOrder
  <2> QED BY <2>7 DEF new
<1>9. ASSUME InOrder(m, fs, b) PROVE InOrder(m, fs, Append(b, p))
  <2> DEFINE b2 == Append(b, p)
  <2>1. Before(m, b) /\ \A i \in 1..Len(fs) : Before(fs[i], b)
    BY <1>9 DEF InOrder
  <2>2. b2 \in Seq(Payload) /\ Ids(b2) = Ids(b) \cup {p.id} /\ Increasing(b2)
    BY <1>2, <1>9 DEF InOrder
  <2> HIDE DEF b2
  <2>3. Before(m, b2) /\ \A i \in 1..Len(fs) : Before(fs[i], b2)
    BY <1>4, <2>1, <2>2, BeforeByIds
  <2>4. InOrder(m, fs, b2)
    BY <1>9, <2>2, <2>3 DEF InOrder
  <2> QED BY <2>4 DEF b2
<1>10. InOrder(m, <<>>, <<>>) => InOrder(Append(m, p), <<>>, <<>>)
  <2>1. Len(<<>>) = 0
    OBVIOUS
  <2>2. Before(Append(m, p), <<>>) /\ Increasing(<<>>)
    BY <1>3, NothingInOrder
  <2> QED BY <1>3, <2>1, <2>2 DEF InOrder
<1> QED BY <1>1, <1>5, <1>7, <1>8, <1>9, <1>10 DEF fs2

\* The memory is saved in a file before the others.
LEMMA SaveKeepsOrder ==
  ASSUME NEW m \in Seq(Payload), NEW fs \in Seq(Seq(Payload))
  PROVE  /\ <<m>> \o fs \in Seq(Seq(Payload))
         /\ FileIds(<<m>> \o fs) = Ids(m) \cup FileIds(fs)
         /\ InOrder(m, fs, <<>>) => InOrder(<<>>, <<m>> \o fs, <<>>)
<1> DEFINE fs2 == <<m>> \o fs
<1>1. /\ fs2 \in Seq(Seq(Payload)) /\ Len(fs2) = Len(fs) + 1
      /\ fs2[1] = m /\ \A i \in 1..Len(fs) : fs2[i + 1] = fs[i]
      /\ Len(fs) \in Nat
  OBVIOUS
<1> HIDE DEF fs2
<1>2. /\ 1 \in 1..Len(fs2)
      /\ \A i \in 1..Len(fs) : i + 1 \in 1..Len(fs2)
      /\ \A i \in 1..Len(fs2) : i # 1 => i - 1 \in 1..Len(fs) /\ fs2[i] = fs[i - 1]
  <2>1. ASSUME NEW i \in 1..Len(fs2), i # 1
        PROVE  i - 1 \in 1..Len(fs) /\ fs2[i] = fs[i - 1]
    <3>1. i - 1 \in 1..Len(fs) /\ (i - 1) + 1 = i
      BY <1>1, <2>1
    <3> QED BY <1>1, <3>1
  <2> QED BY <1>1, <2>1
<1>3. FileIds(fs2) \subseteq Ids(m) \cup FileIds(fs)
  <2>1. ASSUME NEW i \in 1..Len(fs2)
        PROVE  Ids(fs2[i]) \subseteq Ids(m) \cup FileIds(fs)
    BY <1>1, <1>2, IdsInFile
  <2> QED BY <2>1 DEF FileIds
<1>4. Ids(m) \cup FileIds(fs) \subseteq FileIds(fs2)
  <2>1. Ids(m) \subseteq FileIds(fs2)
    BY <1>1, <1>2, IdsInFile
  <2>2. \A i \in 1..Len(fs) : Ids(fs[i]) \subseteq FileIds(fs2)
    BY <1>1, <1>2, IdsInFile
  <2> QED BY <2>1, <2>2, FileIdsWithin
<1>5. ASSUME InOrder(m, fs, <<>>) PROVE InOrder(<<>>, fs2, <<>>)
  <2>1. \A i \in 1..Len(fs2) : /\ fs2[i] \in Seq(Payload)
                               /\ Increasing(fs2[i])
    <3>1. ASSUME NEW i \in 1..Len(fs2)
          PROVE  fs2[i] \in Seq(Payload) /\ Increasing(fs2[i])
      <4>1. CASE i = 1
        BY <1>1, <1>5, <4>1 DEF InOrder
      <4>2. CASE i # 1
        <5>1. i - 1 \in 1..Len(fs) /\ fs2[i] = fs[i - 1]
          BY <1>2, <4>2
        <5> QED BY <1>5, <5>1 DEF InOrder
      <4> QED BY <4>1, <4>2
    <3> QED BY <3>1
  <2>2. ASSUME NEW i \in 1..Len(fs2), NEW j \in 1..Len(fs2), i < j
        PROVE  Before(fs2[i], fs2[j])
    <3>1. j # 1 /\ j - 1 \in 1..Len(fs) /\ fs2[j] = fs[j - 1]
      <4>1. j # 1
        BY <1>1, <2>2
      <4> QED BY <1>2, <4>1
    <3>2. CASE i = 1
      BY <1>1, <1>5, <3>1, <3>2 DEF InOrder
    <3>3. CASE i # 1
      <4>1. i - 1 \in 1..Len(fs) /\ fs2[i] = fs[i - 1] /\ i - 1 < j - 1
        BY <1>1, <1>2, <2>2, <3>3
      <4> QED BY <1>5, <3>1, <4>1 DEF InOrder
    <3> QED BY <3>2, <3>3
  <2>3. Increasing(<<>>) /\ Before(<<>>, <<>>)
    BY NothingInOrder
  <2>4. \A i \in 1..Len(fs2) : Before(<<>>, fs2[i]) /\ Before(fs2[i], <<>>)
    BY <2>1, NothingInOrder
  <2> QED BY <2>1, <2>2, <2>3, <2>4 DEF InOrder
<1> QED BY <1>1, <1>3, <1>4, <1>5 DEF fs2

----------------------------------------------------------------------------
(* The inductive invariant: the types, the order, and that only what was   *)
(* pushed has been taken, without which a new payload need not be newer    *)
(* than the last one taken.  Each operation preserves it, and is a step of *)
(* the abstract queue.                                                     *)

Inv == TypeOK /\ Ordered /\ taken <= pushes

Abstract == <<pushes, KeptIds, Ids(buffered), taken>>

\* The numbers in memory and in files are those of pushes.
LEMMA IdsAreNumbers ==
  /\ \A s \in Seq(Payload) : Ids(s) \subseteq 1..MaxPushes
  /\ \A fs \in Seq(Seq(Payload)) : FileIds(fs) \subseteq 1..MaxPushes
<1>1. \A s \in Seq(Payload) : Ids(s) \subseteq 1..MaxPushes
  BY IdIsNat DEF Ids
<1>2. ASSUME NEW fs \in Seq(Seq(Payload)) PROVE FileIds(fs) \subseteq 1..MaxPushes
  <2>1. \A i \in 1..Len(fs) : Ids(fs[i]) \subseteq 1..MaxPushes
    BY <1>1
  <2> QED BY <2>1, FileIdsWithin
<1> QED BY <1>1, <1>2

\* What the invariant says, spelt out.
LEMMA InvFacts ==
  ASSUME Inv
  PROVE  /\ mem \in Seq(Payload) /\ files \in Seq(Seq(Payload))
         /\ buffered \in Seq(Payload)
         /\ pushes \in 0..MaxPushes /\ taken \in 0..pushes
         /\ InOrder(mem, files, buffered)
         /\ \A id \in Ids(mem) \cup FileIds(files) \cup Ids(buffered) :
              id \in Nat /\ taken < id /\ id <= pushes
<1>1. /\ mem \in Seq(Payload) /\ files \in Seq(Seq(Payload))
      /\ buffered \in Seq(Payload)
      /\ pushes \in 0..MaxPushes /\ taken \in 0..pushes
      /\ InOrder(mem, files, buffered)
      /\ \A id \in Ids(mem) \cup FileIds(files) \cup Ids(buffered) :
           taken < id /\ id <= pushes
  BY DEF Inv, TypeOK, Ordered, StoredIds, KeptIds, DiscIds
<1>2. Ids(mem) \cup FileIds(files) \cup Ids(buffered) \subseteq Nat
  <2>1. 1..MaxPushes \subseteq Nat
    OBVIOUS
  <2> QED BY <1>1, <2>1, IdsAreNumbers
<1> QED BY <1>1, <1>2

\* What an invariant state must have, when it is built from its parts.
LEMMA InvFromParts ==
  ASSUME TypeOK', InOrder(mem', files', buffered'), taken' <= pushes',
         \A id \in Ids(mem') \cup FileIds(files') \cup Ids(buffered') :
           taken' < id /\ id <= pushes'
  PROVE  Inv'
BY DEF Inv, Ordered, StoredIds, KeptIds, DiscIds

\* What is buffered comes after, and apart from, what is kept.
LEMMA OrderedApart ==
  ASSUME NEW m \in Seq(Payload), NEW fs \in Seq(Seq(Payload)),
         NEW b \in Seq(Payload), InOrder(m, fs, b)
  PROVE  \A i \in Ids(m) \cup FileIds(fs), j \in Ids(b) : i # j
<1>1. ASSUME NEW s \in Seq(Payload), Before(s, b)
      PROVE  \A i \in Ids(s), j \in Ids(b) : i # j
  <2>1. Ids(s) \subseteq Nat /\ Ids(b) \subseteq Nat
    <3>1. 1..MaxPushes \subseteq Nat
      OBVIOUS
    <3> QED BY <3>1, IdsAreNumbers
  <2> QED BY <1>1, <2>1, BeforeByIds
<1>2. \A f \in 1..Len(fs) : fs[f] \in Seq(Payload) /\ Before(fs[f], b)
  BY DEF InOrder
<1>3. \A f \in 1..Len(fs) : \A i \in Ids(fs[f]), j \in Ids(b) : i # j
  BY <1>1, <1>2
<1>4. \A i \in FileIds(fs), j \in Ids(b) : i # j
  <2>1. FileIds(fs) \subseteq {i \in FileIds(fs) : \A j \in Ids(b) : i # j}
    <3> DEFINE T == {i \in FileIds(fs) : \A j \in Ids(b) : i # j}
    <3>1. \A f \in 1..Len(fs) : Ids(fs[f]) \subseteq T
      BY <1>3, IdsInFile
    <3> QED BY <3>1, FileIdsWithin
  <2> QED BY <2>1
<1> QED BY <1>1, <1>4 DEF InOrder

\* push() keeps the invariant when the payload stays in memory.
LEMMA PushToMemoryKeeps ==
  ASSUME Inv, NEW p \in Payload, p.id = pushes + 1, PushToMemory(p),
         running, pushes' = pushes + 1, pushes' \in 0..MaxPushes,
         UNCHANGED <<streaming, running, taken, restarts>>
  PROVE  Inv' /\ Fifo!Put
<1>1. files = <<>> /\ mem' = Append(mem, p) /\ UNCHANGED <<files, outVars>>
  BY DEF PushToMemory, GoesToMemory
<1>2. out # "listed" /\ buffered = <<>>
  BY <1>1 DEF Inv, TypeOK
<1>3. \A id \in Ids(mem) \cup FileIds(files) \cup Ids(buffered) : id < p.id
  BY InvFacts, IdIsNat
<1>4. /\ mem' \in Seq(Payload) /\ Ids(mem') = Ids(mem) \cup {p.id}
      /\ InOrder(mem', <<>>, <<>>)
  BY <1>1, <1>2, <1>3, InvFacts, IdsOfAppend, NewestKeepsOrder
<1>5. TypeOK'
  BY <1>1, <1>2, <1>4 DEF Inv, TypeOK, outVars, PushToMemory
<1>6. Inv'
  <2>1. InOrder(mem', files', buffered')
    BY <1>1, <1>2, <1>4 DEF outVars
  <2>2. \A id \in Ids(mem') \cup FileIds(files') \cup Ids(buffered') :
          taken' < id /\ id <= pushes'
    <3>1. Ids(mem') \cup FileIds(files') \cup Ids(buffered')
            = Ids(mem) \cup FileIds(files) \cup Ids(buffered) \cup {pushes + 1}
      BY <1>1, <1>4 DEF outVars
    <3>2. taken' = taken /\ taken < pushes + 1
      BY InvFacts
    <3> QED BY <3>1, <3>2, InvFacts
  <2>3. taken' <= pushes'
    BY InvFacts
  <2> QED BY <1>5, <2>1, <2>2, <2>3, InvFromParts
<1>7. Fifo!Put
  <2>1. /\ KeptIds' = KeptIds \cup {pushes'}
        /\ Ids(buffered') = {} /\ Ids(buffered) = {}
    BY <1>1, <1>2, <1>4, NothingInOrder DEF KeptIds, DiscIds, outVars
  <2> QED BY <2>1 DEF Fifo!Put
<1> QED BY <1>6, <1>7

\* push() keeps the invariant when the payload goes to a file.
LEMMA PushToFileKeeps ==
  ASSUME Inv, NEW p \in Payload, p.id = pushes + 1, PushToFile(p),
         running, pushes' = pushes + 1, pushes' \in 0..MaxPushes,
         UNCHANGED <<streaming, running, taken, restarts>>
  PROVE  Inv' /\ Fifo!Put
<1> DEFINE fresh == out = "closed" \/ szOut + 2 + p.len >= MaxMem
           base  == IF fresh THEN Append(FlushedFiles, <<>>) ELSE files
           buf   == IF fresh THEN <<p>> ELSE Append(buffered, p)
<1>1. UNCHANGED <<mem, disappointed, event, streaming, running, taken>>
  BY DEF PushToFile, memVars
<1>2. \A id \in Ids(mem) \cup FileIds(files) \cup Ids(buffered) :
        id \in Nat /\ taken < id /\ id < p.id
  BY InvFacts
<1>3. taken < p.id /\ taken' <= pushes' /\ p.id = pushes'
  BY <1>1, InvFacts
<1>4. CASE fresh \/ out = "listed"
  <2>1. PICK k \in 0..Len(buf) :
          /\ files' = Written(base, SubSeq(buf, 1, k))
          /\ buffered' = SubSeq(buf, k + 1, Len(buf))
          /\ szOut' >= MaxMem => k = Len(buf)
          /\ out' = IF szOut' >= MaxMem THEN "closed" ELSE "listed"
    BY <1>4 DEF PushToFile
  <2>2. /\ base \in Seq(Seq(Payload)) /\ base # <<>>
        /\ buf \in Seq(Payload) /\ InOrder(mem, base, buf)
        /\ FileIds(base) \cup Ids(buf) = DiscIds \cup Ids(buffered) \cup {p.id}
        /\ DiscIds \subseteq FileIds(base)
        /\ Ids(buf) \subseteq Ids(buffered) \cup {p.id}
    <3>1. CASE fresh
      <4> DEFINE flushed == FlushedFiles
      <4>1. /\ flushed \in Seq(Seq(Payload))
            /\ FileIds(flushed) = DiscIds \cup Ids(buffered)
            /\ InOrder(mem, flushed, <<>>)
        BY FlushKeepsOrder, InvFacts DEF Inv
      <4>2. base = Append(flushed, <<>>) /\ buf = <<p>>
        BY <3>1
      <4> HIDE DEF flushed
      <4>3. \A id \in Ids(mem) \cup FileIds(flushed) \cup Ids(<<>>) : id < p.id
        BY <1>2, <4>1, NothingInOrder DEF DiscIds
      <4>4. /\ <<p>> \in Seq(Payload) /\ Ids(<<p>>) = {p.id}
            /\ Append(flushed, <<>>) \in Seq(Seq(Payload))
            /\ FileIds(Append(flushed, <<>>)) = FileIds(flushed)
            /\ InOrder(mem, Append(flushed, <<>>), <<p>>)
        BY <4>1, <4>3, InvFacts, NewestKeepsOrder, NothingInOrder
      <4>5. Append(flushed, <<>>) # <<>>
        <5>1. \A q \in Seq(Seq(Payload)) : Append(q, <<>>) # <<>>
          OBVIOUS
        <5> QED BY <4>1, <5>1
      <4> HIDE DEF base, buf
      <4> QED BY <4>1, <4>2, <4>4, <4>5
    <3>2. CASE ~fresh
      <4>1. base = files /\ buf = Append(buffered, p)
        BY <3>2
      <4>2. files # <<>>
        BY <1>4, <3>2 DEF Inv, TypeOK
      <4>3. /\ Append(buffered, p) \in Seq(Payload)
            /\ Ids(Append(buffered, p)) = Ids(buffered) \cup {p.id}
            /\ InOrder(mem, files, Append(buffered, p))
        BY <1>2, InvFacts, IdsOfAppend, NewestKeepsOrder
      <4> HIDE DEF base, buf
      <4> QED BY <4>1, <4>2, <4>3, InvFacts DEF DiscIds
    <3> QED BY <3>1, <3>2
  <2> HIDE DEF base, buf, fresh
  <2> DEFINE done == SubSeq(buf, 1, k)
             todo == SubSeq(buf, k + 1, Len(buf))
  <2>3. /\ Written(base, done) \in Seq(Seq(Payload))
        /\ Len(Written(base, done)) = Len(base)
        /\ FileIds(Written(base, done)) = FileIds(base) \cup Ids(done)
        /\ InOrder(mem, Written(base, done), todo)
    BY <2>2, InvFacts, WriteKeepsOrder
  <2>4. /\ done \in Seq(Payload) /\ todo \in Seq(Payload)
        /\ Ids(buf) = Ids(done) \cup Ids(todo)
    BY <2>2, Pieces
  <2>5. files' = Written(base, done) /\ buffered' = todo
    BY <2>1
  <2>6. k = Len(buf) => todo = <<>>
    BY <2>2
  <2>7. Written(base, done) # <<>>
    BY <2>2, <2>3
  <2>13. done \in Seq(Payload) /\ files' # <<>> /\ (out' # "listed" => buffered' = <<>>)
    BY <2>1, <2>4, <2>5, <2>6, <2>7
  <2> HIDE DEF done, todo
  <2>8. TypeOK'
    <3>1. files' \in Seq(Seq(Payload)) /\ buffered' \in Seq(Payload)
      BY <2>3, <2>4, <2>5
    <3>2. out' \in {"closed", "listed"}
      BY <2>1
    <3> QED BY <1>1, <2>13, <3>1, <3>2 DEF Inv, TypeOK
  <2>9. FileIds(files') \cup Ids(buffered')
          = DiscIds \cup Ids(buffered) \cup {p.id}
    BY <2>2, <2>3, <2>4, <2>5
  <2>10. Inv'
    <3>1. InOrder(mem', files', buffered')
      BY <1>1, <2>3, <2>5
    <3>2. \A id \in Ids(mem') \cup FileIds(files') \cup Ids(buffered') :
            taken' < id /\ id <= pushes'
      <4>1. Ids(mem') \cup FileIds(files') \cup Ids(buffered')
              = Ids(mem) \cup FileIds(files) \cup Ids(buffered) \cup {p.id}
        BY <1>1, <2>9 DEF DiscIds
      <4>2. taken' = taken /\ pushes' = p.id
        BY <1>1
      <4> QED BY <1>2, <1>3, <4>1, <4>2, InvFacts
    <3> QED BY <1>3, <2>8, <3>1, <3>2, InvFromParts
  <2>11. Fifo!Put
    <3> DEFINE saved == (Ids(buffered) \cup {p.id}) \ Ids(todo)
    <3>1. \A i \in FileIds(files'), j \in Ids(buffered') : i # j
      BY <2>3, <2>4, <2>5, OrderedApart, InvFacts
    <3>2. FileIds(files') = FileIds(base) \cup Ids(done) /\ Ids(buffered') = Ids(todo)
      BY <2>3, <2>5
    <3>3. KeptIds' = Ids(mem) \cup FileIds(files')
      BY <1>1 DEF KeptIds, DiscIds
    <3>4. FileIds(files') = DiscIds \cup saved
      BY <2>2, <2>4, <3>1, <3>2
    <3>5. Ids(buffered') = (Ids(buffered) \cup {p.id}) \ saved
      BY <2>2, <2>4, <3>2
    <3>6. saved \in SUBSET (Ids(buffered) \cup {pushes'})
      BY <1>3
    <3>7. KeptIds' = KeptIds \cup saved
      BY <3>3, <3>4 DEF KeptIds
    <3> HIDE DEF saved
    <3> QED BY <1>1, <1>3, <3>5, <3>6, <3>7 DEF Fifo!Put
  <2> QED BY <2>10, <2>11
<1>5. CASE ~(fresh \/ out = "listed")
  <2>1. /\ out' \in {"closed", "unlinked"} /\ UNCHANGED <<files, buffered>>
        /\ buffered = <<>>
    BY <1>5 DEF PushToFile, Inv, TypeOK
  <2>2. TypeOK'
    BY <1>1, <2>1 DEF Inv, TypeOK
  <2>3. Inv'
    <3>1. Ids(mem') \cup FileIds(files') \cup Ids(buffered')
              = Ids(mem) \cup FileIds(files) \cup Ids(buffered)
      BY <1>1, <2>1
    <3>2. InOrder(mem', files', buffered')
      BY <1>1, <2>1, InvFacts
    <3>3. \A id \in Ids(mem') \cup FileIds(files') \cup Ids(buffered') :
            taken' < id /\ id <= pushes'
      BY <1>1, <1>2, <3>1, InvFacts
    <3> QED BY <1>3, <2>2, <3>2, <3>3, InvFromParts
  <2>4. Fifo!Put
    <3>1. KeptIds' = KeptIds \cup {} /\ Ids(buffered') = Ids(buffered) \ {}
      BY <1>1, <2>1 DEF KeptIds, DiscIds
    <3>2. {} \in SUBSET (Ids(buffered) \cup {pushes'})
      OBVIOUS
    <3> QED BY <1>1, <3>1, <3>2 DEF Fifo!Put
  <2> QED BY <2>3, <2>4
<1> QED BY <1>4, <1>5

\* Any head of the order, and no buffer, are in order too.
LEMMA LessKeepsOrder ==
  ASSUME NEW m \in Seq(Payload), NEW fs \in Seq(Seq(Payload)),
         NEW b \in Seq(Payload), InOrder(m, fs, b)
  PROVE  /\ InOrder(m, fs, <<>>)
         /\ m # <<>> => InOrder(Tail(m), fs, b)
<1>1. InOrder(m, fs, <<>>)
  <2>1. Increasing(<<>>) /\ \A s \in Seq(Payload) : Before(s, <<>>)
    BY NothingInOrder
  <2>2. \A f \in 1..Len(fs) : fs[f] \in Seq(Payload)
    OBVIOUS
  <2> QED BY <2>1, <2>2 DEF InOrder
<1>2. ASSUME m # <<>> PROVE InOrder(Tail(m), fs, b)
  <2>1. Tail(m) \in Seq(Payload) /\ Increasing(Tail(m)) /\ Ids(Tail(m)) \subseteq Ids(m)
    BY <1>2, IdsOfTail DEF InOrder
  <2>2. \A s \in Seq(Payload) : Before(m, s) => Before(Tail(m), s)
    BY <2>1, BeforeByIds
  <2>3. \A f \in 1..Len(fs) : fs[f] \in Seq(Payload)
    OBVIOUS
  <2> QED BY <2>1, <2>2, <2>3 DEF InOrder
<1> QED BY <1>1, <1>2

\* peek() moves payloads from disc to memory, and may lose the buffer.
LEMMA PeekKeeps ==
  ASSUME Inv, NEW m \in Seq(Payload), NEW sz, InOrder(m, files, buffered),
         Peek(m, sz)
  PROVE  /\ mem' \in Seq(Payload) /\ files' \in Seq(Seq(Payload))
         /\ buffered' \in {buffered, <<>>}
         /\ InOrder(mem', files', buffered')
         /\ Ids(mem') \cup FileIds(files') = Ids(m) \cup FileIds(files)
         /\ out' \in {"closed", "listed", "unlinked"}
         /\ out' = "listed" => files' # <<>>
         /\ out' # "listed" => buffered' = <<>>
         /\ disappointed' \in BOOLEAN
<1>1. CASE m # <<>>
  BY <1>1, InvFacts DEF Peek, outVars, Inv, TypeOK
<1>2. CASE m = <<>>
  <2>1. /\ LoadHeadFile(sz)
        /\ disappointed' \in BOOLEAN
    BY <1>2 DEF Peek
  <2> DEFINE rest == SubSeq(files, HeadFile(files) + 1, Len(files))
  <2>2. /\ rest \in Seq(Seq(Payload))
        /\ FileIds(files) = Ids(Loaded(files)) \cup FileIds(rest)
        /\ InOrder(Loaded(files), rest, buffered)
    BY <1>2, InvFacts, LoadKeepsOrder
  <2>3. mem' = Loaded(files) /\ files' = rest
    BY <2>1 DEF LoadHeadFile
  <2>4. Loaded(files) \in Seq(Payload)
    BY InvFacts, HeadFileFacts
  <2> HIDE DEF rest
  <2>5. InOrder(Loaded(files), rest, <<>>)
    BY <2>2, <2>4, InvFacts, LessKeepsOrder
  <2>6. /\ buffered' \in {buffered, <<>>}
        /\ out' \in {"closed", "listed", "unlinked"}
        /\ out' = "listed" => files' # <<>>
        /\ out' # "listed" => buffered' = <<>>
    BY <2>1 DEF LoadHeadFile, Inv, TypeOK
  <2>7. Ids(mem') \cup FileIds(files') = Ids(m) \cup FileIds(files)
    BY <1>2, <2>2, <2>3, NothingInOrder
  <2> QED BY <2>1, <2>2, <2>3, <2>4, <2>5, <2>6, <2>7
<1> QED BY <1>1, <1>2

\* The channel's peek() and consume() keep the invariant.
LEMMA TransmitKeeps ==
  ASSUME Inv, Transmit
  PROVE  Inv' /\ [Fifo!Next]_Abstract
<1>1. UNCHANGED <<running, pushes>> /\ running /\ streaming' = FALSE
  BY DEF Transmit
<1>2. CASE mem = <<>>
  <2>1. Peek(mem, szMem) /\ UNCHANGED <<event, taken>>
    BY <1>2 DEF Transmit
  <2>2. /\ mem' \in Seq(Payload) /\ files' \in Seq(Seq(Payload))
        /\ buffered' \in {buffered, <<>>}
        /\ InOrder(mem', files', buffered')
        /\ Ids(mem') \cup FileIds(files') = Ids(mem) \cup FileIds(files)
        /\ out' \in {"closed", "listed", "unlinked"}
        /\ out' = "listed" => files' # <<>>
        /\ out' # "listed" => buffered' = <<>>
        /\ disappointed' \in BOOLEAN
    BY <2>1, InvFacts, PeekKeeps
  <2>3. TypeOK'
    <3>1. buffered' \in Seq(Payload)
      BY <2>2, InvFacts, NothingInOrder
    <3>2. /\ event' \in BOOLEAN /\ streaming' \in BOOLEAN
          /\ running' \in BOOLEAN /\ running'
          /\ pushes' \in 0..MaxPushes /\ taken' \in 0..MaxPushes
      BY <1>1, <2>1 DEF Inv, TypeOK
    <3> QED BY <2>2, <3>1, <3>2 DEF TypeOK
  <2>4. Inv'
    <3>1. Ids(buffered') \subseteq Ids(buffered)
      BY <2>2, NothingInOrder
    <3>2. \A id \in Ids(mem') \cup FileIds(files') \cup Ids(buffered') :
            taken' < id /\ id <= pushes'
      BY <1>1, <2>1, <2>2, <3>1, InvFacts
    <3>3. taken' <= pushes'
      BY <1>1, <2>1, InvFacts
    <3> QED BY <2>2, <2>3, <3>2, <3>3, InvFromParts
  <2>5. KeptIds' = KeptIds /\ Ids(buffered') \in {Ids(buffered), {}}
    BY <2>2, NothingInOrder DEF KeptIds, DiscIds
  <2>6. [Fifo!Next]_Abstract
    <3>1. CASE Ids(buffered') = Ids(buffered)
      BY <1>1, <2>1, <2>5, <3>1 DEF Abstract
    <3>2. CASE Ids(buffered') = {}
      <4>1. Fifo!Crash
        BY <1>1, <2>1, <2>5, <3>2 DEF Fifo!Crash
      <4> QED BY <4>1 DEF Fifo!Next
    <3> QED BY <2>5, <3>1, <3>2
  <2> QED BY <2>4, <2>6
<1>3. CASE mem # <<>>
  <2> DEFINE first == Head(mem).id
             rest  == Tail(mem)
  <2>1. taken' = first /\ Poke(rest, szMem - Head(mem).len)
    BY <1>3 DEF Transmit
  <2>2. /\ rest \in Seq(Payload) /\ Head(mem) \in Payload
        /\ Ids(rest) = Ids(mem) \ {first} /\ first \in Ids(mem)
        /\ \A id \in Ids(mem) : first <= id
    BY <1>3, InvFacts, IdsOfTail DEF InOrder
  <2>3. InOrder(rest, files, buffered)
    BY <1>3, InvFacts, LessKeepsOrder
  <2>4. first \in 1..MaxPushes
    BY <2>2, IdIsNat
  <2>5. \A id \in FileIds(files) \cup Ids(buffered) : first < id
    <3>1. first \in Ids(mem) /\ Before(mem, buffered)
          /\ \A f \in 1..Len(files) : Before(mem, files[f]) /\ files[f] \in Seq(Payload)
      BY <2>2, InvFacts DEF InOrder
    <3> HIDE DEF first
    <3>2. \A id \in Ids(buffered) : first < id
      BY <3>1, InvFacts, BeforeByIds
    <3>3. \A f \in 1..Len(files) : Ids(files[f]) \subseteq {id \in FileIds(files) : first < id}
      BY <3>1, InvFacts, BeforeByIds, IdsInFile
    <3>4. FileIds(files) \subseteq {id \in FileIds(files) : first < id}
      BY <3>3, FileIdsWithin
    <3> QED BY <3>2, <3>4
  <2>6. Peek(rest, szMem - Head(mem).len) /\ event' \in BOOLEAN
    BY <2>1 DEF Poke
  <2> HIDE DEF first, rest
  <2>7. /\ mem' \in Seq(Payload) /\ files' \in Seq(Seq(Payload))
        /\ buffered' \in {buffered, <<>>}
        /\ InOrder(mem', files', buffered')
        /\ Ids(mem') \cup FileIds(files') = Ids(rest) \cup FileIds(files)
        /\ out' \in {"closed", "listed", "unlinked"}
        /\ out' = "listed" => files' # <<>>
        /\ out' # "listed" => buffered' = <<>>
        /\ disappointed' \in BOOLEAN
    BY <2>2, <2>3, <2>6, PeekKeeps
  <2>8. TypeOK'
    <3>1. buffered' \in Seq(Payload)
      BY <2>7, InvFacts, NothingInOrder
    <3>2. /\ event' \in BOOLEAN /\ streaming' \in BOOLEAN
          /\ running' \in BOOLEAN /\ running'
      BY <1>1, <2>6 DEF Inv, TypeOK
    <3>3. pushes' \in 0..MaxPushes /\ taken' \in 0..MaxPushes
      BY <1>1, <2>1, <2>4, InvFacts
    <3> QED BY <2>7, <3>1, <3>2, <3>3 DEF TypeOK
  <2>9. first \in Nat /\ first <= pushes /\ \A id \in Ids(rest) : first < id
    BY <2>2, <2>4, InvFacts
  <2>10. Inv'
    <3>1. Ids(buffered') \subseteq Ids(buffered)
      BY <2>7, NothingInOrder
    <3>2. \A id \in Ids(mem') \cup FileIds(files') \cup Ids(buffered') :
            first < id /\ id <= pushes
      BY <2>2, <2>5, <2>7, <2>9, <3>1, InvFacts
    <3> QED BY <1>1, <2>1, <2>7, <2>8, <2>9, <3>2, InvFromParts
  <2>11. Fifo!Get
    <3>1. first \in KeptIds /\ \A id \in KeptIds : first <= id
      BY <2>2, <2>5, <2>9, InvFacts DEF KeptIds, DiscIds
    <3>2. KeptIds' = KeptIds \ {first}
      BY <2>2, <2>5, <2>7, <2>9 DEF KeptIds, DiscIds
    <3>3. Ids(buffered') \in {Ids(buffered), {}}
      BY <2>7, NothingInOrder
    <3> QED BY <1>1, <2>1, <3>1, <3>2, <3>3 DEF Fifo!Get
  <2> QED BY <2>10, <2>11 DEF Fifo!Next
<1> QED BY <1>2, <1>3

\* Whatever else ends the process, nothing of it is left but its files.
LEMMA GoneKeeps ==
  ASSUME Inv, Gone, files' \in Seq(Seq(Payload)),
         InOrder(<<>>, files', <<>>),
         FileIds(files') \subseteq Ids(mem) \cup FileIds(files) \cup Ids(buffered)
  PROVE  Inv'
<1>1. /\ mem' = <<>> /\ buffered' = <<>> /\ out' = "closed"
      /\ running' = FALSE /\ event' = FALSE /\ streaming' = FALSE
      /\ UNCHANGED <<disappointed, pushes, taken>>
  BY DEF Gone
<1>2. TypeOK'
  BY <1>1, NothingInOrder DEF Inv, TypeOK
<1>3. \A id \in Ids(mem') \cup FileIds(files') \cup Ids(buffered') :
        taken' < id /\ id <= pushes'
  <2>1. Ids(mem') = {} /\ Ids(buffered') = {}
    BY <1>1, NothingInOrder
  <2> QED BY <1>1, <2>1, InvFacts
<1>4. taken' <= pushes'
  BY <1>1, InvFacts
<1> QED BY <1>1, <1>2, <1>3, <1>4, InvFromParts

\* The destructor keeps it, and leaves all that is stored on the disc.
LEMMA StopKeeps ==
  ASSUME Inv, Stop
  PROVE  Inv' /\ Fifo!Save /\ DiscIds' = StoredIds
<1> DEFINE flushed == FlushedFiles
<1>1. /\ flushed \in Seq(Seq(Payload))
      /\ FileIds(flushed) = DiscIds \cup Ids(buffered)
      /\ InOrder(mem, flushed, <<>>)
  BY FlushKeepsOrder, InvFacts DEF Inv
<1>2. files' = IF mem = <<>> THEN flushed ELSE <<mem>> \o flushed
  BY DEF Stop, SavedFiles
<1>3. Gone
  BY DEF Stop
<1> HIDE DEF flushed
<1>4. /\ files' \in Seq(Seq(Payload)) /\ InOrder(<<>>, files', <<>>)
      /\ FileIds(files') = Ids(mem) \cup FileIds(files) \cup Ids(buffered)
  <2>1. CASE mem = <<>>
    BY <1>1, <1>2, <2>1, NothingInOrder DEF DiscIds
  <2>2. CASE mem # <<>>
    <3>1. files' = <<mem>> \o flushed
      BY <1>2, <2>2
    <3>2. /\ <<mem>> \o flushed \in Seq(Seq(Payload))
          /\ FileIds(<<mem>> \o flushed) = Ids(mem) \cup FileIds(flushed)
          /\ InOrder(<<>>, <<mem>> \o flushed, <<>>)
      BY <1>1, InvFacts, SaveKeepsOrder
    <3> QED BY <1>1, <3>1, <3>2 DEF DiscIds
  <2> QED BY <2>1, <2>2
<1>5. Inv'
  BY <1>3, <1>4, GoneKeeps
<1>6. mem' = <<>> /\ buffered' = <<>> /\ UNCHANGED <<pushes, taken>>
  BY <1>3 DEF Gone
<1>7. DiscIds' = StoredIds /\ KeptIds' = KeptIds \cup Ids(buffered)
  BY <1>4, <1>6, NothingInOrder DEF StoredIds, KeptIds, DiscIds
<1>8. Fifo!Save
  BY <1>6, <1>7, NothingInOrder DEF Fifo!Save
<1> QED BY <1>5, <1>7, <1>8

\* A crash keeps it, and is one of the abstract queue.
LEMMA CrashKeeps ==
  ASSUME Inv, Crash
  PROVE  Inv' /\ Fifo!Crash
<1>1. Gone /\ files' = files
  BY DEF Crash
<1>2. InOrder(<<>>, files, <<>>)
  <2>1. \A f \in 1..Len(files) : files[f] \in Seq(Payload)
    BY InvFacts
  <2> QED BY <2>1, InvFacts, NothingInOrder DEF InOrder
<1>3. Inv'
  BY <1>1, <1>2, InvFacts, GoneKeeps
<1>4. mem' = <<>> /\ buffered' = <<>> /\ UNCHANGED <<pushes, taken>>
  BY <1>1 DEF Gone
<1>5. Fifo!Crash
  BY <1>1, <1>4, NothingInOrder DEF Fifo!Crash, KeptIds, DiscIds
<1> QED BY <1>3, <1>5

\* The constructor keeps it, and by it nothing stored is lost.
LEMMA StartKeeps ==
  ASSUME Inv, Start
  PROVE  Inv' /\ UNCHANGED Abstract
<1> DEFINE rest == SubSeq(files, HeadFile(files) + 1, Len(files))
<1>1. /\ mem' = Loaded(files) /\ files' = rest
      /\ running' = TRUE /\ disappointed' = TRUE /\ event' \in BOOLEAN
      /\ UNCHANGED <<out, buffered, streaming, pushes, taken>>
  BY DEF Start, outVars
<1>2. mem = <<>> /\ out = "closed" /\ buffered = <<>>
  BY DEF Start, Inv, TypeOK
<1>3. /\ rest \in Seq(Seq(Payload))
      /\ FileIds(files) = Ids(Loaded(files)) \cup FileIds(rest)
      /\ InOrder(Loaded(files), rest, buffered)
  BY <1>2, InvFacts, LoadKeepsOrder
<1>4. Loaded(files) \in Seq(Payload)
  BY InvFacts, HeadFileFacts
<1> HIDE DEF rest
<1>5. TypeOK'
  BY <1>1, <1>2, <1>3, <1>4 DEF Inv, TypeOK
<1>6. /\ KeptIds' = KeptIds
      /\ Ids(mem') \cup FileIds(files') \cup Ids(buffered')
           = Ids(mem) \cup FileIds(files) \cup Ids(buffered)
  BY <1>1, <1>2, <1>3, NothingInOrder DEF KeptIds, DiscIds
<1>7. Inv'
  <2>1. \A id \in Ids(mem') \cup FileIds(files') \cup Ids(buffered') :
          taken' < id /\ id <= pushes'
    BY <1>1, <1>6, InvFacts
  <2>2. taken' <= pushes' /\ InOrder(mem', files', buffered')
    BY <1>1, <1>3, InvFacts
  <2> QED BY <1>5, <2>1, <2>2, InvFromParts
<1> QED BY <1>1, <1>6, <1>7 DEF Abstract

\* The wake-up of the channel keeps it.
LEMMA QueueReadyKeeps ==
  ASSUME Inv, QueueReady
  PROVE  Inv' /\ UNCHANGED Abstract
<1>1. /\ UNCHANGED <<mem, files, out, buffered, disappointed, running, pushes, taken>>
      /\ event' = FALSE /\ streaming' = TRUE /\ running
  BY DEF QueueReady, memVars, outVars
<1>2. TypeOK'
  BY <1>1 DEF Inv, TypeOK
<1>3. /\ \A id \in Ids(mem') \cup FileIds(files') \cup Ids(buffered') :
           taken' < id /\ id <= pushes'
      /\ InOrder(mem', files', buffered') /\ taken' <= pushes'
  BY <1>1, InvFacts
<1>4. Inv'
  BY <1>2, <1>3, InvFromParts
<1> QED BY <1>1, <1>4 DEF Abstract, KeptIds, DiscIds

\* push() keeps it, wherever the payload goes.
LEMMA PushKeeps ==
  ASSUME Inv, Push
  PROVE  Inv' /\ Fifo!Put
<1>1. /\ running /\ pushes' = pushes + 1
      /\ UNCHANGED <<streaming, running, taken, restarts>>
  BY DEF Push
<1>2. pushes' \in 0..MaxPushes /\ pushes + 1 \in 1..MaxPushes
  BY InvFacts DEF Push
<1>3. PICK len \in Lengths :
        \/ PushToMemory([id |-> pushes + 1, len |-> len])
        \/ PushToFile([id |-> pushes + 1, len |-> len])
  BY DEF Push
<1> DEFINE p == [id |-> pushes + 1, len |-> len]
<1>4. p \in Payload /\ p.id = pushes + 1
  BY <1>2 DEF Payload
<1>5. PushToMemory(p) \/ PushToFile(p)
  BY <1>3
<1> HIDE DEF p
<1> QED BY <1>1, <1>2, <1>4, <1>5, PushToMemoryKeeps, PushToFileKeeps

----------------------------------------------------------------------------
(* The theorems.                                                           *)

\* The invariant holds of an empty queue.
LEMMA InitInv == Init => Inv /\ Fifo!Init
<1> SUFFICES ASSUME Init PROVE Inv /\ Fifo!Init
  OBVIOUS
<1>1. TypeOK
  <2>1. mem \in Seq(Payload) /\ files \in Seq(Seq(Payload)) /\ buffered \in Seq(Payload)
    BY NothingInOrder, Zenon DEF Init
  <2>2. 0 \in 0..MaxPushes
    OBVIOUS
  <2> QED BY <2>1, <2>2 DEF Init, TypeOK
<1>2. mem = <<>> /\ files = <<>> /\ buffered = <<>> /\ taken = 0 /\ pushes = 0
  BY DEF Init
<1>3. StoredIds = {} /\ KeptIds = {} /\ Ids(buffered) = {}
  BY <1>2, NothingInOrder DEF StoredIds, KeptIds, DiscIds
<1>4. InOrder(mem, files, buffered)
  <2>1. Increasing(<<>>) /\ Before(<<>>, <<>>)
    BY NothingInOrder
  <2>2. InOrder(<<>>, <<>>, <<>>)
    BY <2>1 DEF InOrder
  <2> QED BY <1>2, <2>2
<1> QED BY <1>1, <1>2, <1>3, <1>4 DEF Inv, Ordered, Fifo!Init

\* Every step keeps the invariant, and is a step of the abstract queue or none.
LEMMA StepInv == Inv /\ [Next]_vars => Inv' /\ [Fifo!Next]_Abstract
<1> SUFFICES ASSUME Inv, [Next]_vars PROVE Inv' /\ [Fifo!Next]_Abstract
  OBVIOUS
<1>1. CASE Push
  BY <1>1, PushKeeps DEF Fifo!Next
<1>2. CASE QueueReady
  BY <1>2, QueueReadyKeeps
<1>3. CASE Transmit
  BY <1>3, TransmitKeeps
<1>4. CASE Stop
  BY <1>4, StopKeeps DEF Fifo!Next
<1>5. CASE Crash
  BY <1>5, CrashKeeps DEF Fifo!Next
<1>6. CASE Start
  BY <1>6, StartKeeps
<1>7. CASE UNCHANGED vars
  BY <1>7 DEF vars, Inv, TypeOK, Ordered, StoredIds, KeptIds, DiscIds,
     InOrder, Increasing, Before, Ids, FileIds, Abstract
<1> QED BY <1>1, <1>2, <1>3, <1>4, <1>5, <1>6, <1>7 DEF Next

\* The types are right, in every state the queue reaches.
THEOREM TypeCorrect == Spec => []TypeOK
<1>1. Inv => TypeOK
  BY DEF Inv
<1> QED BY InitInv, StepInv, <1>1, PTL DEF Spec

\* push(), load_head_file(), consume(), the destructor and the constructor
\* keep what is stored in the order in which it was pushed.
THEOREM OrderCorrect == Spec => []Ordered
<1>1. Inv => Ordered
  BY DEF Inv
<1> QED BY InitInv, StepInv, <1>1, PTL DEF Spec

\* An orderly shutdown writes all that is in memory or buffered to disc.
THEOREM StopCorrect == Spec => StopKeepsAll
<1>1. Inv /\ [Next]_vars => [Stop => DiscIds' = StoredIds]_vars
  BY StopKeeps
<1> QED BY InitInv, StepInv, <1>1, PTL DEF Spec, StopKeepsAll

\* The queue implements a FIFO that loses nothing it answers for but in a
\* crash, and gives nothing twice or out of order.
THEOREM QueueImplementsFifo == Spec => ImplementsFifo
<1>1. Init => Fifo!Init
  BY InitInv
<1>2. Inv /\ [Next]_vars => [Fifo!Next]_Fifo!vars
  BY StepInv DEF Abstract, Fifo!vars
<1>3. ImplementsFifo <=> Fifo!Init /\ [][Fifo!Next]_Fifo!vars
  BY DEF ImplementsFifo, Fifo!Spec
<1> QED BY InitInv, StepInv, <1>1, <1>2, <1>3, PTL DEF Spec
=============================================================================
