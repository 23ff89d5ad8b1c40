------------------------------ MODULE YPipe_proofs ------------------------------
(***************************************************************************)
(* For every chunk size: the pointers of the lock-free pipe stay inside    *)
(* the chunks that are allocated, no wake-up is lost, and the pipe         *)
(* implements the queue with flush.                                        *)
(*                                                                         *)
(* An address is placed by its offset from the first chunk (N places to    *)
(* each), so that the order of the pointers is an order of integers: the   *)
(* lemmas say how push, unpush and pop move offsets, and the invariant     *)
(* states the order in which the pointers stand.                           *)
(***************************************************************************)
EXTENDS YPipe, TLAPS

\* the positions in a chunk
Pos == 0..(N - 1)

\* Arithmetic of places: a chunk holds N values, so the next chunk begins N
\* places further.
LEMMA Product ==
  ASSUME NEW i \in Int, NEW j \in Int, i < j
  PROVE  i * N \in Int /\ j * N \in Int /\ i * N + N <= j * N
<1>1. N \in Nat /\ N >= 2 BY YPipeAssumption
<1>2. (j - i - 1) * N >= 0
  <2>1. \A x, y \in Nat : x * y \in Nat OBVIOUS
  <2>2. j - i - 1 \in Nat OBVIOUS
  <2> QED BY <1>1, <2>1, <2>2
<1>3. (j - i - 1) * N = j * N - i * N - N BY <1>1
<1> QED BY <1>1, <1>2, <1>3

\* A place is its chunk number times N plus its position, ordered as in
\* yqueue_t: first by chunk, then by position.
LEMMA Order ==
  ASSUME NEW i \in Int, NEW j \in Int, NEW k \in Pos, NEW l \in Pos
  PROVE  /\ i * N + k \in Int
         /\ i * N + k <= j * N + l <=> i < j \/ (i = j /\ k <= l)
         /\ i * N + k = j * N + l <=> i = j /\ k = l
<1>1. N \in Nat /\ N >= 2 BY YPipeAssumption
<1>2. i < j => i * N + N <= j * N BY Product
<1>3. j < i => j * N + N <= i * N BY Product
<1>4. i * N \in Int /\ j * N \in Int BY <1>1
<1> QED BY <1>1, <1>2, <1>3, <1>4 DEF Pos

\* Dividing a place by N gives back its chunk and its position.
LEMMA DivMod ==
  ASSUME NEW i \in Int, NEW k \in Pos
  PROVE  (i * N + k) \div N = i /\ (i * N + k) % N = k
<1>1. N \in Nat /\ N >= 2 BY YPipeAssumption
<1> DEFINE o == i * N + k
           q == o \div N
           m == o % N
<1>2. o \in Int BY <1>1 DEF Pos
<1> HIDE DEF o
<1>3. q \in Int /\ m \in Pos /\ o = q * N + m
  <2>1. q \in Int /\ m \in 0..(N-1) BY <1>1, <1>2
  <2>2. o = N * q + m BY <1>1, <1>2
  <2>3. N * q = q * N BY <1>1, <2>1
  <2> QED BY <2>1, <2>2, <2>3 DEF Pos
<1> HIDE DEF q, m
<1>4. q * N + m = i * N + k BY <1>3 DEF o
<1>5. i = q /\ k = m BY <1>3, <1>4, Order
<1> QED BY <1>5 DEF o, q, m
-----------------------------------------------------------------------------
OffsetIn(ch, a) == (CHOOSE i \in DOMAIN ch : ch[i] = a[1]) * N + a[2]
IsChain(ch) == ch \in Seq(Chunks) /\ ch # << >> /\ IsInjective(ch)
LiveIn(ch, p) == \E i \in 1..Len(ch), k \in Pos : p = <<ch[i], k>>
Place(ch, o) == <<ch[o \div N], o % N>>
Offsets(ch) == N..(Len(ch) * N + N - 1)

\* The offset of position k of the i-th chunk of the chain.
LEMMA OffsetAt ==
  ASSUME NEW ch, IsChain(ch), NEW i \in 1..Len(ch), NEW k \in Pos
  PROVE  OffsetIn(ch, <<ch[i], k>>) = i * N + k
<1>1. \A j \in DOMAIN ch : ch[j] = ch[i] => j = i
  BY DEF IsChain, IsInjective
<1>2. i \in DOMAIN ch BY DEF IsChain
<1>3. (CHOOSE j \in DOMAIN ch : ch[j] = ch[i]) = i
  BY <1>1, <1>2
<1> QED BY <1>3 DEF OffsetIn

\* The offsets of a chain are those of its chunks.
LEMMA OffsetsOfChain ==
  ASSUME NEW ch, IsChain(ch), NEW i \in Int, NEW k \in Pos
  PROVE  i * N + k \in Offsets(ch) <=> i \in 1..Len(ch)
<1>1. N \in Nat /\ N >= 2 BY YPipeAssumption
<1>2. Len(ch) \in Nat BY DEF IsChain
<1>3. 0 \in Pos /\ N - 1 \in Pos BY <1>1 DEF Pos
<1>4. 1 * N + 0 <= i * N + k <=> 1 < i \/ (1 = i /\ 0 <= k) BY <1>3, Order
<1>5. \A l \in Pos : i * N + k <= Len(ch) * N + l <=> i < Len(ch) \/ (i = Len(ch) /\ k <= l)
  BY <1>2, Order, SMTT(30)
<1>6. i * N + k \in Int /\ Len(ch) * N \in Int BY <1>1, <1>2 DEF Pos
<1> QED BY <1>1, <1>2, <1>3, <1>4, <1>5, <1>6 DEF Pos, Offsets

\* An address inside an allocated chunk is the place at its offset.
LEMMA LivePlace ==
  ASSUME NEW ch, IsChain(ch), NEW p, LiveIn(ch, p)
  PROVE  /\ OffsetIn(ch, p) \in Offsets(ch)
         /\ Place(ch, OffsetIn(ch, p)) = p
<1>1. PICK i \in 1..Len(ch), k \in Pos : p = <<ch[i], k>> BY DEF LiveIn
<1>2. OffsetIn(ch, p) = i * N + k BY <1>1, OffsetAt
<1>3. i \in Int BY DEF IsChain
<1>4. i * N + k \in Offsets(ch) BY <1>3, OffsetsOfChain
<1>5. Place(ch, i * N + k) = p BY <1>1, <1>3, DivMod DEF Place
<1> QED BY <1>2, <1>4, <1>5

\* Every offset is a chunk number and a position.
LEMMA SplitOffset ==
  ASSUME NEW o \in Int
  PROVE  o \div N \in Int /\ o % N \in Pos /\ o = (o \div N) * N + (o % N)
<1>1. N \in Nat /\ N >= 2 BY YPipeAssumption
<1> DEFINE q == o \div N
           m == o % N
<1>2. q \in Int /\ m \in 0..(N-1) BY <1>1
<1>3. o = N * q + m BY <1>1
<1> HIDE DEF q, m
<1>4. N * q = q * N BY <1>1, <1>2
<1>5. q \in Int /\ m \in Pos /\ o = q * N + m BY <1>2, <1>3, <1>4 DEF Pos
<1> QED BY <1>5 DEF q, m

\* Every offset of the chain is an address that has not been freed.
LEMMA PlaceIsLive ==
  ASSUME NEW ch, IsChain(ch), NEW o \in Offsets(ch)
  PROVE  /\ LiveIn(ch, Place(ch, o))
         /\ OffsetIn(ch, Place(ch, o)) = o
         /\ Place(ch, o) \in Addresses
         /\ o \div N \in 1..Len(ch) /\ o % N \in Pos /\ o = (o \div N) * N + (o % N)
<1>1. o \in Int BY YPipeAssumption DEF Offsets, IsChain
<1> DEFINE q == o \div N
           m == o % N
<1>2. q \in Int /\ m \in Pos /\ o = q * N + m BY <1>1, SplitOffset
<1>3. Place(ch, o) = <<ch[q], m>> BY DEF Place
<1> HIDE DEF q, m
<1>4. q \in 1..Len(ch) BY <1>2, OffsetsOfChain
<1>5. OffsetIn(ch, <<ch[q], m>>) = o BY <1>2, <1>4, OffsetAt
<1>6. ch[q] \in Chunks BY <1>4 DEF IsChain
<1>7. <<ch[q], m>> \in Addresses BY <1>2, <1>6 DEF Addresses, Pos
<1> QED BY <1>2, <1>3, <1>4, <1>5, <1>7 DEF LiveIn, q, m

\* yqueue_t::push linking a new chunk at the end moves no address.
LEMMA AppendChain ==
  ASSUME NEW ch, IsChain(ch), NEW x \in Chunks, x \notin ToSet(ch)
  PROVE  /\ IsChain(Append(ch, x)) /\ Len(Append(ch, x)) = Len(ch) + 1
         /\ ToSet(Append(ch, x)) = ToSet(ch) \cup {x}
         /\ Last(Append(ch, x)) = x /\ Head(Append(ch, x)) = Head(ch)
         /\ \A p : LiveIn(ch, p) => /\ LiveIn(Append(ch, x), p)
                                    /\ OffsetIn(Append(ch, x), p) = OffsetIn(ch, p)
         /\ \A o \in Offsets(ch) : Place(Append(ch, x), o) = Place(ch, o)
<1> DEFINE d == Append(ch, x)
<1>1. /\ d \in Seq(Chunks) /\ d # << >> /\ Len(d) = Len(ch) + 1 /\ Len(ch) \in Nat /\ Len(ch) > 0
      /\ \A i \in 1..Len(ch) : d[i] = ch[i]
      /\ d[Len(ch) + 1] = x
      /\ DOMAIN d = 1..(Len(ch) + 1) /\ DOMAIN ch = 1..Len(ch)
  BY DEF IsChain
<1>h. Head(d) = Head(ch) /\ Last(d) = x
  BY <1>1 DEF Last, IsChain
<1> HIDE DEF d
<1>2. \A i \in 1..Len(ch) : ch[i] # x BY <1>1 DEF ToSet
<1>3. \A i \in 1..Len(d) : i \in 1..Len(ch) \/ i = Len(ch) + 1 BY <1>1
<1>4. IsInjective(d) BY <1>1, <1>2, <1>3 DEF IsInjective, IsChain
<1>5. IsChain(d) BY <1>1, <1>4 DEF IsChain
<1>6. ToSet(d) = ToSet(ch) \cup {x} BY <1>1, <1>3 DEF ToSet
<1>7. ASSUME NEW p, LiveIn(ch, p) PROVE LiveIn(d, p) /\ OffsetIn(d, p) = OffsetIn(ch, p)
  <2>1. PICK i \in 1..Len(ch), k \in Pos : p = <<ch[i], k>> BY <1>7 DEF LiveIn
  <2>2. i \in 1..Len(d) /\ d[i] = ch[i] BY <1>1
  <2> QED BY <2>1, <2>2, <1>5, OffsetAt DEF LiveIn
<1>8. ASSUME NEW o \in Offsets(ch) PROVE Place(d, o) = Place(ch, o)
  BY <1>1, PlaceIsLive DEF Place
<1> QED BY <1>1, <1>h, <1>5, <1>6, <1>7, <1>8 DEF d

\* yqueue_t::pop unlinking the first chunk moves every other address one
\* chunk forward.
LEMMA TailChain ==
  ASSUME NEW ch, IsChain(ch), Len(ch) > 1
  PROVE  /\ IsChain(Tail(ch)) /\ Len(Tail(ch)) = Len(ch) - 1
         /\ Head(ch) \in Chunks
         /\ ToSet(Tail(ch)) = ToSet(ch) \ {Head(ch)}
         /\ Last(Tail(ch)) = Last(ch)
         /\ \A p : LiveIn(ch, p) /\ OffsetIn(ch, p) >= 2 * N =>
                  /\ LiveIn(Tail(ch), p)
                  /\ OffsetIn(Tail(ch), p) = OffsetIn(ch, p) - N
         /\ \A o \in Offsets(Tail(ch)) : o + N \in Offsets(ch) /\ Place(Tail(ch), o) = Place(ch, o + N)
<1> DEFINE d == Tail(ch)
<1>0. N \in Nat /\ N >= 2 BY YPipeAssumption
<1>1. /\ d \in Seq(Chunks) /\ d # << >> /\ Len(d) = Len(ch) - 1 /\ Len(ch) \in Nat /\ Len(ch) > 1
      /\ \A i \in 1..(Len(ch) - 1) : d[i] = ch[i + 1]
      /\ Head(ch) = ch[1] /\ ch[1] \in Chunks
      /\ DOMAIN d = 1..(Len(ch) - 1) /\ DOMAIN ch = 1..Len(ch)
  BY DEF IsChain
<1>h. Last(d) = Last(ch)
  BY <1>1 DEF Last
<1> HIDE DEF d
<1>3. \A i \in 1..Len(ch) : i = 1 \/ (i - 1 \in 1..Len(d) /\ ch[i] = d[i - 1]) BY <1>1
<1>4. IsInjective(d) BY <1>1, SMTT(30) DEF IsInjective, IsChain
<1>5. IsChain(d) BY <1>1, <1>4 DEF IsChain
<1>6. ToSet(d) = ToSet(ch) \ {Head(ch)}
  <2>1. \A i \in 1..Len(d) : d[i] # ch[1] BY <1>1 DEF IsInjective, IsChain
  <2>2. ToSet(d) \subseteq ToSet(ch)
    <3>1. \A i \in 1..Len(d) : i + 1 \in 1..Len(ch) BY <1>1
    <3>2. \A i \in 1..Len(d) : d[i] \in ToSet(ch) BY <1>1, <3>1 DEF ToSet
    <3> QED BY <1>1, <3>2 DEF ToSet
  <2>3. ch[1] \notin ToSet(d) BY <1>1, <2>1 DEF ToSet
  <2>4. \A i \in 1..Len(ch) : ch[i] = ch[1] \/ ch[i] \in ToSet(d) BY <1>1, <1>3 DEF ToSet
  <2>5. ASSUME NEW x \in ToSet(ch) PROVE x = ch[1] \/ x \in ToSet(d)
    <3>1. PICK i \in 1..Len(ch) : x = ch[i] BY <1>1 DEF ToSet
    <3> QED BY <2>4, <3>1
  <2> QED BY <1>1, <2>2, <2>3, <2>5
<1>7. ASSUME NEW p, LiveIn(ch, p), OffsetIn(ch, p) >= 2 * N
      PROVE  LiveIn(d, p) /\ OffsetIn(d, p) = OffsetIn(ch, p) - N
  <2>1. PICK i \in 1..Len(ch), k \in Pos : p = <<ch[i], k>> BY <1>7 DEF LiveIn
  <2>2. OffsetIn(ch, p) = i * N + k BY <2>1, OffsetAt
  <2>3. i # 1 BY <1>0, <1>7, <2>2 DEF Pos
  <2>4. i - 1 \in 1..Len(d) /\ ch[i] = d[i - 1] BY <1>3, <2>3
  <2>5. OffsetIn(d, p) = (i - 1) * N + k BY <2>1, <2>4, <1>5, OffsetAt
  <2>6. (i - 1) * N + k = i * N + k - N BY <1>0, <1>1 DEF Pos
  <2>7. LiveIn(d, p) BY <2>1, <2>4 DEF LiveIn
  <2> QED BY <1>0, <1>1, <2>2, <2>5, <2>6, <2>7 DEF Pos
<1>8. ASSUME NEW o \in Offsets(d) PROVE o + N \in Offsets(ch) /\ Place(d, o) = Place(ch, o + N)
  <2> DEFINE q == o \div N
             m == o % N
  <2>1. q \in 1..Len(d) /\ m \in Pos /\ o = q * N + m BY <1>5, PlaceIsLive
  <2>2. Place(d, o) = <<d[q], m>> BY DEF Place
  <2> HIDE DEF q, m
  <2>3. o + N = (q + 1) * N + m BY <2>1, <1>0, <1>1 DEF Pos
  <2>4. q + 1 \in 1..Len(ch) /\ d[q] = ch[q + 1] BY <1>1, <2>1
  <2>5. (o + N) \div N = q + 1 /\ (o + N) % N = m BY <2>1, <2>3, <2>4, <1>1, DivMod
  <2>6. o + N \in Offsets(ch) BY <2>1, <2>3, <2>4, <1>1, OffsetsOfChain
  <2> QED BY <2>2, <2>4, <2>5, <2>6 DEF Place
<1> QED BY <1>1, <1>h, <1>5, <1>6, <1>7, <1>8 DEF d

\* yqueue_t::unpush freeing the last chunk moves no address before it.
LEMMA FrontChain ==
  ASSUME NEW ch, IsChain(ch), Len(ch) > 1
  PROVE  /\ IsChain(Front(ch)) /\ Len(Front(ch)) = Len(ch) - 1
         /\ ToSet(Front(ch)) \subseteq ToSet(ch)
         /\ Last(Front(ch)) = ch[Len(ch) - 1] /\ Head(Front(ch)) = Head(ch)
         /\ \A p : LiveIn(ch, p) /\ OffsetIn(ch, p) < Len(ch) * N =>
                  /\ LiveIn(Front(ch), p)
                  /\ OffsetIn(Front(ch), p) = OffsetIn(ch, p)
         /\ \A o \in Offsets(Front(ch)) : o \in Offsets(ch) /\ Place(Front(ch), o) = Place(ch, o)
<1> DEFINE d == Front(ch)
<1>0. N \in Nat /\ N >= 2 BY YPipeAssumption
<1>1. /\ d \in Seq(Chunks) /\ d # << >> /\ Len(d) = Len(ch) - 1 /\ Len(ch) \in Nat /\ Len(ch) > 1
      /\ \A i \in 1..(Len(ch) - 1) : d[i] = ch[i]
      /\ DOMAIN d = 1..(Len(ch) - 1) /\ DOMAIN ch = 1..Len(ch)
  <2>1. ch \in Seq(Chunks) /\ Len(ch) \in Nat BY DEF IsChain
  <2>2. d = SubSeq(ch, 1, Len(ch) - 1) BY DEF Front
  <2> HIDE DEF d
  <2>3. /\ d \in Seq(Chunks) /\ Len(d) = Len(ch) - 1
        /\ \A i \in 1..(Len(ch) - 1) : d[i] = ch[i]
    BY <2>1, <2>2
  <2> QED BY <2>1, <2>3
<1>h. Last(d) = ch[Len(ch) - 1] /\ Head(d) = Head(ch)
  BY <1>1 DEF Last, IsChain
<1> HIDE DEF d
<1>4. IsInjective(d) BY <1>1 DEF IsInjective, IsChain
<1>5. IsChain(d) BY <1>1, <1>4 DEF IsChain
<1>6. ToSet(d) \subseteq ToSet(ch) BY <1>1 DEF ToSet
<1>7. ASSUME NEW p, LiveIn(ch, p), OffsetIn(ch, p) < Len(ch) * N
      PROVE  LiveIn(d, p) /\ OffsetIn(d, p) = OffsetIn(ch, p)
  <2>1. PICK i \in 1..Len(ch), k \in Pos : p = <<ch[i], k>> BY <1>7 DEF LiveIn
  <2>2. OffsetIn(ch, p) = i * N + k BY <2>1, OffsetAt
  <2>3. i # Len(ch)
    <3>1. Len(ch) * N \in Int BY <1>0, <1>1
    <3> QED BY <1>0, <1>7, <2>2, <3>1 DEF Pos
  <2>4. i \in 1..Len(d) /\ ch[i] = d[i] BY <1>1, <2>3
  <2>5. OffsetIn(d, p) = i * N + k BY <2>1, <2>4, <1>5, OffsetAt
  <2> QED BY <2>1, <2>2, <2>4, <2>5 DEF LiveIn
<1>8. ASSUME NEW o \in Offsets(d) PROVE o \in Offsets(ch) /\ Place(d, o) = Place(ch, o)
  <2> DEFINE q == o \div N
             m == o % N
  <2>1. q \in 1..Len(d) /\ m \in Pos /\ o = q * N + m BY <1>5, PlaceIsLive
  <2>2. Place(d, o) = <<d[q], m>> /\ Place(ch, o) = <<ch[q], m>> BY DEF Place
  <2> HIDE DEF q, m
  <2>4. q \in 1..Len(ch) /\ d[q] = ch[q] BY <1>1, <2>1
  <2>6. o \in Offsets(ch) BY <2>1, <2>4, <1>1, OffsetsOfChain
  <2> QED BY <2>2, <2>4, <2>6 DEF Place
<1> QED BY <1>1, <1>h, <1>5, <1>6, <1>7, <1>8 DEF d
-----------------------------------------------------------------------------
\* The chunks are linked in a chain, each once, and the spare one is not among them.
Memory ==
  /\ IsChain(chunks)
  /\ begin_pos \in Pos /\ end_pos \in Pos
  /\ spare = Null \/ (spare \in Chunks /\ spare \notin ToSet(chunks))
  /\ values \in [Addresses -> Items]

\* begin_pos, r, w, f and back follow each other, and c is w or null.
Pointers ==
  /\ LiveIn(chunks, back) /\ LiveIn(chunks, w) /\ LiveIn(chunks, f) /\ LiveIn(chunks, r)
  /\ Offset(back) = Len(chunks) * N + end_pos - 1
  /\ N + begin_pos <= Offset(r)
  /\ Offset(r) <= Offset(w)
  /\ Offset(w) <= Offset(f)
  /\ Offset(f) <= Offset(back)
  /\ c = w \/ c = Null

\* What each thread may rely on between its atomic operations: the reader has
\* something to read once it checked, the pipe the sleeping reader left is empty up
\* to w, and a writer that saw c null is the only one to change it.
Protocol ==
  /\ reader = "checked" => r # front
  /\ c = Null => reader = "asleep" /\ w = front
  /\ writer = "asleep seen" => c = Null /\ w # f
  /\ reader = "asleep" => c = Null \/ writer = "must wake"
  /\ reader = "asleep" => r = front
  /\ writer = "must wake" => reader = "asleep" /\ c # Null

IInv == Memory /\ Pointers /\ Protocol

\* Two addresses in the chain are equal exactly when their offsets are.
LEMMA SamePlace ==
  ASSUME NEW ch, IsChain(ch), NEW p, NEW q, LiveIn(ch, p), LiveIn(ch, q)
  PROVE  p = q <=> OffsetIn(ch, p) = OffsetIn(ch, q)
BY LivePlace

\* An address in the chain is not the null pointer that ypipe_t puts in c.
LEMMA LiveNotNull ==
  ASSUME NEW ch, NEW p, LiveIn(ch, p)
  PROVE  p # Null
<1>1. \A x, k : <<x, k>> # << >> OBVIOUS
<1> QED BY <1>1 DEF LiveIn, Null

\* Where yqueue_t::front () points.
LEMMA FrontPlace ==
  ASSUME NEW ch, IsChain(ch), NEW k \in Pos
  PROVE  /\ LiveIn(ch, <<Head(ch), k>>)
         /\ OffsetIn(ch, <<Head(ch), k>>) = N + k
<1>1. 1 \in 1..Len(ch) /\ Head(ch) = ch[1] BY DEF IsChain
<1>2. OffsetIn(ch, <<ch[1], k>>) = 1 * N + k BY <1>1, OffsetAt
<1>3. 1 * N = N BY YPipeAssumption
<1> QED BY <1>1, <1>2, <1>3 DEF LiveIn

\* Where yqueue_t::back () points: just before the end position, in the last
\* chunk or at the end of the one before.
LEMMA BackPlace ==
  ASSUME Memory, Pointers
  PROVE  /\ end_pos > 0 => back = <<Last(chunks), end_pos - 1>>
         /\ end_pos = 0 => Len(chunks) > 1 /\ back = <<chunks[Len(chunks) - 1], N - 1>>
<1>1. N \in Nat /\ N >= 2 BY YPipeAssumption
<1>2. IsChain(chunks) /\ Len(chunks) \in Nat /\ Len(chunks) > 0 BY DEF Memory, IsChain
<1>3. LiveIn(chunks, back) /\ OffsetIn(chunks, back) = Len(chunks) * N + end_pos - 1
  BY DEF Pointers, Offset, OffsetIn
<1>4. end_pos \in Pos BY DEF Memory
<1>5. ASSUME end_pos > 0 PROVE back = <<Last(chunks), end_pos - 1>>
  <2>1. end_pos - 1 \in Pos /\ Len(chunks) \in 1..Len(chunks) BY <1>1, <1>2, <1>4, <1>5 DEF Pos
  <2> DEFINE q == <<chunks[Len(chunks)], end_pos - 1>>
  <2>2. \A k \in Pos : LiveIn(chunks, <<chunks[Len(chunks)], k>>)
                       /\ OffsetIn(chunks, <<chunks[Len(chunks)], k>>) = Len(chunks) * N + k
    BY <1>2, <2>1, OffsetAt DEF LiveIn
  <2>3. LiveIn(chunks, q) /\ OffsetIn(chunks, q) = Len(chunks) * N + (end_pos - 1)
    BY <2>1, <2>2
  <2>4. OffsetIn(chunks, q) = OffsetIn(chunks, back)
    <3>1. Len(chunks) * N \in Int /\ end_pos \in Int BY <1>1, <1>2, <1>4 DEF Pos
    <3> QED BY <3>1, <2>3, <1>3
  <2> QED BY <1>2, <1>3, <2>3, <2>4, SamePlace DEF Last
<1>6. ASSUME end_pos = 0 PROVE Len(chunks) > 1 /\ back = <<chunks[Len(chunks) - 1], N - 1>>
  <2>1. OffsetIn(chunks, back) \in Offsets(chunks) BY <1>2, <1>3, LivePlace
  <2>2. Len(chunks) # 1
    <3>1. ASSUME Len(chunks) = 1 PROVE Len(chunks) * N = N BY <1>1, <3>1
    <3>2. Len(chunks) = 1 => OffsetIn(chunks, back) = N - 1 BY <1>1, <1>3, <1>6, <3>1
    <3> QED BY <1>1, <2>1, <3>2 DEF Offsets
  <2>9. Len(chunks) > 1
    <3>1. \A n \in Nat : n > 0 /\ n # 1 => n > 1 OBVIOUS
    <3> QED BY <1>2, <2>2, <3>1
  <2>3. N - 1 \in Pos /\ Len(chunks) - 1 \in 1..Len(chunks) BY <1>1, <1>2, <2>2 DEF Pos
  <2> DEFINE l == Len(chunks) - 1
             q == <<chunks[l], N - 1>>
  <2>4. \A k \in Pos : LiveIn(chunks, <<chunks[l], k>>)
                       /\ OffsetIn(chunks, <<chunks[l], k>>) = l * N + k
    BY <1>2, <2>3, OffsetAt DEF LiveIn
  <2>5. LiveIn(chunks, q) /\ OffsetIn(chunks, q) = l * N + (N - 1) BY <2>3, <2>4
  <2>6. l * N + (N - 1) = Len(chunks) * N - 1 BY <1>1, <1>2
  <2>7. OffsetIn(chunks, q) = OffsetIn(chunks, back)
    <3>1. Len(chunks) * N \in Int BY <1>1, <1>2
    <3> HIDE DEF q
    <3> QED BY <3>1, <2>5, <2>6, <1>3, <1>6
  <2>8. back = q
    <3> HIDE DEF q
    <3> QED BY <1>2, <1>3, <2>5, <2>7, SamePlace
  <2> QED BY <2>8, <2>9
<1> QED BY <1>5, <1>6

\* yqueue_t::push, with the spare chunk or with a new one: the chain stays
\* sound and nothing that was in it moves.
LEMMA PushLemma ==
  ASSUME Memory, Pointers, Push
  PROVE  /\ IsChain(chunks') /\ end_pos' \in Pos
         /\ spare' = Null \/ (spare' \in Chunks /\ spare' \notin ToSet(chunks'))
         /\ \A p : LiveIn(chunks, p) =>
                  LiveIn(chunks', p) /\ OffsetIn(chunks', p) = OffsetIn(chunks, p)
         /\ \A o \in Offsets(chunks) : o \in Offsets(chunks') /\ Place(chunks', o) = Place(chunks, o)
         /\ Head(chunks') = Head(chunks)
         /\ LiveIn(chunks', back')
         /\ OffsetIn(chunks', back') = OffsetIn(chunks, back) + 1
         /\ OffsetIn(chunks', back') = Len(chunks') * N + end_pos' - 1
<1>1. N \in Nat /\ N >= 2 /\ Null \notin Chunks BY YPipeAssumption DEF Null
<1>2. IsChain(chunks) /\ Len(chunks) \in Nat /\ Len(chunks) > 0 BY DEF Memory, IsChain
<1>3. OffsetIn(chunks, back) = Len(chunks) * N + end_pos - 1
  BY DEF Pointers, Offset, OffsetIn
<1>4. end_pos \in Pos BY DEF Memory
<1>5. Len(chunks) * N \in Int BY <1>1, <1>2
<1>6. back' = <<chunks[Len(chunks)], end_pos>> BY DEF Push, Last
<1>7. /\ LiveIn(chunks, back') /\ OffsetIn(chunks, back') = Len(chunks) * N + end_pos
  <2>1. Len(chunks) \in 1..Len(chunks) BY <1>2
  <2> QED BY <1>2, <1>4, <1>6, <2>1, OffsetAt DEF LiveIn
<1>8. CASE end_pos + 1 # N /\ end_pos' = end_pos + 1 /\ UNCHANGED <<chunks, spare>>
  <2>1. end_pos' \in Pos BY <1>1, <1>4, <1>8 DEF Pos
  <2>2. OffsetIn(chunks, back') = OffsetIn(chunks, back) + 1
    BY <1>3, <1>4, <1>5, <1>7 DEF Pos
  <2>3. OffsetIn(chunks, back') = Len(chunks) * N + end_pos' - 1
    BY <1>4, <1>5, <1>7, <1>8 DEF Pos
  <2> QED BY <1>2, <1>7, <1>8, <2>1, <2>2, <2>3 DEF Memory
<1>9. CASE /\ end_pos + 1 = N /\ end_pos' = 0 /\ spare' = Null
           /\ \E ch \in IF spare # Null THEN {spare} ELSE Chunks \ ToSet(chunks) :
                 chunks' = Append(chunks, ch)
  <2>1. PICK ch \in Chunks : ch \notin ToSet(chunks) /\ chunks' = Append(chunks, ch)
    BY <1>9 DEF Memory
  <2>2. end_pos' \in Pos BY <1>1, <1>9 DEF Pos
  <2>3. LiveIn(chunks', back') /\ OffsetIn(chunks', back') = OffsetIn(chunks, back')
    BY <1>2, <1>7, <2>1, AppendChain
  <2>4. Len(chunks') = Len(chunks) + 1 BY <1>2, <2>1, AppendChain
  <2>5. (Len(chunks) + 1) * N = Len(chunks) * N + N BY <1>1, <1>2
  <2>6. OffsetIn(chunks', back') = OffsetIn(chunks, back) + 1
    BY <1>3, <1>4, <1>5, <1>7, <2>3 DEF Pos
  <2>7. OffsetIn(chunks', back') = Len(chunks') * N + end_pos' - 1
    BY <1>1, <1>4, <1>5, <1>7, <1>9, <2>3, <2>4, <2>5 DEF Pos
  <2>8. \A o \in Offsets(chunks) : o \in Offsets(chunks')
    BY <1>1, <1>5, <2>4, <2>5 DEF Offsets
  <2> QED BY <1>2, <1>9, <2>1, <2>2, <2>3, <2>6, <2>7, <2>8, AppendChain
<1> QED BY <1>8, <1>9 DEF Push

\* yqueue_t::unpush: what lies before the value taken back stays where it
\* was.
LEMMA UnpushLemma ==
  ASSUME Memory, Pointers, f # back, Unpush
  PROVE  /\ IsChain(chunks') /\ end_pos' \in Pos
         /\ ToSet(chunks') \subseteq ToSet(chunks)
         /\ \A p : LiveIn(chunks, p) /\ OffsetIn(chunks, p) < OffsetIn(chunks, back) =>
                  LiveIn(chunks', p) /\ OffsetIn(chunks', p) = OffsetIn(chunks, p)
         /\ \A o \in Offsets(chunks) : o < OffsetIn(chunks, back) =>
                  o \in Offsets(chunks') /\ Place(chunks', o) = Place(chunks, o)
         /\ Head(chunks') = Head(chunks)
         /\ LiveIn(chunks', back')
         /\ OffsetIn(chunks', back') = OffsetIn(chunks, back) - 1
         /\ OffsetIn(chunks', back') = Len(chunks') * N + end_pos' - 1
<1>1. N \in Nat /\ N >= 2 BY YPipeAssumption
<1>2. IsChain(chunks) /\ Len(chunks) \in Nat /\ Len(chunks) > 0 BY DEF Memory, IsChain
<1>3. /\ OffsetIn(chunks, back) = Len(chunks) * N + end_pos - 1
      /\ OffsetIn(chunks, f) <= OffsetIn(chunks, back)
      /\ LiveIn(chunks, back) /\ LiveIn(chunks, f)
  BY DEF Pointers, Offset, OffsetIn
<1>4. end_pos \in Pos BY DEF Memory
<1>5. Len(chunks) * N \in Int BY <1>1, <1>2
<1>6. N < OffsetIn(chunks, back)
  <2>1. OffsetIn(chunks, f) # OffsetIn(chunks, back) BY <1>2, <1>3, SamePlace
  <2>2. OffsetIn(chunks, f) \in Offsets(chunks) /\ OffsetIn(chunks, back) \in Offsets(chunks)
    BY <1>2, <1>3, LivePlace
  <2> QED BY <1>1, <1>3, <1>5, <2>1, <2>2 DEF Offsets
<1>7. \A i \in 1..Len(chunks), k \in Pos :
         LiveIn(chunks, <<chunks[i], k>>) /\ OffsetIn(chunks, <<chunks[i], k>>) = i * N + k
  BY <1>2, OffsetAt DEF LiveIn
<1>8. CASE end_pos > 1
  <2>1. back = <<chunks[Len(chunks)], end_pos - 1>> BY <1>8, <1>4, BackPlace DEF Last, Pos
  <2>2. back[2] > 0 /\ back[1] = chunks[Len(chunks)] /\ back[2] = end_pos - 1
    BY <1>4, <1>8, <2>1 DEF Pos
  <2>3. back' = <<chunks[Len(chunks)], end_pos - 2>> BY <1>4, <2>2 DEF Unpush, Pos
  <2>4. end_pos - 2 \in Pos /\ Len(chunks) \in 1..Len(chunks) BY <1>1, <1>2, <1>4, <1>8 DEF Pos
  <2>5. LiveIn(chunks, back') /\ OffsetIn(chunks, back') = Len(chunks) * N + (end_pos - 2)
    BY <2>3, <2>4, <1>7
  <2>6. end_pos' = end_pos - 1 /\ chunks' = chunks BY <1>4, <1>8 DEF Unpush, Pos
  <2>7. end_pos' \in Pos BY <1>1, <1>4, <1>8, <2>6 DEF Pos
  <2>8. /\ OffsetIn(chunks', back') = OffsetIn(chunks, back) - 1
        /\ OffsetIn(chunks', back') = Len(chunks') * N + end_pos' - 1
    BY <1>3, <1>4, <1>5, <2>5, <2>6 DEF Pos
  <2> QED BY <1>2, <2>5, <2>6, <2>7, <2>8
<1>9. CASE end_pos = 1
  <2>1. back = <<chunks[Len(chunks)], 0>> BY <1>9, BackPlace DEF Last
  <2>2. Len(chunks) > 1
    <3>1. ASSUME Len(chunks) = 1 PROVE Len(chunks) * N = N BY <1>1, <3>1
    <3> QED BY <1>1, <1>2, <1>3, <1>6, <1>9, <3>1
  <2>3. back' = <<chunks[Len(chunks) - 1], N - 1>> BY <2>1 DEF Unpush
  <2>4. N - 1 \in Pos /\ Len(chunks) - 1 \in 1..Len(chunks) BY <1>1, <1>2, <2>2 DEF Pos
  <2>5. LiveIn(chunks, back') /\ OffsetIn(chunks, back') = (Len(chunks) - 1) * N + (N - 1)
    BY <2>3, <2>4, <1>7
  <2>6. end_pos' = 0 /\ chunks' = chunks BY <1>9 DEF Unpush
  <2>7. end_pos' \in Pos BY <1>1, <2>6 DEF Pos
  <2>8. (Len(chunks) - 1) * N = Len(chunks) * N - N BY <1>1, <1>2
  <2>9. /\ OffsetIn(chunks', back') = OffsetIn(chunks, back) - 1
        /\ OffsetIn(chunks', back') = Len(chunks') * N + end_pos' - 1
    BY <1>1, <1>3, <1>5, <1>9, <2>5, <2>6, <2>8
  <2> QED BY <1>2, <2>5, <2>6, <2>7, <2>9
<1>10. CASE end_pos = 0
  <2>1. Len(chunks) > 1 /\ back = <<chunks[Len(chunks) - 1], N - 1>> BY <1>10, BackPlace
  <2>2. back' = <<chunks[Len(chunks) - 1], N - 2>> BY <1>1, <2>1 DEF Unpush
  <2>4. N - 2 \in Pos /\ Len(chunks) - 1 \in 1..Len(chunks) BY <1>1, <1>2, <2>1 DEF Pos
  <2>5. LiveIn(chunks, back') /\ OffsetIn(chunks, back') = (Len(chunks) - 1) * N + (N - 2)
    BY <2>2, <2>4, <1>7
  <2>6. end_pos' = N - 1 /\ chunks' = Front(chunks) BY <1>10 DEF Unpush
  <2>7. end_pos' \in Pos BY <1>1, <2>6 DEF Pos
  <2>8. (Len(chunks) - 1) * N = Len(chunks) * N - N BY <1>1, <1>2
  <2>9. IsChain(chunks') /\ Len(chunks') = Len(chunks) - 1 BY <1>2, <2>1, <2>6, FrontChain
  <2>10. OffsetIn(chunks, back') < Len(chunks) * N BY <1>1, <1>5, <2>5, <2>8
  <2>11. LiveIn(chunks', back') /\ OffsetIn(chunks', back') = OffsetIn(chunks, back')
    BY <1>2, <2>1, <2>5, <2>6, <2>10, FrontChain
  <2>12. /\ OffsetIn(chunks', back') = OffsetIn(chunks, back) - 1
         /\ OffsetIn(chunks', back') = Len(chunks') * N + end_pos' - 1
    BY <1>1, <1>3, <1>5, <1>10, <2>5, <2>6, <2>8, <2>9, <2>11
  <2>13. OffsetIn(chunks, back) = Len(chunks) * N - 1 BY <1>3, <1>5, <1>10
  <2>14. ASSUME NEW p, LiveIn(chunks, p), OffsetIn(chunks, p) < OffsetIn(chunks, back)
         PROVE  LiveIn(chunks', p) /\ OffsetIn(chunks', p) = OffsetIn(chunks, p)
    <3>1. OffsetIn(chunks, p) \in Int BY <1>1, <1>2, <2>14, LivePlace DEF Offsets
    <3>2. OffsetIn(chunks, p) < Len(chunks) * N BY <1>5, <2>13, <2>14, <3>1
    <3> QED BY <1>2, <2>1, <2>6, <2>14, <3>2, FrontChain
  <2>15. ASSUME NEW o \in Offsets(chunks), o < OffsetIn(chunks, back)
         PROVE  o \in Offsets(chunks') /\ Place(chunks', o) = Place(chunks, o)
    <3>1. o \in Offsets(chunks')
      BY <1>1, <1>5, <2>8, <2>9, <2>13, <2>15 DEF Offsets
    <3> QED BY <1>2, <2>1, <2>6, <3>1, FrontChain
  <2> QED BY <1>2, <2>1, <2>6, <2>7, <2>9, <2>11, <2>12, <2>14, <2>15, FrontChain
<1> QED BY <1>4, <1>8, <1>9, <1>10 DEF Pos

\* yqueue_t::pop, while the reader has not caught up with r: no pointer of
\* the pipe lies in the chunk it lets go of.
LEMMA PopLemma ==
  ASSUME Memory, Pointers, r # front, Pop, UNCHANGED <<back, end_pos, w, f, r>>
  PROVE  /\ IsChain(chunks') /\ begin_pos' \in Pos
         /\ spare' = Null \/ (spare' \in Chunks /\ spare' \notin ToSet(chunks'))
         /\ \E d \in {0, N} :
               /\ \A p \in {r, w, f, back} :
                     LiveIn(chunks', p) /\ OffsetIn(chunks', p) = OffsetIn(chunks, p) - d
               /\ begin_pos' = begin_pos + 1 - d
               /\ Len(chunks') * N = Len(chunks) * N - d
               /\ \A o \in Offsets(chunks') :
                     o + d \in Offsets(chunks) /\ Place(chunks', o) = Place(chunks, o + d)
<1>1. N \in Nat /\ N >= 2 BY YPipeAssumption
<1>2. IsChain(chunks) /\ Len(chunks) \in Nat /\ Len(chunks) > 0 BY DEF Memory, IsChain
<1>3. /\ \A p \in {r, w, f, back} : LiveIn(chunks, p) /\ OffsetIn(chunks, p) >= OffsetIn(chunks, r)
      /\ N + begin_pos <= OffsetIn(chunks, r)
  <2>1. \A p \in {r, w, f, back} : LiveIn(chunks, p) BY DEF Pointers
  <2>2. \A p \in {r, w, f, back} : OffsetIn(chunks, p) \in Offsets(chunks) BY <2>1, <1>2, LivePlace
  <2>3. \A p \in {r, w, f, back} : OffsetIn(chunks, p) \in Int
    <3>1. Len(chunks) * N \in Int BY <1>1, <1>2
    <3> QED BY <2>2, <1>1, <3>1 DEF Offsets
  <2>4. /\ N + begin_pos <= OffsetIn(chunks, r)
        /\ OffsetIn(chunks, r) <= OffsetIn(chunks, w)
        /\ OffsetIn(chunks, w) <= OffsetIn(chunks, f)
        /\ OffsetIn(chunks, f) <= OffsetIn(chunks, back)
    BY DEF Pointers, Offset, OffsetIn
  <2> QED BY <2>1, <2>3, <2>4
<1>4. begin_pos \in Pos BY DEF Memory
<1>5. Len(chunks) * N \in Int BY <1>1, <1>2
<1>6. N + begin_pos < OffsetIn(chunks, r) /\ OffsetIn(chunks, r) \in Offsets(chunks)
  <2>1. LiveIn(chunks, front) /\ OffsetIn(chunks, front) = N + begin_pos
    BY <1>2, <1>4, FrontPlace DEF front
  <2>2. OffsetIn(chunks, r) # N + begin_pos BY <1>2, <1>3, <2>1, SamePlace
  <2>3. OffsetIn(chunks, r) \in Offsets(chunks) BY <1>2, <1>3, LivePlace
  <2> QED BY <1>1, <1>3, <1>4, <1>5, <2>2, <2>3 DEF Offsets, Pos
<1>7. CASE begin_pos + 1 < N
  <2>1. begin_pos' = begin_pos + 1 /\ chunks' = chunks /\ spare' = spare BY <1>7 DEF Pop
  <2>2. begin_pos' \in Pos BY <1>1, <1>4, <1>7, <2>1 DEF Pos
  <2>3. \A o \in Offsets(chunks) : o + 0 = o BY <1>1, <1>5 DEF Offsets
  <2>4. \A p \in {r, w, f, back} : OffsetIn(chunks, p) - 0 = OffsetIn(chunks, p)
    <3>1. \A p \in {r, w, f, back} : OffsetIn(chunks, p) \in Offsets(chunks) BY <1>2, <1>3, LivePlace
    <3> QED BY <1>1, <1>5, <3>1 DEF Offsets
  <2>5. begin_pos + 1 - 0 = begin_pos + 1 /\ Len(chunks) * N - 0 = Len(chunks) * N BY <1>4, <1>5 DEF Pos
  <2> QED BY <1>2, <1>3, <2>1, <2>2, <2>3, <2>4, <2>5 DEF Memory
<1>8. CASE ~(begin_pos + 1 < N)
  <2>1. begin_pos' = 0 /\ chunks' = Tail(chunks) /\ spare' = Head(chunks) BY <1>8 DEF Pop
  <2>2. begin_pos = N - 1 BY <1>1, <1>4, <1>8 DEF Pos
  <2>3. \A p \in {r, w, f, back} : OffsetIn(chunks, p) >= 2 * N
    <3>1. \A p \in {r, w, f, back} : OffsetIn(chunks, p) \in Offsets(chunks) BY <1>2, <1>3, LivePlace
    <3>2. \A p \in {r, w, f, back} : OffsetIn(chunks, p) \in Int BY <3>1, <1>1, <1>5 DEF Offsets
    <3>3. OffsetIn(chunks, r) >= 2 * N BY <1>1, <1>6, <2>2, <3>2
    <3> QED BY <1>1, <1>3, <3>2, <3>3
  <2>4. Len(chunks) > 1
    <3>1. ASSUME Len(chunks) = 1 PROVE Len(chunks) * N = N BY <1>1, <3>1
    <3> QED BY <1>1, <1>2, <1>6, <2>3, <3>1 DEF Offsets
  <2>5. \A p \in {r, w, f, back} : LiveIn(chunks', p) /\ OffsetIn(chunks', p) = OffsetIn(chunks, p) - N
    BY <1>2, <1>3, <2>1, <2>3, <2>4, TailChain
  <2>6. Len(chunks') * N = Len(chunks) * N - N
    <3>1. (Len(chunks) - 1) * N = Len(chunks) * N - N BY <1>1, <1>2
    <3> QED BY <1>2, <2>1, <2>4, <3>1, TailChain
  <2>7. begin_pos' \in Pos /\ begin_pos' = begin_pos + 1 - N BY <1>1, <2>1, <2>2 DEF Pos
  <2>8. spare' \in Chunks /\ spare' \notin ToSet(chunks') BY <1>2, <2>1, <2>4, TailChain
  <2>9. IsChain(chunks') /\ \A o \in Offsets(chunks') :
                     o + N \in Offsets(chunks) /\ Place(chunks', o) = Place(chunks, o + N)
    BY <1>2, <2>1, <2>4, TailChain
  <2> QED BY <2>5, <2>6, <2>7, <2>8, <2>9
<1> QED BY <1>7, <1>8
-----------------------------------------------------------------------------
\* The pipe as ypipe_t::ypipe_t leaves it.
LEMMA InitIInv == Init => IInv
<1> SUFFICES ASSUME Init PROVE IInv OBVIOUS
<1>1. N \in Nat /\ N >= 2 BY YPipeAssumption
<1>2. PICK ch \in Chunks : chunks = <<ch>> BY DEF Init
<1>3. IsChain(chunks) /\ Len(chunks) = 1 BY <1>2 DEF IsChain, IsInjective
<1>4. 0 \in Pos /\ 1 \in Pos BY <1>1 DEF Pos
<1>5. back = front /\ begin_pos = 0 /\ end_pos = 1 BY DEF Init, front
<1>6. LiveIn(chunks, back) /\ OffsetIn(chunks, back) = N + 0 BY <1>3, <1>4, <1>5, FrontPlace DEF front
<1>7. Memory BY <1>3, <1>4 DEF Memory, Init
<1>8. Offset(back) = N BY <1>1, <1>6 DEF Offset, OffsetIn
<1>9. 1 * N = N BY <1>1
<1>10. Pointers BY <1>1, <1>3, <1>5, <1>6, <1>8, <1>9 DEF Pointers, Init
<1>11. c # Null BY <1>6, LiveNotNull DEF Init
<1>12. Protocol BY <1>11 DEF Protocol, Init
<1> QED BY <1>7, <1>10, <1>12 DEF IInv

\* The pointers of Pointers, without the indirection through Offset.
LEMMA PointersExpanded ==
  ASSUME Memory, Pointers
  PROVE  /\ IsChain(chunks) /\ N \in Nat /\ N >= 2
         /\ LiveIn(chunks, front) /\ OffsetIn(chunks, front) = N + begin_pos
         /\ \A p \in {r, w, f, back} : LiveIn(chunks, p) /\ OffsetIn(chunks, p) \in Int
         /\ OffsetIn(chunks, back) = Len(chunks) * N + end_pos - 1
         /\ N + begin_pos <= OffsetIn(chunks, r)
         /\ OffsetIn(chunks, r) <= OffsetIn(chunks, w)
         /\ OffsetIn(chunks, w) <= OffsetIn(chunks, f)
         /\ OffsetIn(chunks, f) <= OffsetIn(chunks, back)
         /\ begin_pos \in Int
<1>1. IsChain(chunks) /\ N \in Nat /\ N >= 2 BY YPipeAssumption DEF Memory
<1>2. LiveIn(chunks, front) /\ OffsetIn(chunks, front) = N + begin_pos
  BY <1>1, FrontPlace DEF Memory, front
<1>3. \A p \in {r, w, f, back} : LiveIn(chunks, p) /\ OffsetIn(chunks, p) \in Int
  <2>1. \A p \in {r, w, f, back} : LiveIn(chunks, p) BY DEF Pointers
  <2>2. Len(chunks) * N \in Int BY <1>1 DEF IsChain
  <2> QED BY <1>1, <2>1, <2>2, LivePlace DEF Offsets
<1> QED BY <1>1, <1>2, <1>3 DEF Pointers, Offset, OffsetIn, Memory, Pos

\* ypipe_t::write preserves the invariant, whether the value completes a
\* message or not.
LEMMA WriteIInv ==
  ASSUME IInv, NEW v \in Items, NEW incomplete \in BOOLEAN, Write(v, incomplete)
  PROVE  IInv'
<1> USE DEF IInv
<1>1. Push /\ UNCHANGED <<begin_pos, w, r, c, writer, reader>>
      /\ f' = (IF incomplete THEN f ELSE back')
      /\ values' = [values EXCEPT ![back] = v]
  BY DEF Write
<1>2. Memory' BY <1>1, PushLemma DEF Memory
<1>3. /\ \A p \in {r, w, f} : LiveIn(chunks', p) /\ OffsetIn(chunks', p) = OffsetIn(chunks, p)
      /\ LiveIn(chunks', back') /\ OffsetIn(chunks', back') = OffsetIn(chunks, back) + 1
      /\ OffsetIn(chunks', back') = Len(chunks') * N + end_pos' - 1
  BY <1>1, PushLemma, PointersExpanded
<1>4. LiveIn(chunks', f') /\ OffsetIn(chunks', w') <= OffsetIn(chunks', f')
        /\ OffsetIn(chunks', f') <= OffsetIn(chunks', back')
  BY <1>1, <1>3, PointersExpanded
<1>5. Pointers'
  BY <1>1, <1>3, <1>4, PointersExpanded DEF Pointers, Offset, OffsetIn
<1>6. front' = front BY <1>1, PushLemma DEF front
<1>7. Protocol' 
  <2>1. writer = "ready" BY DEF Write
  <2> QED BY <1>1, <1>6, <2>1 DEF Protocol
<1> QED BY <1>2, <1>5, <1>7

\* ypipe_t::unwrite preserves the invariant: it never passes f, so never what
\* flush may publish.
LEMMA UnwriteIInv ==
  ASSUME IInv, Unwrite
  PROVE  IInv'
<1> USE DEF IInv
<1>1. Unpush /\ UNCHANGED <<begin_pos, spare, values, w, f, r, c, writer, reader>> /\ f # back
      /\ writer = "ready"
  BY DEF Unwrite
<1>2. Memory' BY <1>1, UnpushLemma DEF Memory
<1>3. OffsetIn(chunks, f) # OffsetIn(chunks, back) BY <1>1, SamePlace, PointersExpanded
<1>4. \A p \in {r, w, f} : OffsetIn(chunks, p) < OffsetIn(chunks, back)
  BY <1>3, PointersExpanded
<1>5. /\ \A p \in {r, w, f} : LiveIn(chunks', p) /\ OffsetIn(chunks', p) = OffsetIn(chunks, p)
      /\ LiveIn(chunks', back') /\ OffsetIn(chunks', back') = OffsetIn(chunks, back) - 1
      /\ OffsetIn(chunks', back') = Len(chunks') * N + end_pos' - 1
  BY <1>1, <1>4, UnpushLemma, PointersExpanded
<1>6. OffsetIn(chunks', f) <= OffsetIn(chunks', back') BY <1>4, <1>5, PointersExpanded
<1>7. Pointers'
  BY <1>1, <1>5, <1>6, PointersExpanded DEF Pointers, Offset, OffsetIn
<1>8. front' = front BY <1>1, UnpushLemma DEF front
<1>9. Protocol' BY <1>1, <1>8 DEF Protocol
<1> QED BY <1>2, <1>7, <1>9

\* ypipe_t::read preserves the invariant: it never passes what check_read has
\* prefetched.
LEMMA ReadIInv ==
  ASSUME IInv, Read
  PROVE  IInv'
<1> USE DEF IInv
<1>1. /\ Pop /\ UNCHANGED <<back, end_pos, values, w, f, r, c, writer>>
      /\ reader = "checked" /\ reader' = "awake" /\ r # front
  BY DEF Read, Protocol
<1>2. Memory' BY <1>1, PopLemma DEF Memory
<1>3. OffsetIn(chunks, r) # N + begin_pos BY <1>1, SamePlace, PointersExpanded
<1>4. PICK d \in {0, N} :
               /\ \A p \in {r, w, f, back} :
                     LiveIn(chunks', p) /\ OffsetIn(chunks', p) = OffsetIn(chunks, p) - d
               /\ begin_pos' = begin_pos + 1 - d
               /\ Len(chunks') * N = Len(chunks) * N - d
  BY <1>1, PopLemma
<1>5. d \in Int BY PointersExpanded
<1>6. /\ OffsetIn(chunks', back) = Len(chunks') * N + end_pos - 1
      /\ N + begin_pos' <= OffsetIn(chunks', r)
      /\ OffsetIn(chunks', r) <= OffsetIn(chunks', w)
      /\ OffsetIn(chunks', w) <= OffsetIn(chunks', f)
      /\ OffsetIn(chunks', f) <= OffsetIn(chunks', back)
  <2>1. Len(chunks) * N \in Int /\ end_pos \in Int BY PointersExpanded DEF Memory, IsChain, Pos
  <2>2. /\ OffsetIn(chunks', r) = OffsetIn(chunks, r) - d
        /\ OffsetIn(chunks', w) = OffsetIn(chunks, w) - d
        /\ OffsetIn(chunks', f) = OffsetIn(chunks, f) - d
        /\ OffsetIn(chunks', back) = OffsetIn(chunks, back) - d
    BY <1>4
  <2>3. /\ OffsetIn(chunks, r) \in Int /\ OffsetIn(chunks, w) \in Int
        /\ OffsetIn(chunks, f) \in Int /\ OffsetIn(chunks, back) \in Int
    BY PointersExpanded
  <2>4. OffsetIn(chunks', back) = Len(chunks') * N + end_pos - 1
    BY <2>1, <2>2, <2>3, <1>4, <1>5, PointersExpanded, SMTT(30)
  <2>5. N + begin_pos' <= OffsetIn(chunks', r)
    <3>1. N + begin_pos <= OffsetIn(chunks, r) /\ N \in Int /\ begin_pos \in Int BY PointersExpanded
    <3>2. begin_pos' = begin_pos + 1 - d BY <1>4
    <3> QED BY <1>3, <1>5, <2>2, <2>3, <3>1, <3>2
  <2>6. /\ OffsetIn(chunks, r) <= OffsetIn(chunks, w)
        /\ OffsetIn(chunks, w) <= OffsetIn(chunks, f)
        /\ OffsetIn(chunks, f) <= OffsetIn(chunks, back)
    BY PointersExpanded
  <2> QED BY <2>2, <2>3, <2>4, <2>5, <2>6, <1>5
<1>7. Pointers' BY <1>1, <1>4, <1>6 DEF Pointers, Offset, OffsetIn
<1>8. Protocol' BY <1>1 DEF Protocol
<1> QED BY <1>2, <1>7, <1>8

\* Every step of the writer and of the reader preserves the invariant.
LEMMA NextIInv == IInv /\ [Next]_vars => IInv'
<1> SUFFICES ASSUME IInv, [Next]_vars PROVE IInv' OBVIOUS
<1> USE DEF IInv
<1>a. ASSUME UNCHANGED queueVars PROVE Memory' /\ front' = front
  BY <1>a DEF Memory, queueVars, front
<1>b. ASSUME UNCHANGED queueVars, UNCHANGED r,
             w' \in {w, f}, f' = f, c' \in {w', Null}
      PROVE  Pointers'
  <2>1. UNCHANGED <<chunks, begin_pos, back, end_pos>> BY <1>b DEF queueVars
  <2>2. /\ LiveIn(chunks, w') /\ OffsetIn(chunks, r) <= OffsetIn(chunks, w')
        /\ OffsetIn(chunks, w') <= OffsetIn(chunks, f)
    BY <1>b, PointersExpanded
  <2> QED BY <1>b, <2>1, <2>2, PointersExpanded DEF Pointers, Offset, OffsetIn
<1>1. CASE \E v \in Items, incomplete \in BOOLEAN : Write(v, incomplete)
  BY <1>1, WriteIInv
<1>2. CASE Unwrite BY <1>2, UnwriteIInv
<1>3. CASE Flush
  <2>1. UNCHANGED <<queueVars, f, r, reader>> BY <1>3 DEF Flush
  <2>2. /\ writer = "ready" /\ w # f
        /\ IF c = w THEN c' = f /\ w' = f /\ UNCHANGED writer
                    ELSE writer' = "asleep seen" /\ UNCHANGED <<c, w>>
    BY <1>3 DEF Flush
  <2>3. Memory' /\ front' = front BY <1>a, <2>1
  <2>4. Pointers' BY <1>b, <2>1, <2>2 DEF Pointers
  <2>5. w # Null /\ f # Null BY LiveNotNull DEF Pointers
  <2>6. Protocol' BY <2>1, <2>2, <2>3, <2>5 DEF Protocol, Pointers
  <2> QED BY <2>3, <2>4, <2>6
<1>4. CASE FlushAsleep
  <2>1. UNCHANGED <<queueVars, f, r, reader>> BY <1>4 DEF FlushAsleep
  <2>2. writer = "asleep seen" /\ c' = f /\ w' = f /\ writer' = "must wake"
    BY <1>4 DEF FlushAsleep
  <2>3. Memory' /\ front' = front BY <1>a, <2>1
  <2>4. Pointers' BY <1>b, <2>1, <2>2 DEF Pointers
  <2>5. f # Null BY LiveNotNull DEF Pointers
  <2>6. Protocol' BY <2>1, <2>2, <2>3, <2>5 DEF Protocol
  <2> QED BY <2>3, <2>4, <2>6
<1>5. CASE Wake
  <2>1. UNCHANGED <<queueVars, w, f, r, c>> BY <1>5 DEF Wake
  <2>2. writer = "must wake" /\ writer' = "ready" /\ reader' = "awake" BY <1>5 DEF Wake
  <2>3. Memory' /\ front' = front BY <1>a, <2>1
  <2>4. Pointers' BY <1>b, <2>1, <2>2 DEF Pointers
  <2>6. Protocol' BY <2>1, <2>2, <2>3 DEF Protocol
  <2> QED BY <2>3, <2>4, <2>6
<1>6. CASE CheckRead
  <2>1. UNCHANGED <<queueVars, w, f, writer>> BY <1>6 DEF CheckRead
  <2>3. Memory' /\ front' = front BY <1>a, <2>1
  <2>5. w # Null /\ r # Null BY LiveNotNull DEF Pointers
  <2>6. c = w BY <1>6 DEF CheckRead, Protocol, Pointers
  <2>7. CASE front # r
    <3>1. reader' = "checked" /\ UNCHANGED <<r, c>> BY <1>6, <2>5, <2>7 DEF CheckRead
    <3>2. Pointers' BY <1>b, <2>1, <3>1 DEF Pointers
    <3>3. Protocol' BY <1>6, <2>1, <2>3, <2>7, <3>1 DEF Protocol, CheckRead
    <3> QED BY <2>3, <3>2, <3>3
  <2>8. CASE front = r
    <3>1. /\ r' = w /\ c' = (IF w = front THEN Null ELSE w)
          /\ reader' = (IF w = front THEN "asleep" ELSE "checked")
          /\ reader = "awake"
      BY <1>6, <2>5, <2>6, <2>8 DEF CheckRead
    <3>2. Pointers' BY <2>1, <3>1, PointersExpanded DEF Pointers, queueVars, Offset, OffsetIn
    <3>3. Protocol' BY <2>1, <2>3, <2>5, <3>1 DEF Protocol
    <3> QED BY <2>3, <3>2, <3>3
  <2> QED BY <2>7, <2>8
<1>7. CASE Read BY <1>7, ReadIInv
<1>8. CASE UNCHANGED vars
  BY <1>8 DEF vars, queueVars, Memory, Pointers, Protocol, Offset, front
<1> QED BY <1>1, <1>2, <1>3, <1>4, <1>5, <1>6, <1>7, <1>8 DEF Next

\* In every reachable state, for every chunk size: the chain of chunks is
\* sound (Memory), front, r, w, f and back lie in it in this order
\* (Pointers), and c and the two threads agree on who is asleep (Protocol).
THEOREM YPipeInvariant == Spec => []IInv
BY InitIInv, NextIInv, PTL DEF Spec

\* The five pointers of ypipe_t stand in allocated chunks.
LEMMA IInvPointersLive == IInv => PointersLive
<1> SUFFICES ASSUME Memory, Pointers PROVE PointersLive BY DEF IInv
<1>1. IsInjective(chunks) BY DEF Memory, IsChain
<1>2. spare \notin ToSet(chunks)
  <2>1. Null \notin Chunks BY YPipeAssumption DEF Null
  <2>2. ToSet(chunks) \subseteq Chunks BY DEF Memory, IsChain, ToSet
  <2> QED BY <2>1, <2>2 DEF Memory
<1>3. back = IF end_pos > 0 THEN <<Last(chunks), end_pos - 1>>
             ELSE <<chunks[Len(chunks) - 1], N - 1>>
  BY BackPlace DEF Memory, Pos
<1>4. ASSUME NEW p \in {w, f, r}
      PROVE  /\ p[1] \in ToSet(chunks)
             /\ Offset(front) <= Offset(p) /\ Offset(p) <= Offset(back)
  <2>1. PICK i \in 1..Len(chunks), k \in Pos : p = <<chunks[i], k>>
    BY PointersExpanded DEF LiveIn
  <2>2. p[1] \in ToSet(chunks) BY <2>1 DEF ToSet, Memory, IsChain
  <2>3. OffsetIn(chunks, front) <= OffsetIn(chunks, p) /\ OffsetIn(chunks, p) <= OffsetIn(chunks, back)
    BY PointersExpanded
  <2> QED BY <2>2, <2>3 DEF Offset, OffsetIn
<1>5. {w, f, r, c} \ {Null} \subseteq {w, f, r} BY DEF Pointers
<1> QED BY <1>1, <1>2, <1>3, <1>4, <1>5 DEF PointersLive

\* ypipe_t and yqueue_t never follow a pointer into a chunk that has been
\* freed or handed over as the spare one, whatever the chunk size.
THEOREM YPipePointersLive == Spec => []PointersLive
BY YPipeInvariant, IInvPointersLive, PTL

\* A reader that ypipe_t::check_read sent to sleep is never forgotten: c is still
\* null, so that the next ypipe_t::flush finds it asleep, or a flush has found it so
\* and its wake-up call is still to come.
THEOREM YPipeNoLostWakeup == Spec => []NoLostWakeup
<1>1. IInv => NoLostWakeup BY DEF IInv, Protocol, NoLostWakeup
<1> QED BY YPipeInvariant, <1>1, PTL
-----------------------------------------------------------------------------
Slice(ch, vals, x, y) == [i \in 1..(y - x) |-> vals[Place(ch, x + i - 1)]]

\* what it takes for the places from x to y to hold items
Holds(ch, vals, x, y) ==
  /\ x \in Int /\ y \in Int /\ x <= y
  /\ \A o \in x..(y - 1) : vals[Place(ch, o)] \in Items

\* What the queue holds between two offsets, as a sequence.
LEMMA SliceSeq ==
  ASSUME NEW ch, NEW vals, NEW x, NEW y, Holds(ch, vals, x, y)
  PROVE  /\ Slice(ch, vals, x, y) \in Seq(Items)
         /\ Len(Slice(ch, vals, x, y)) = y - x
         /\ \A i \in 1..(y - x) : Slice(ch, vals, x, y)[i] = vals[Place(ch, x + i - 1)]
<1>1. y - x \in Nat BY DEF Holds
<1>2. \A i \in 1..(y - x) : x + i - 1 \in x..(y - 1) BY DEF Holds
<1>3. \A i \in 1..(y - x) : vals[Place(ch, x + i - 1)] \in Items BY <1>2 DEF Holds
<1> QED BY <1>1, <1>3 DEF Slice

\* Concatenation, position by position.
LEMMA Concatenation ==
  ASSUME NEW S, NEW s \in Seq(S), NEW t \in Seq(S)
  PROVE  /\ s \o t \in Seq(S) /\ Len(s \o t) = Len(s) + Len(t)
         /\ \A i \in 1..(Len(s) + Len(t)) :
               (s \o t)[i] = IF i <= Len(s) THEN s[i] ELSE t[i - Len(s)]
OBVIOUS

\* Sequences with the same elements are equal.
LEMMA EqualSeqs ==
  ASSUME NEW S, NEW s \in Seq(S), NEW t \in Seq(S), Len(s) = Len(t),
         \A i \in 1..Len(s) : s[i] = t[i]
  PROVE  s = t
OBVIOUS

\* What lies between x and z is what lies between x and y, then between y and
\* z.
LEMMA SliceCat ==
  ASSUME NEW ch, NEW vals, NEW x, NEW y, NEW z, Holds(ch, vals, x, y), Holds(ch, vals, y, z)
  PROVE  /\ Holds(ch, vals, x, z)
         /\ Slice(ch, vals, x, z) = Slice(ch, vals, x, y) \o Slice(ch, vals, y, z)
<1>1. x \in Int /\ y \in Int /\ z \in Int /\ x <= y /\ y <= z BY DEF Holds
<1>2. Holds(ch, vals, x, z)
  <2>1. \A o \in x..(z - 1) : o \in x..(y - 1) \/ o \in y..(z - 1) BY <1>1
  <2> QED BY <1>1, <2>1 DEF Holds
<1> DEFINE s == Slice(ch, vals, x, y)
           t == Slice(ch, vals, y, z)
           u == Slice(ch, vals, x, z)
<1>3. /\ s \in Seq(Items) /\ Len(s) = y - x
      /\ \A i \in 1..(y - x) : s[i] = vals[Place(ch, x + i - 1)]
      /\ t \in Seq(Items) /\ Len(t) = z - y
      /\ \A i \in 1..(z - y) : t[i] = vals[Place(ch, y + i - 1)]
      /\ u \in Seq(Items) /\ Len(u) = z - x
      /\ \A i \in 1..(z - x) : u[i] = vals[Place(ch, x + i - 1)]
  BY <1>2, SliceSeq
<1> HIDE DEF s, t, u
<1>4. /\ s \o t \in Seq(Items) /\ Len(s \o t) = z - x
      /\ \A i \in 1..(z - x) : (s \o t)[i] = IF i <= y - x THEN s[i] ELSE t[i - (y - x)]
  <2>1. (y - x) + (z - y) = z - x BY <1>1
  <2>2. Len(s) + Len(t) = z - x BY <1>3, <2>1
  <2> QED BY <1>3, <2>2, Concatenation
<1>5. ASSUME NEW i \in 1..(z - x) PROVE u[i] = (s \o t)[i]
  <2>1. CASE i <= y - x
    <3>1. i \in 1..(y - x) BY <1>1, <2>1
    <3>2. (s \o t)[i] = s[i] BY <1>4, <2>1
    <3>3. s[i] = vals[Place(ch, x + i - 1)] BY <1>3, <3>1
    <3>4. u[i] = vals[Place(ch, x + i - 1)] BY <1>3
    <3> QED BY <3>2, <3>3, <3>4
  <2>2. CASE ~(i <= y - x)
    <3>1. i - (y - x) \in 1..(z - y) /\ y + (i - (y - x)) - 1 = x + i - 1 BY <1>1, <2>2
    <3>2. (s \o t)[i] = t[i - (y - x)] BY <1>4, <2>2
    <3>3. t[i - (y - x)] = vals[Place(ch, y + (i - (y - x)) - 1)] BY <1>3, <3>1
    <3>4. u[i] = vals[Place(ch, x + i - 1)] BY <1>3
    <3> QED BY <3>1, <3>2, <3>3, <3>4
  <2> QED BY <2>1, <2>2
<1>6. u = s \o t BY <1>3, <1>4, <1>5, EqualSeqs
<1> QED BY <1>2, <1>6 DEF s, t, u

\* Nothing lies between an offset and itself.
LEMMA SliceEmpty ==
  ASSUME NEW ch, NEW vals, NEW x \in Int
  PROVE  Slice(ch, vals, x, x) = << >>
<1>1. 1..(x - x) = {} OBVIOUS
<1> QED BY <1>1 DEF Slice

\* One value lies between an offset and the next.
LEMMA SliceOne ==
  ASSUME NEW ch, NEW vals, NEW x \in Int, vals[Place(ch, x)] \in Items
  PROVE  /\ Holds(ch, vals, x, x + 1)
         /\ Slice(ch, vals, x, x + 1) = <<vals[Place(ch, x)]>>
<1>1. Holds(ch, vals, x, x + 1) BY DEF Holds
<1> DEFINE s == Slice(ch, vals, x, x + 1)
<1>2. s \in Seq(Items) /\ Len(s) = x + 1 - x /\ \A i \in 1..(x + 1 - x) : s[i] = vals[Place(ch, x + i - 1)]
  <2> DEFINE y == x + 1
  <2>1. Holds(ch, vals, x, y) BY <1>1
  <2> HIDE DEF y
  <2>2. /\ Slice(ch, vals, x, y) \in Seq(Items) /\ Len(Slice(ch, vals, x, y)) = y - x
        /\ \A i \in 1..(y - x) : Slice(ch, vals, x, y)[i] = vals[Place(ch, x + i - 1)]
    BY <2>1, SliceSeq
  <2> QED BY <2>2 DEF y
<1> HIDE DEF s
<1>3. x + 1 - x = 1 /\ x + 1 - 1 = x OBVIOUS
<1>4. Len(s) = 1 /\ s[1] = vals[Place(ch, x)]
  <2>1. Len(s) = 1 BY <1>2, <1>3
  <2>2. 1 \in 1..(x + 1 - x) BY <1>3
  <2>3. s[1] = vals[Place(ch, x + 1 - 1)] BY <1>2, <2>2
  <2> QED BY <1>3, <2>1, <2>3
<1>5. s = <<vals[Place(ch, x)]>>
  <2> DEFINE o == <<vals[Place(ch, x)]>>
  <2>1. o \in Seq(Items) /\ Len(o) = 1 /\ o[1] = vals[Place(ch, x)] OBVIOUS
  <2> HIDE DEF o
  <2>2. \A i \in 1..Len(s) : s[i] = o[i] BY <1>4, <2>1
  <2>3. s = o BY <1>2, <1>4, <2>1, <2>2, EqualSeqs
  <2> QED BY <2>3 DEF o
<1> QED BY <1>1, <1>5 DEF s
-----------------------------------------------------------------------------
\* The three parts of the abstract queue, as slices of the memory.
FlushedSlice == Slice(chunks, values, OffsetIn(chunks, front), OffsetIn(chunks, w))
PendingSlice == Slice(chunks, values, OffsetIn(chunks, w), OffsetIn(chunks, f))
PartialSlice == Slice(chunks, values, OffsetIn(chunks, f), OffsetIn(chunks, back))

Mapped ==
  /\ Between(front, w) = FlushedSlice
  /\ Between(w, f) = PendingSlice
  /\ Between(f, back) = PartialSlice

\* The refinement mapping of YPipe, in terms of offsets.
LEMMA BetweenIsSlice == Mapped
BY DEF Mapped, Between, Slice, Place, Offset, OffsetIn, FlushedSlice, PendingSlice, PartialSlice

\* The same in the next state.
LEMMA BetweenIsSliceNext == Mapped'
BY BetweenIsSlice, PTL

\* Every place from the front of the queue to its back holds a value.
LEMMA AllHold ==
  ASSUME IInv
  PROVE  /\ Holds(chunks, values, OffsetIn(chunks, front), OffsetIn(chunks, w))
         /\ Holds(chunks, values, OffsetIn(chunks, w), OffsetIn(chunks, f))
         /\ Holds(chunks, values, OffsetIn(chunks, f), OffsetIn(chunks, back))
         /\ \A o \in N..OffsetIn(chunks, back) : o \in Offsets(chunks)
         /\ OffsetIn(chunks, front) \in Int /\ N <= OffsetIn(chunks, front)
<1> USE DEF IInv
<1>1. OffsetIn(chunks, back) \in Offsets(chunks)
  BY PointersExpanded, LivePlace
<1>2. \A o \in N..OffsetIn(chunks, back) : o \in Offsets(chunks)
  <2>1. Len(chunks) * N \in Int BY PointersExpanded DEF IsChain
  <2> QED BY <1>1, <2>1, PointersExpanded, SMTT(30) DEF Offsets
<1>3. \A o \in Offsets(chunks) : values[Place(chunks, o)] \in Items
  BY PlaceIsLive DEF Memory
<1>4. /\ OffsetIn(chunks, front) \in Int /\ N <= OffsetIn(chunks, front)
      /\ OffsetIn(chunks, w) \in Int /\ OffsetIn(chunks, f) \in Int /\ OffsetIn(chunks, back) \in Int
      /\ OffsetIn(chunks, front) <= OffsetIn(chunks, w)
      /\ OffsetIn(chunks, w) <= OffsetIn(chunks, f)
      /\ OffsetIn(chunks, f) <= OffsetIn(chunks, back)
      /\ N \in Int
  BY PointersExpanded, SMTT(30) DEF Memory, Pos
<1> HIDE DEF IInv
<1>5. ASSUME NEW x \in Int, NEW y \in Int, N <= x, x <= y, y <= OffsetIn(chunks, back)
      PROVE  Holds(chunks, values, x, y)
  <2>1. \A o \in x..(y - 1) : o \in N..OffsetIn(chunks, back) BY <1>4, <1>5
  <2> QED BY <1>2, <1>3, <1>5, <2>1 DEF Holds
<1>6. Holds(chunks, values, OffsetIn(chunks, front), OffsetIn(chunks, w)) BY <1>4, <1>5
<1>7. Holds(chunks, values, OffsetIn(chunks, w), OffsetIn(chunks, f)) BY <1>4, <1>5
<1>8. Holds(chunks, values, OffsetIn(chunks, f), OffsetIn(chunks, back)) BY <1>4, <1>5
<1> QED BY <1>2, <1>4, <1>6, <1>7, <1>8

\* ypipe_t::write adds the value to the unflushed ones, or to an unfinished
\* message.
LEMMA WriteRefines ==
  ASSUME IInv, NEW v \in Items, NEW incomplete \in BOOLEAN, Write(v, incomplete)
  PROVE  Queue!Write(v, incomplete)
<1> DEFINE A == OffsetIn(chunks, front)
           W == OffsetIn(chunks, w)
           G == OffsetIn(chunks, f)
           B == OffsetIn(chunks, back)
<1> USE DEF IInv
<1>1. Push /\ UNCHANGED <<begin_pos, w, r, c, writer, reader, got>>
      /\ f' = (IF incomplete THEN f ELSE back')
      /\ values' = [values EXCEPT ![back] = v]
  BY DEF Write
<1>2. A \in Int /\ W \in Int /\ G \in Int /\ B \in Int /\ N <= A /\ A <= W /\ W <= G /\ G <= B
  BY AllHold DEF Holds
<1>3. /\ OffsetIn(chunks', front') = A /\ OffsetIn(chunks', w') = W
      /\ OffsetIn(chunks', f) = G /\ OffsetIn(chunks', back') = B + 1
  BY <1>1, PushLemma, PointersExpanded DEF front
<1>4. ASSUME NEW o \in N..(B - 1) PROVE values'[Place(chunks', o)] = values[Place(chunks, o)]
  <2>1. o \in Offsets(chunks) /\ o # B BY <1>2, AllHold, PointersExpanded, SMTT(30)
  <2>2. Place(chunks', o) = Place(chunks, o) BY <1>1, <2>1, PushLemma
  <2>3. Place(chunks, o) # back BY <2>1, PlaceIsLive, PointersExpanded
  <2>4. Place(chunks, o) \in Addresses BY <2>1, PlaceIsLive, PointersExpanded
  <2> QED BY <1>1, <2>2, <2>3, <2>4 DEF Memory
<1>5. values'[Place(chunks', B)] = v
  <2>1. B \in Offsets(chunks) /\ Place(chunks, B) = back BY PointersExpanded, LivePlace
  <2>2. Place(chunks', B) = back BY <1>1, <2>1, PushLemma
  <2>3. back \in Addresses BY <2>1, PlaceIsLive, PointersExpanded
  <2> QED BY <1>1, <2>2, <2>3 DEF Memory
<1> HIDE DEF IInv
<1>6. /\ Holds(chunks, values, A, W) /\ Holds(chunks, values, W, G) /\ Holds(chunks, values, G, B)
  BY AllHold
<1>7. N \in Int BY YPipeAssumption
<1> HIDE DEF A, W, G, B
<1>8. ASSUME NEW x \in Int, NEW y \in Int, N <= x, y <= B, Holds(chunks, values, x, y)
      PROVE  Slice(chunks', values', x, y) = Slice(chunks, values, x, y) /\ Holds(chunks', values', x, y)
  <2>1. \A o \in x..(y - 1) : o \in N..(B - 1) BY <1>2, <1>7, <1>8
  <2>2. \A o \in x..(y - 1) : values'[Place(chunks', o)] = values[Place(chunks, o)] BY <1>4, <2>1
  <2>3. \A i \in 1..(y - x) : x + i - 1 \in x..(y - 1) BY <1>8
  <2> QED BY <2>2, <2>3, <1>8 DEF Slice, Holds
<1>9. Holds(chunks', values', B, B + 1) /\ Slice(chunks', values', B, B + 1) = <<v>>
  BY <1>2, <1>5, SliceOne
<1>10. FlushedSlice' = FlushedSlice
  BY <1>2, <1>3, <1>6, <1>7, <1>8 DEF FlushedSlice, A, W
<1>11. PartialSlice \in Seq(Items) /\ PendingSlice \in Seq(Items)
  BY <1>6, SliceSeq DEF PartialSlice, PendingSlice, G, B, W
<1>12. Slice(chunks', values', G, B + 1) = Append(PartialSlice, v) /\ Holds(chunks', values', G, B + 1)
  <2>1. Slice(chunks', values', G, B) = PartialSlice /\ Holds(chunks', values', G, B)
    BY <1>2, <1>6, <1>7, <1>8 DEF PartialSlice, G, B
  <2>2. Slice(chunks', values', G, B + 1) = PartialSlice \o <<v>> /\ Holds(chunks', values', G, B + 1)
    BY <2>1, <1>9, SliceCat, SMTT(30)
  <2>3. PartialSlice \o <<v>> = Append(PartialSlice, v) BY <1>11
  <2> QED BY <2>2, <2>3
<1>13. Slice(chunks', values', W, G) = PendingSlice /\ Holds(chunks', values', W, G)
  BY <1>2, <1>6, <1>7, <1>8 DEF PendingSlice, W, G
<1>14. CASE incomplete
  <2>1. PartialSlice' = Append(PartialSlice, v) BY <1>1, <1>3, <1>12, <1>14 DEF PartialSlice
  <2>2. PendingSlice' = PendingSlice BY <1>1, <1>3, <1>13, <1>14 DEF PendingSlice
  <2> QED BY <1>1, <1>10, <1>14, <2>1, <2>2, BetweenIsSlice, BetweenIsSliceNext DEF Mapped, Queue!Write
<1>15. CASE ~incomplete
  <2>1. PartialSlice' = << >> BY <1>1, <1>2, <1>3, <1>15, SliceEmpty DEF PartialSlice
  <2>2. PendingSlice' = PendingSlice \o Append(PartialSlice, v)
    <3>1. PendingSlice' = Slice(chunks', values', W, B + 1) BY <1>1, <1>3, <1>15 DEF PendingSlice
    <3> DEFINE E == B + 1
    <3>2. Holds(chunks', values', W, G) /\ Holds(chunks', values', G, E) BY <1>12, <1>13
    <3> HIDE DEF E
    <3>3. Slice(chunks', values', W, E) = Slice(chunks', values', W, G) \o Slice(chunks', values', G, E)
      BY <3>2, SliceCat
    <3> QED BY <1>12, <1>13, <3>1, <3>3 DEF E
  <2> QED BY <1>1, <1>10, <1>15, <2>1, <2>2, BetweenIsSlice, BetweenIsSliceNext DEF Mapped, Queue!Write
<1> QED BY <1>14, <1>15

\* ypipe_t::unwrite takes the last value of an unfinished message, or
\* nothing.
LEMMA UnwriteRefines ==
  ASSUME IInv, Unwrite
  PROVE  Queue!Unwrite
<1> DEFINE A == OffsetIn(chunks, front)
           W == OffsetIn(chunks, w)
           G == OffsetIn(chunks, f)
           B == OffsetIn(chunks, back)
<1> USE DEF IInv
<1>1. Unpush /\ UNCHANGED <<begin_pos, values, w, f, c, got>> /\ f # back
  BY DEF Unwrite
<1>2. A \in Int /\ W \in Int /\ G \in Int /\ B \in Int /\ N <= A /\ A <= W /\ W <= G /\ G <= B
  BY AllHold DEF Holds
<1>3. G # B BY <1>1, SamePlace, PointersExpanded
<1>4. /\ OffsetIn(chunks', front') = A /\ OffsetIn(chunks', w') = W
      /\ OffsetIn(chunks', f') = G /\ OffsetIn(chunks', back') = B - 1
  <2>1. front' = front BY <1>1, UnpushLemma DEF front
  <2>2. A < B /\ W < B /\ G < B BY <1>2, <1>3
  <2> QED BY <1>1, <2>1, <2>2, UnpushLemma, PointersExpanded
<1>5. ASSUME NEW o \in N..(B - 1) PROVE values'[Place(chunks', o)] = values[Place(chunks, o)]
  <2>1. o \in Offsets(chunks) /\ o < B
    <3>1. N \in Int /\ o \in N..B /\ o < B BY <1>2, YPipeAssumption
    <3> QED BY <3>1, AllHold
  <2> QED BY <1>1, <2>1, UnpushLemma
<1> HIDE DEF IInv
<1>6. /\ Holds(chunks, values, A, W) /\ Holds(chunks, values, W, G) /\ Holds(chunks, values, G, B)
  BY AllHold
<1>7. N \in Int BY YPipeAssumption
<1> HIDE DEF A, W, G, B
<1>8. ASSUME NEW x \in Int, NEW y \in Int, N <= x, y < B
      PROVE  Slice(chunks', values', x, y) = Slice(chunks, values, x, y)
  <2>1. \A o \in x..(y - 1) : o \in N..(B - 1) BY <1>2, <1>7, <1>8
  <2>2. \A o \in x..(y - 1) : values'[Place(chunks', o)] = values[Place(chunks, o)] BY <1>5, <2>1
  <2>3. \A i \in 1..(y - x) : x + i - 1 \in x..(y - 1) BY <1>8
  <2> QED BY <2>2, <2>3, <1>8 DEF Slice
<1>9. FlushedSlice' = FlushedSlice
  BY <1>2, <1>3, <1>4, <1>7, <1>8 DEF FlushedSlice, A, W
<1>10. PendingSlice' = PendingSlice
  BY <1>2, <1>3, <1>4, <1>7, <1>8 DEF PendingSlice, W, G
<1>11. PartialSlice \in Seq(Items) /\ Len(PartialSlice) = B - G
       /\ \A i \in 1..(B - G) : PartialSlice[i] = values[Place(chunks, G + i - 1)]
  BY <1>6, SliceSeq DEF PartialSlice, G, B
<1>12. PartialSlice # << >> /\ PartialSlice' = Front(PartialSlice)
  <2>1. PartialSlice # << >> BY <1>2, <1>3, <1>11
  <2> DEFINE E == B - 1
  <2>2. E \in Int /\ E < B /\ G <= E BY <1>2, <1>3
  <2>3. PartialSlice' = Slice(chunks', values', G, E) BY <1>4 DEF PartialSlice
  <2>4. PartialSlice' = Slice(chunks, values, G, E) BY <1>2, <1>7, <1>8, <2>2, <2>3
  <2>5. Holds(chunks, values, G, E)
    <3>1. \A o \in G..(E - 1) : o \in G..(B - 1) BY <1>2, <2>2
    <3> QED BY <1>2, <1>6, <2>2, <3>1 DEF Holds
  <2>6. /\ PartialSlice' \in Seq(Items) /\ Len(PartialSlice') = E - G
        /\ \A i \in 1..(E - G) : PartialSlice'[i] = values[Place(chunks, G + i - 1)]
    BY <2>4, <2>5, SliceSeq
  <2> DEFINE t == SubSeq(PartialSlice, 1, Len(PartialSlice) - 1)
  <2>7. /\ t \in Seq(Items) /\ Len(t) = E - G
        /\ \A i \in 1..(E - G) : t[i] = PartialSlice[i] /\ i \in 1..(B - G)
    <3>1. Len(PartialSlice) - 1 = E - G /\ E - G \in Nat BY <1>2, <1>11, <2>2
    <3>2. \A i \in 1..(E - G) : i \in 1..Len(PartialSlice) BY <1>2, <1>11, <2>2
    <3> HIDE DEF E
    <3> QED BY <1>11, <3>1, <3>2
  <2> HIDE DEF t, E
  <2>8. PartialSlice' = t BY <1>11, <2>6, <2>7, EqualSeqs
  <2> QED BY <2>1, <2>8 DEF Front, t
<1> QED BY <1>1, <1>9, <1>10, <1>12, BetweenIsSlice, BetweenIsSliceNext
   DEF Mapped, Queue!Unwrite, Front, Queue!Front

\* The step of ypipe_t::flush that publishes f moves the finished values to
\* the reader.
LEMMA FlushRefines ==
  ASSUME IInv, w # f, c' = f, w' = f, UNCHANGED <<queueVars, f, got>>
  PROVE  Queue!Flush
<1>1. UNCHANGED <<chunks, begin_pos, back, values, front>> BY DEF queueVars, front
<1>2. /\ Holds(chunks, values, OffsetIn(chunks, front), OffsetIn(chunks, w))
      /\ Holds(chunks, values, OffsetIn(chunks, w), OffsetIn(chunks, f))
  BY AllHold
<1>3. FlushedSlice' = FlushedSlice \o PendingSlice
  <2>1. FlushedSlice' = Slice(chunks, values, OffsetIn(chunks, front), OffsetIn(chunks, f))
    BY <1>1 DEF FlushedSlice
  <2> QED BY <1>2, <2>1, SliceCat DEF FlushedSlice, PendingSlice
<1>4. PendingSlice' = << >>
  BY <1>1, <1>2, SliceEmpty DEF PendingSlice, Holds
<1>5. PartialSlice' = PartialSlice BY <1>1 DEF PartialSlice
<1>6. PendingSlice # << >>
  <2>1. OffsetIn(chunks, w) # OffsetIn(chunks, f) BY SamePlace, PointersExpanded DEF IInv
  <2>2. Len(PendingSlice) # 0 BY <1>2, <2>1, SliceSeq DEF PendingSlice, Holds
  <2> QED BY <2>2
<1>7. (c = Null)' = FALSE BY LiveNotNull DEF IInv, Pointers
<1> QED BY <1>3, <1>4, <1>5, <1>6, <1>7, BetweenIsSlice, BetweenIsSliceNext DEF Mapped, Queue!Flush

\* ypipe_t::read takes the oldest flushed value.
LEMMA ReadRefines ==
  ASSUME IInv, Read
  PROVE  Queue!Read
<1> DEFINE A == OffsetIn(chunks, front)
           W == OffsetIn(chunks, w)
           G == OffsetIn(chunks, f)
           B == OffsetIn(chunks, back)
<1> USE DEF IInv
<1>1. /\ Pop /\ UNCHANGED <<back, end_pos, values, w, f, r, c>>
      /\ r # front /\ got' = <<values[front]>>
  BY DEF Read, Protocol
<1>2. A \in Int /\ W \in Int /\ G \in Int /\ B \in Int /\ N <= A /\ A <= W /\ W <= G /\ G <= B
  BY AllHold DEF Holds
<1>3. A < W
  <2>1. A = N + begin_pos /\ A <= OffsetIn(chunks, r) /\ OffsetIn(chunks, r) <= W
        /\ OffsetIn(chunks, r) \in Int
    BY PointersExpanded
  <2>2. OffsetIn(chunks, r) # A BY <1>1, SamePlace, PointersExpanded
  <2> QED BY <1>2, <2>1, <2>2
<1>4. PICK d \in {0, N} :
               /\ \A p \in {r, w, f, back} :
                     LiveIn(chunks', p) /\ OffsetIn(chunks', p) = OffsetIn(chunks, p) - d
               /\ begin_pos' = begin_pos + 1 - d
               /\ Len(chunks') * N = Len(chunks) * N - d
               /\ \A o \in Offsets(chunks') :
                     o + d \in Offsets(chunks) /\ Place(chunks', o) = Place(chunks, o + d)
  BY <1>1, PopLemma
<1>5. d \in Int BY PointersExpanded
<1>6. IsChain(chunks') /\ begin_pos' \in Pos BY <1>1, PopLemma
<1>7. /\ OffsetIn(chunks', front') = A + 1 - d /\ OffsetIn(chunks', w') = W - d
      /\ OffsetIn(chunks', f') = G - d /\ OffsetIn(chunks', back') = B - d
  <2>1. OffsetIn(chunks', front') = N + begin_pos' BY <1>6, FrontPlace DEF front
  <2>2. N + begin_pos' = A + 1 - d
    <3>1. A = N + begin_pos /\ N \in Int /\ begin_pos \in Int BY PointersExpanded
    <3>2. begin_pos' = begin_pos + 1 - d BY <1>4
    <3> QED BY <1>5, <3>1, <3>2
  <2> QED BY <1>1, <1>4, <2>1, <2>2
<1>8. ASSUME NEW o \in (A + 1)..(B - 1) PROVE values'[Place(chunks', o - d)] = values[Place(chunks, o)]
  <2>1. B - d \in Offsets(chunks') BY <1>1, <1>4, <1>6, LivePlace
  <2>2. A + 1 - d >= N /\ N \in Int
    <3>1. A + 1 - d = N + begin_pos' BY <1>6, <1>7, FrontPlace DEF front
    <3> QED BY <1>6, <3>1, PointersExpanded DEF Pos
  <2>3. o - d \in Offsets(chunks')
    <3>1. Len(chunks') * N \in Int BY <1>6, <2>2 DEF IsChain
    <3> QED BY <1>2, <1>5, <2>1, <2>2, <3>1 DEF Offsets
  <2>4. (o - d) + d = o BY <1>2, <1>5
  <2> QED BY <1>1, <1>4, <2>3, <2>4
<1> HIDE DEF IInv
<1>9. /\ Holds(chunks, values, A, W) /\ Holds(chunks, values, W, G) /\ Holds(chunks, values, G, B)
  BY AllHold
<1> HIDE DEF A, W, G, B
<1>13. ASSUME NEW x \in Int, NEW y \in Int, A + 1 <= x, y <= B
      PROVE  Slice(chunks', values', x - d, y - d) = Slice(chunks, values, x, y)
  <2>1. (y - d) - (x - d) = y - x BY <1>5
  <2>2. ASSUME NEW i \in 1..(y - x)
        PROVE  values'[Place(chunks', x - d + i - 1)] = values[Place(chunks, x + i - 1)]
    <3>1. x + i - 1 \in (A + 1)..(B - 1) /\ (x + i - 1) - d = x - d + i - 1
      BY <1>2, <1>5, <1>13
    <3>2. values'[Place(chunks', (x + i - 1) - d)] = values[Place(chunks, x + i - 1)] BY <1>8, <3>1
    <3> QED BY <3>1, <3>2
  <2> QED BY <2>1, <2>2 DEF Slice
<1>10. PendingSlice' = PendingSlice
  <2>1. Slice(chunks', values', W - d, G - d) = Slice(chunks, values, W, G)
    BY <1>2, <1>3, <1>13
  <2> QED BY <1>7, <2>1 DEF PendingSlice, W, G
<1>11. PartialSlice' = PartialSlice
  <2>1. Slice(chunks', values', G - d, B - d) = Slice(chunks, values, G, B)
    BY <1>2, <1>3, <1>13
  <2> QED BY <1>7, <2>1 DEF PartialSlice, G, B
<1>12. /\ FlushedSlice \in Seq(Items) /\ FlushedSlice # << >>
       /\ Head(FlushedSlice) = values[front] /\ FlushedSlice' = Tail(FlushedSlice)
  <2> DEFINE E == A + 1
             s == Slice(chunks, values, A, W)
             t == Slice(chunks, values, E, W)
  <2>1. /\ s \in Seq(Items) /\ Len(s) = W - A
        /\ \A i \in 1..(W - A) : s[i] = values[Place(chunks, A + i - 1)]
    BY <1>9, SliceSeq
  <2>2. E \in Int /\ E <= W /\ A < E BY <1>2, <1>3
  <2>3. Holds(chunks, values, E, W)
    <3>1. \A o \in E..(W - 1) : o \in A..(W - 1) BY <1>2, <2>2
    <3> QED BY <1>2, <1>9, <2>2, <3>1 DEF Holds
  <2>4. /\ t \in Seq(Items) /\ Len(t) = W - E
        /\ \A i \in 1..(W - E) : t[i] = values[Place(chunks, E + i - 1)]
    BY <2>3, SliceSeq
  <2>5. FlushedSlice' = t
    <3>1. FlushedSlice' = Slice(chunks', values', A + 1 - d, W - d) BY <1>7 DEF FlushedSlice
    <3>2. E - d = A + 1 - d BY <1>2, <1>5
    <3>3. Slice(chunks', values', E - d, W - d) = t BY <1>2, <1>13, <2>2
    <3> QED BY <3>1, <3>2, <3>3
  <2>6. FlushedSlice = s BY DEF FlushedSlice, A, W
  <2>7. Len(s) \in Nat /\ Len(s) > 0 /\ W - A \in Nat BY <1>2, <1>3, <2>1
  <2> HIDE DEF s, t
  <2>8. s # << >> BY <2>1, <2>7
  <2>9. /\ Tail(s) \in Seq(Items) /\ Len(Tail(s)) = W - E
        /\ \A i \in 1..(W - E) : Tail(s)[i] = s[i + 1] /\ i + 1 \in 1..(W - A)
    BY <1>2, <2>1, <2>2, <2>7, <2>8
  <2>10. \A i \in 1..(W - E) : Tail(s)[i] = t[i]
    <3>1. \A i \in 1..(W - E) : A + (i + 1) - 1 = E + i - 1 BY <1>2
    <3> QED BY <2>1, <2>4, <2>9, <3>1
  <2>11. Tail(s) = t BY <2>4, <2>9, <2>10, EqualSeqs
  <2>12. Head(s) = values[front]
    <3>1. Head(s) = s[1] /\ 1 \in 1..(W - A) /\ A + 1 - 1 = A BY <1>2, <2>1, <2>7, <2>8
    <3>2. Place(chunks, A) = front BY PointersExpanded, LivePlace DEF A, IInv
    <3> QED BY <2>1, <3>1, <3>2
  <2> QED BY <2>1, <2>5, <2>6, <2>8, <2>11, <2>12
<1> QED BY <1>1, <1>10, <1>11, <1>12, BetweenIsSlice, BetweenIsSliceNext DEF Mapped, Queue!Read

\* ypipe_t::check_read takes nothing: the reader goes to sleep only on an
\* empty queue.
LEMMA CheckReadRefines ==
  ASSUME IInv, CheckRead
  PROVE  Queue!Sleep \/ UNCHANGED Queue!vars
<1>1. UNCHANGED <<chunks, begin_pos, back, values, w, f, got, front>>
  BY DEF CheckRead, queueVars, front
<1>2. FlushedSlice' = FlushedSlice /\ PendingSlice' = PendingSlice /\ PartialSlice' = PartialSlice
  BY <1>1 DEF FlushedSlice, PendingSlice, PartialSlice
<1>3. CASE UNCHANGED c
  BY <1>1, <1>2, <1>3, BetweenIsSlice, BetweenIsSliceNext DEF Mapped, Queue!vars
<1>4. CASE c' = Null /\ c = front
  <2>1. front # Null BY PointersExpanded, LiveNotNull DEF IInv
  <2>2. w = front BY <1>4, <2>1 DEF IInv, Pointers
  <2>3. FlushedSlice = << >>
    BY <2>2, AllHold, SliceEmpty DEF FlushedSlice
  <2> QED BY <1>1, <1>2, <1>4, <2>3, BetweenIsSlice, BetweenIsSliceNext DEF Mapped, Queue!Sleep
<1> QED BY <1>3, <1>4 DEF CheckRead

\* Every step of the lock-free pipe is a step of the queue with flush, or
\* leaves it as it is.
LEMMA StepRefines == IInv /\ [Next]_vars => [Queue!Next]_(Queue!vars)
<1> SUFFICES ASSUME IInv, [Next]_vars PROVE Queue!Next \/ UNCHANGED Queue!vars OBVIOUS
<1>a. ASSUME UNCHANGED <<queueVars, w, f, c, got>> PROVE UNCHANGED Queue!vars
  BY <1>a, BetweenIsSlice, BetweenIsSliceNext
     DEF Mapped, queueVars, front, FlushedSlice, PendingSlice, PartialSlice, Queue!vars
<1>1. CASE \E v \in Items, incomplete \in BOOLEAN : Write(v, incomplete)
  BY <1>1, WriteRefines DEF Queue!Next
<1>2. CASE Unwrite BY <1>2, UnwriteRefines DEF Queue!Next
<1>3. CASE Flush
  <2>1. CASE c = w BY <1>3, <2>1, FlushRefines DEF Flush, Queue!Next
  <2>2. CASE c # w BY <1>3, <1>a, <2>2 DEF Flush
  <2> QED BY <2>1, <2>2
<1>4. CASE FlushAsleep
  <2>1. w # f BY <1>4 DEF FlushAsleep, IInv, Protocol
  <2> QED BY <1>4, <2>1, FlushRefines DEF FlushAsleep, Queue!Next
<1>5. CASE Wake BY <1>5, <1>a DEF Wake
<1>6. CASE CheckRead BY <1>6, CheckReadRefines DEF Queue!Next
<1>7. CASE Read BY <1>7, ReadRefines DEF Queue!Next
<1>8. CASE UNCHANGED vars BY <1>8, <1>a DEF vars
<1> QED BY <1>1, <1>2, <1>3, <1>4, <1>5, <1>6, <1>7, <1>8 DEF Next

\* An empty pipe is an empty queue.
LEMMA InitRefines == Init => Queue!Init
<1> SUFFICES ASSUME Init PROVE Queue!Init OBVIOUS
<1>1. IInv BY InitIInv
<1>2. w = back /\ f = back /\ front = back BY DEF Init, front
<1>3. FlushedSlice = << >> /\ PendingSlice = << >> /\ PartialSlice = << >>
  BY <1>1, <1>2, AllHold, SliceEmpty DEF FlushedSlice, PendingSlice, PartialSlice
<1>4. (c = Null) = FALSE BY <1>1, LiveNotNull DEF IInv, Pointers, Init
<1> QED BY <1>3, <1>4, BetweenIsSlice DEF Mapped, Queue!Init, Init

\* ypipe_t over yqueue_t implements the queue with flush of FlushQueue:
\* values come out once, in the order written, never before they were flushed
\* and never part of an unfinished message, with the two threads interleaved
\* at each atomic operation and for every chunk size.
THEOREM YPipeImplementsQueue == Spec => ImplementsQueue
<1>1. Init /\ [][Next]_vars /\ []IInv => Queue!Init /\ [][Queue!Next]_(Queue!vars)
  BY InitRefines, StepRefines, PTL
<1> QED BY <1>1, YPipeInvariant, PTL DEF Spec, ImplementsQueue, Queue!Spec
=============================================================================
