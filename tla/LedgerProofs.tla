---------------------------- MODULE LedgerProofs ----------------------------
(***************************************************************************)
(* The header store: for any checkpoints, batch size, server and number of *)
(* crashes, what it takes for present is present, what it opens is linked, *)
(* and the tip worker ends on the server's tip.                            *)
(*                                                                         *)
(* The resolution of claims: for any calls, chains, cache capacity and     *)
(* batch sizes, a call is answered with what its own query got, and its    *)
(* failures have a cause and block nobody.                                 *)
(***************************************************************************)
EXTENDS HeaderSync, Resolve, FiniteSetTheorems, WellFoundedInduction, TLAPS

Label == Branch \cup {"trunk", "zero", "torn", "none"}
AnyHeader == [b : Label, p : Label]
Peer == [b : Branch, h : Fork .. MaxHeight]

FileType == [exists : BOOLEAN, data : Seq(AnyHeader), ragged : BOOLEAN]
StoreType == [data : Seq(AnyHeader), ragged : BOOLEAN]
TipState ==
    [pc : {"off", "idle", "pull", "ensure", "ensure2", "connect"},
     height : Nat, batch : Seq(AnyHeader), sub : BOOLEAN, rewound : Nat]
FillState == [pc : {"off", "wait", "run", "done"}, todo : SUBSET (0 .. (Checkpoints - 1))]

\* What the variables hold.
TypeOK ==
    /\ server \in Peer /\ wire \in Seq(Peer) /\ updates \in Seq(Peer)
    /\ file \in FileType /\ store \in StoreType /\ missing \in SUBSET (0 .. (Checkpoints - 1))
    /\ running \in {"off", "on", "stopping"} /\ tip \in TipState /\ fill \in FillState
    /\ opened \in BOOLEAN /\ connected \in BOOLEAN /\ fresh \in BOOLEAN
    /\ tipErr \in BOOLEAN /\ fillErr \in BOOLEAN

\* The store is open while the workers run, and is as long as the checkpoints and the
\* batch at hand need it to be: nothing is written beyond its end.
StoreOpen ==
    /\ opened => Len(store.data) > LastHeight
    /\ running # "off" => opened
    /\ tip.pc # "off" \/ fill.pc # "off" => running # "off"
    /\ tip.pc \in {"ensure", "ensure2", "connect"} => tip.height <= Len(store.data)

TypeInv == TypeOK /\ StoreOpen

-----------------------------------------------------------------------------
(* Arithmetic of chunks *)

\* The last checkpointed height and the height repairs start from.
LEMMA Heights ==
    /\ LastHeight \in Int /\ LastHeight >= -1
    /\ RepairStart \in Nat /\ RepairStart = LastHeight + Interval
<1>. USE BoundsAssumption
<1>1. CASE Checkpoints = 0
    BY <1>1 DEF LastHeight, RepairStart
<1>2. CASE Checkpoints # 0
    <2>1. (Checkpoints - 1) \in Nat
        BY <1>2
    <2>2. (Checkpoints - 1) * Interval \in Nat
        BY <2>1
    <2>. QED BY <1>2, <2>2 DEF LastHeight, RepairStart
<1>. QED BY <1>1, <1>2

\* Multiples of the interval grow by at least the interval.
LEMMA MultipleStep ==
    ASSUME NEW k \in Nat, NEW c \in Nat, NEW d \in Nat, c < d
    PROVE  c * k + k <= d * k
<1>1. PICK e \in Nat : d = c + 1 + e
    <2>1. d - c - 1 \in Nat /\ d = c + 1 + (d - c - 1)
        OBVIOUS
    <2>. QED BY <2>1
<1>2. d * k = c * k + k + e * k
    BY <1>1
<1>3. e * k \in Nat /\ c * k \in Nat
    BY <1>1
<1>. QED BY <1>2, <1>3

\* A checkpointed chunk starts at or below the last checkpointed height and ends below
\* the first header that can be reorganised.
LEMMA ChunkBounds ==
    ASSUME NEW c \in 0 .. (Checkpoints - 1)
    PROVE  /\ c \in Nat /\ c * Interval \in Nat
           /\ c * Interval <= LastHeight
           /\ c * Interval + Interval < Fork
           /\ \A h \in Chunk(c) : h \in Nat /\ h >= c * Interval /\ h < c * Interval + Interval
<1>. USE BoundsAssumption
<1>1. c \in Nat /\ Checkpoints \in Nat /\ c < Checkpoints
    OBVIOUS
<1>2. c * Interval \in Nat
    BY <1>1
<1>3. c * Interval + Interval <= Checkpoints * Interval /\ Checkpoints * Interval \in Nat
    BY <1>1, MultipleStep
<1>4. c * Interval <= (Checkpoints - 1) * Interval
    <2>1. (Checkpoints - 1) * Interval = Checkpoints * Interval - Interval
        BY <1>1
    <2>. QED BY <2>1, <1>2, <1>3
<1>5. LastHeight = (Checkpoints - 1) * Interval
    BY <1>1 DEF LastHeight
<1>. QED BY <1>1, <1>2, <1>3, <1>4, <1>5 DEF Chunk

\* Chunks are disjoint.
LEMMA ChunksApart ==
    ASSUME NEW c \in Nat, NEW d \in Nat, c # d, NEW h \in Chunk(d)
    PROVE  ~(c * Interval <= h /\ h < c * Interval + Interval)
<1>. USE BoundsAssumption
<1>1. c * Interval \in Nat /\ d * Interval \in Nat
    OBVIOUS
<1>2. h \in Nat /\ d * Interval <= h /\ h < d * Interval + Interval
    BY <1>1 DEF Chunk
<1>3. CASE c < d
    BY <1>1, <1>2, <1>3, MultipleStep
<1>4. CASE d < c
    BY <1>1, <1>2, <1>4, MultipleStep
<1>. QED BY <1>3, <1>4

-----------------------------------------------------------------------------
(* Headers and sequences of them *)

\* Below the fork every chain has the same headers.
LEMMA HeaderType ==
    ASSUME NEW b \in Branch \cup {"trunk"}, NEW h \in Nat
    PROVE  /\ Header(b, h) \in AnyHeader
           /\ h < Fork => Header(b, h) = Header("trunk", h)
<1>. USE BoundsAssumption
<1>1. Tag(b, h) \in Label /\ Tag(b, h - 1) \in Label /\ "none" \in Label
    BY DEF Tag, Label
<1>2. h < Fork => Tag(b, h) = Tag("trunk", h) /\ Tag(b, h - 1) = Tag("trunk", h - 1)
    BY DEF Tag
<1>. QED BY <1>1, <1>2 DEF Header, AnyHeader

LEMMA ZeroType == Zero \in AnyHeader
BY DEF Zero, AnyHeader, Label

\* Writing inside or at the end of a store keeps what is outside the written part.
LEMMA WriteFacts ==
    ASSUME NEW s \in Seq(AnyHeader), NEW start \in Nat, start <= Len(s), NEW hs \in Seq(AnyHeader)
    PROVE  /\ Write(s, start, hs) \in Seq(AnyHeader)
           /\ Len(Write(s, start, hs)) =
                IF Len(s) >= start + Len(hs) THEN Len(s) ELSE start + Len(hs)
           /\ \A i \in 1 .. Len(Write(s, start, hs)) : Write(s, start, hs)[i] =
                IF i > start /\ i <= start + Len(hs) THEN hs[i - start] ELSE s[i]
<1>. DEFINE n == IF Len(s) >= start + Len(hs) THEN Len(s) ELSE start + Len(hs)
            f == [i \in 1 .. n |-> IF i > start /\ i <= start + Len(hs) THEN hs[i - start] ELSE s[i]]
<1>1. n \in Nat
    OBVIOUS
<1>2. \A i \in 1 .. n : (IF i > start /\ i <= start + Len(hs) THEN hs[i - start] ELSE s[i]) \in AnyHeader
    <2>. SUFFICES ASSUME NEW i \in 1 .. n
                  PROVE  (IF i > start /\ i <= start + Len(hs) THEN hs[i - start] ELSE s[i]) \in AnyHeader
        OBVIOUS
    <2>1. CASE i > start /\ i <= start + Len(hs)
        <3>1. i - start \in 1 .. Len(hs)
            BY <2>1
        <3>. QED BY <2>1, <3>1
    <2>2. CASE ~(i > start /\ i <= start + Len(hs))
        <3>1. i \in 1 .. Len(s)
            BY <2>2
        <3>. QED BY <2>2, <3>1
    <2>. QED BY <2>1, <2>2
<1>3. f \in Seq(AnyHeader) /\ Len(f) = n
    <2>. HIDE DEF n
    <2>. QED BY <1>1, <1>2
<1>4. Write(s, start, hs) = f
    BY DEF Write
<1>. QED
    <2>. HIDE DEF f
    <2>1. \A i \in 1 .. n : f[i] = IF i > start /\ i <= start + Len(hs) THEN hs[i - start] ELSE s[i]
        BY DEF f
    <2>. QED BY <1>3, <1>4, <2>1

\* Resizing cuts, or appends zeros.
LEMMA ResizeFacts ==
    ASSUME NEW s \in Seq(AnyHeader), NEW n \in Nat
    PROVE  /\ Resize(s, n) \in Seq(AnyHeader) /\ Len(Resize(s, n)) = n
           /\ \A i \in 1 .. n : i <= Len(s) => Resize(s, n)[i] = s[i]
<1>1. \A i \in 1 .. n : (IF i <= Len(s) THEN s[i] ELSE Zero) \in AnyHeader
    BY ZeroType
<1>2. Resize(s, n) = [i \in 1 .. n |-> IF i <= Len(s) THEN s[i] ELSE Zero]
    BY DEF Resize
<1>. QED BY <1>1, <1>2

LEMMA OverwriteType ==
    ASSUME NEW s \in Seq(AnyHeader), NEW k, NEW x \in AnyHeader
    PROVE  [s EXCEPT ![k] = x] \in Seq(AnyHeader) /\ Len([s EXCEPT ![k] = x]) = Len(s)
<1>. DEFINE n == Len(s)
            f == [i \in 1 .. n |-> IF i = k THEN x ELSE s[i]]
<1>1. [s EXCEPT ![k] = x] = f
    OBVIOUS
<1>2. n \in Nat /\ \A i \in 1 .. n : (IF i = k THEN x ELSE s[i]) \in AnyHeader
    OBVIOUS
<1>3. f \in Seq(AnyHeader) /\ Len(f) = n
    <2>. HIDE DEF n
    <2>. QED BY <1>2
<1>. QED BY <1>1, <1>3

\* A nonempty set of heights has a lowest one.
LEMMA Lowest ==
    ASSUME NEW T \in SUBSET Nat, T # {}
    PROVE  \E x \in T : \A y \in T : x <= y
<1>1. PICK x \in T : \A y \in T : ~(<<y, x>> \in OpToRel(<, Nat))
    BY NatLessThanWellFounded, WFMin
<1>2. \A y \in T : ~(y < x)
    BY <1>1 DEF OpToRel
<1>. QED BY <1>2

\* A repaired chain is linked above the header the repair trusts.
LEMMA RepairFacts ==
    ASSUME NEW s \in Seq(AnyHeader), NEW start \in Nat
    PROVE  /\ Repair(s, start) \in Seq(AnyHeader)
           /\ \A h \in (start + 1) .. (Len(Repair(s, start)) - 1) : LinkedAt(Repair(s, start), h)
<1>. DEFINE Bad == {h \in start .. (Len(s) - 1) :
                      IF h = start THEN h = 0 /\ At(s, h) # Header("trunk", 0) ELSE ~LinkedAt(s, h)}
            failed == CHOOSE h \in Bad : \A g \in Bad : h <= g
            n == IF failed = 0 THEN 0 ELSE failed - 1
<1>1. Repair(s, start) = IF start >= Len(s) - 1 \/ Bad = {} THEN s ELSE Resize(s, n)
    BY DEF Repair
<1>2. Bad \in SUBSET Nat /\ Bad \subseteq start .. (Len(s) - 1)
    OBVIOUS
<1>3. \A h \in start .. (Len(s) - 1) : h # start /\ h \notin Bad => LinkedAt(s, h)
    OBVIOUS
<1>. HIDE DEF Bad
<1>4. CASE start >= Len(s) - 1
    BY <1>1, <1>4
<1>5. CASE Bad = {}
    BY <1>1, <1>3, <1>5
<1>6. CASE start < Len(s) - 1 /\ Bad # {}
    <2>1. failed \in Bad /\ \A g \in Bad : failed <= g
        BY <1>2, <1>6, Lowest
    <2>. HIDE DEF failed
    <2>2. failed \in Nat /\ n \in Nat /\ n <= failed /\ failed <= Len(s) - 1
        BY <1>2, <2>1
    <2>3. Repair(s, start) = Resize(s, n)
        BY <1>1, <1>6
    <2>. HIDE DEF n
    <2>4. /\ Resize(s, n) \in Seq(AnyHeader) /\ Len(Resize(s, n)) = n
          /\ \A i \in 1 .. n : i <= Len(s) => Resize(s, n)[i] = s[i]
        BY <2>2, ResizeFacts
    <2>5. ASSUME NEW h \in (start + 1) .. (n - 1)
          PROVE  LinkedAt(Resize(s, n), h)
        <3>1. h \in start .. (Len(s) - 1) /\ h # start /\ ~(failed <= h)
            BY <2>2
        <3>2. LinkedAt(s, h)
            BY <1>3, <2>1, <3>1
        <3>3. h + 1 \in 1 .. n /\ h \in 1 .. n /\ h + 1 <= Len(s) /\ h <= Len(s) /\ h - 1 + 1 = h
            BY <2>2
        <3>4. Resize(s, n)[h + 1] = s[h + 1] /\ Resize(s, n)[h - 1 + 1] = s[h - 1 + 1]
            BY <2>4, <3>3
        <3>. QED BY <3>2, <3>4 DEF LinkedAt, At
    <2>. QED BY <2>3, <2>4, <2>5
<1>. QED BY <1>4, <1>5, <1>6

\* Open's working copy: a store that reaches above the last checkpoint, and is linked
\* above the first header after the checkpoints.
LEMMA OpenFacts ==
    ASSUME NEW f \in FileType
    PROVE  LET g == Sized(Repaired(f))
           IN  /\ g \in StoreType /\ Len(g.data) > LastHeight
               /\ \A h \in (RepairStart + 1) .. (Len(g.data) - 1) : LinkedAt(g.data, h)
<1>. DEFINE start == IF f.ragged THEN 0 ELSE RepairStart
            s == Repair(f.data, start)
            r == Repaired(f)
            padded == Resize(r.data, LastHeight + Interval)
<1>0. f.data \in Seq(AnyHeader) /\ f.ragged \in BOOLEAN
    BY DEF FileType
<1>1. start \in Nat /\ start <= RepairStart
    BY Heights
<1>2. s \in Seq(AnyHeader) /\ \A h \in (start + 1) .. (Len(s) - 1) : LinkedAt(s, h)
    BY <1>0, <1>1, RepairFacts
<1>3. r = [data |-> s, ragged |-> f.ragged /\ s = f.data]
    BY DEF Repaired
<1>. HIDE DEF start, s, r
<1>4. r \in StoreType /\ r.data = s
    <2>1. (f.ragged /\ s = f.data) \in BOOLEAN
        BY <1>0
    <2>. QED BY <1>2, <1>3, <2>1 DEF StoreType
<1>5. \A h \in (RepairStart + 1) .. (Len(r.data) - 1) : LinkedAt(r.data, h)
    BY <1>1, <1>2, <1>4, Heights
<1>6. CASE Len(r.data) - 1 >= LastHeight
    <2>1. Sized(r) = r
        BY <1>6 DEF Sized
    <2>. QED BY <1>2, <1>4, <1>5, <1>6, <2>1, Heights DEF r
<1>7. CASE ~(Len(r.data) - 1 >= LastHeight)
    <2>1. padded \in Seq(AnyHeader) /\ Len(padded) = RepairStart
        BY <1>2, <1>4, ResizeFacts, Heights
    <2>. DEFINE torn == [b |-> "torn", p |-> "none"]
                data == IF r.ragged /\ Len(r.data) < LastHeight
                        THEN [padded EXCEPT ![Len(r.data) + 1] = torn] ELSE padded
    <2>2. torn \in AnyHeader
        BY DEF AnyHeader, Label
    <2>3. Sized(r) = [data |-> data, ragged |-> FALSE]
        BY <1>7 DEF Sized
    <2>. HIDE DEF padded, torn
    <2>4. data \in Seq(AnyHeader) /\ Len(data) = RepairStart
        BY <2>1, <2>2, OverwriteType
    <2>5. Sized(r) \in StoreType /\ Sized(r).data = data
        BY <2>3, <2>4 DEF StoreType
    <2>6. RepairStart > LastHeight
        BY Heights, BoundsAssumption
    <2>. HIDE DEF data
    <2>. QED BY <2>4, <2>5, <2>6, Heights DEF r
<1>. QED BY <1>6, <1>7

\* A batch written inside or at the end of the open store.
LEMMA WrittenFacts ==
    ASSUME store \in StoreType, NEW start \in Nat, start <= Len(store.data), NEW hs \in Seq(AnyHeader)
    PROVE  /\ Written(start, hs) \in StoreType
           /\ Len(Written(start, hs).data) =
                IF Len(store.data) >= start + Len(hs) THEN Len(store.data) ELSE start + Len(hs)
           /\ \A h \in 0 .. (Len(Written(start, hs).data) - 1) :
                At(Written(start, hs).data, h) =
                    IF h >= start /\ h < start + Len(hs) THEN hs[h - start + 1] ELSE At(store.data, h)
<1>. DEFINE d == Write(store.data, start, hs)
<1>1. store.data \in Seq(AnyHeader) /\ store.ragged \in BOOLEAN
    BY DEF StoreType
<1>2. /\ d \in Seq(AnyHeader)
      /\ Len(d) = IF Len(store.data) >= start + Len(hs) THEN Len(store.data) ELSE start + Len(hs)
      /\ \A i \in 1 .. Len(d) : d[i] =
                IF i > start /\ i <= start + Len(hs) THEN hs[i - start] ELSE store.data[i]
    BY <1>1, WriteFacts
<1>3. Written(start, hs).data = d /\ Written(start, hs) \in StoreType
    <2>1. (store.ragged /\ start + Len(hs) <= Len(store.data)) \in BOOLEAN
        BY <1>1
    <2>2. Written(start, hs) = [data |-> d, ragged |-> store.ragged /\ start + Len(hs) <= Len(store.data)]
        BY DEF Written
    <2>. HIDE DEF d
    <2>. QED BY <1>2, <2>1, <2>2 DEF StoreType
<1>. HIDE DEF d
<1>4. ASSUME NEW h \in 0 .. (Len(d) - 1)
      PROVE  At(d, h) = IF h >= start /\ h < start + Len(hs) THEN hs[h - start + 1] ELSE At(store.data, h)
    <2>1. h + 1 \in 1 .. Len(d) /\ (h + 1) - start = h - start + 1
          /\ (h + 1 > start <=> h >= start) /\ (h + 1 <= start + Len(hs) <=> h < start + Len(hs))
        <3>. DEFINE m == Len(d)
                    n == Len(hs)
        <3>1. m \in Nat /\ n \in Nat /\ h \in 0 .. (m - 1)
            BY <1>2
        <3>. HIDE DEF m, n
        <3>2. h + 1 \in 1 .. m /\ (h + 1) - start = h - start + 1
              /\ (h + 1 > start <=> h >= start) /\ (h + 1 <= start + n <=> h < start + n)
            BY <3>1
        <3>. QED BY <3>2 DEF m, n
    <2>. QED BY <1>2, <2>1 DEF At
<1>. QED BY <1>2, <1>3, <1>4

\* FetchChunk of a checkpointed chunk: it becomes exact, no other chunk and no header
\* from the fork on changes, and the store does not grow to the fork.
LEMMA FetchedFacts ==
    ASSUME TypeInv, opened, NEW c \in 0 .. (Checkpoints - 1), Fetched(c)
    PROVE  /\ store' \in StoreType /\ missing' \in SUBSET (0 .. (Checkpoints - 1))
           /\ missing' = missing \ {c}
           /\ Len(store'.data) >= Len(store.data)
           /\ Len(store'.data) <= Len(store.data) \/ Len(store'.data) < Fork
           /\ \A h \in Nat : h >= Fork /\ h < Len(store.data) => At(store'.data, h) = At(store.data, h)
           /\ Exact(store'.data, c)
           /\ \A d \in 0 .. (Checkpoints - 1) : d # c /\ Exact(store.data, d) => Exact(store'.data, d)
<1>. DEFINE start == c * Interval
            hs == [i \in 1 .. Interval |-> Header("trunk", start + i - 1)]
<1>0. c \in Nat /\ start \in Nat /\ start <= LastHeight /\ start + Interval < Fork
      /\ \A h \in Chunk(c) : h \in Nat /\ h >= start /\ h < start + Interval
    BY ChunkBounds
<1>1. store' = Written(start, hs) /\ missing' = missing \ {c}
    BY DEF Fetched
<1>. HIDE DEF start
<1>2. hs \in Seq(AnyHeader) /\ Len(hs) = Interval
    <2>1. \A i \in 1 .. Interval : Header("trunk", start + i - 1) \in AnyHeader
        BY <1>0, HeaderType
    <2>. QED BY <2>1, BoundsAssumption
<1>3. \A h \in Nat : h >= start /\ h < start + Interval => hs[h - start + 1] = Header("trunk", h)
    <2>. SUFFICES ASSUME NEW h \in Nat, h >= start, h < start + Interval
                  PROVE  hs[h - start + 1] = Header("trunk", h)
        OBVIOUS
    <2>1. h - start + 1 \in 1 .. Interval /\ start + (h - start + 1) - 1 = h
        BY <1>0, BoundsAssumption
    <2>. QED BY <2>1
<1>. HIDE DEF hs
<1>4. store \in StoreType /\ Len(store.data) \in Nat /\ start <= Len(store.data)
      /\ missing \in SUBSET (0 .. (Checkpoints - 1))
    BY <1>0, Heights DEF TypeInv, TypeOK, StoreOpen, StoreType
<1>5. /\ store' \in StoreType
      /\ Len(store'.data) =
           IF Len(store.data) >= start + Interval THEN Len(store.data) ELSE start + Interval
      /\ \A h \in 0 .. (Len(store'.data) - 1) : At(store'.data, h) =
           IF h >= start /\ h < start + Interval THEN hs[h - start + 1] ELSE At(store.data, h)
    BY <1>0, <1>1, <1>2, <1>4, WrittenFacts
<1>6. /\ Len(store'.data) >= Len(store.data)
      /\ Len(store'.data) <= Len(store.data) \/ Len(store'.data) < Fork
      /\ Len(store'.data) >= start + Interval /\ Len(store'.data) \in Nat
    BY <1>0, <1>4, <1>5, BoundsAssumption DEF StoreType
<1>7. ASSUME NEW h \in Nat, h >= Fork, h < Len(store.data)
      PROVE  At(store'.data, h) = At(store.data, h)
    BY <1>0, <1>4, <1>5, <1>6, <1>7, BoundsAssumption
<1>8. Exact(store'.data, c)
    <2>. SUFFICES ASSUME NEW h \in Chunk(c)
                  PROVE  h < Len(store'.data) /\ At(store'.data, h) = Header("trunk", h)
        BY DEF Exact
    <2>1. h \in Nat /\ h >= start /\ h < start + Interval
        BY <1>0
    <2>2. h \in 0 .. (Len(store'.data) - 1)
        BY <1>0, <1>6, <2>1, BoundsAssumption
    <2>. QED BY <1>3, <1>5, <2>1, <2>2
<1>9. ASSUME NEW d \in 0 .. (Checkpoints - 1), d # c, Exact(store.data, d)
      PROVE  Exact(store'.data, d)
    <2>. SUFFICES ASSUME NEW h \in Chunk(d)
                  PROVE  h < Len(store'.data) /\ At(store'.data, h) = Header("trunk", h)
        BY DEF Exact
    <2>1. h \in Nat /\ h < Len(store.data) /\ At(store.data, h) = Header("trunk", h)
        BY <1>9, ChunkBounds DEF Exact
    <2>2. ~(start <= h /\ h < start + Interval)
        <3>1. d \in Nat
            OBVIOUS
        <3>. QED BY <1>0, <1>9, <3>1, ChunksApart DEF start
    <2>3. h \in 0 .. (Len(store'.data) - 1)
        BY <1>4, <1>6, <2>1
    <2>. QED BY <1>0, <1>5, <2>1, <2>2, <2>3
<1>. QED BY <1>1, <1>4, <1>5, <1>6, <1>7, <1>8, <1>9

-----------------------------------------------------------------------------
(* Types *)

LEMMA TypeInit == Init => TypeInv
<1>. SUFFICES ASSUME Init PROVE TypeInv
    OBVIOUS
<1>1. server \in Peer
    BY BoundsAssumption DEF Init, Peer
<1>2. file \in FileType /\ store \in StoreType
    BY DEF Init, FileType, StoreType, NoFile, NoStore
<1>3. tip \in TipState /\ fill \in FillState /\ tip.pc = "off" /\ fill.pc = "off"
    BY DEF Init, TipState, FillState, TipOff, FillOff
<1>4. wire \in Seq(Peer) /\ updates \in Seq(Peer)
    BY DEF Init
<1>5. TypeOK
    BY <1>1, <1>2, <1>3, <1>4 DEF Init, TypeOK
<1>6. StoreOpen
    BY <1>3 DEF Init, StoreOpen
<1>. QED BY <1>5, <1>6 DEF TypeInv

\* TipReturns leaves the worker idle.
LEMMA TipReturnsType ==
    ASSUME NEW failed \in BOOLEAN, TipReturns(failed)
    PROVE  tip' \in TipState /\ tip'.pc = "idle" /\ tipErr' \in BOOLEAN /\ tipErr' = failed
<1>1. tip' = [pc |-> "idle", height |-> 0, batch |-> <<>>, sub |-> FALSE, rewound |-> 0]
    BY DEF TipReturns, TipOff
<1>2. <<>> \in Seq(AnyHeader)
    OBVIOUS
<1>3. tip' \in TipState /\ tip'.pc = "idle"
    BY <1>1, <1>2 DEF TipState
<1>. QED BY <1>3 DEF TipReturns

\* A process that starts again has nothing in memory.
LEMMA NewProcessType ==
    ASSUME TypeInv, NewProcess, file' \in FileType
    PROVE  TypeInv'
<1>1. server' \in Peer
    BY DEF TypeInv, TypeOK, NewProcess
<1>2. store' \in StoreType
    BY DEF NewProcess, StoreType, NoStore
<1>3. tip' \in TipState /\ fill' \in FillState /\ tip'.pc = "off" /\ fill'.pc = "off"
    BY DEF NewProcess, TipState, FillState, TipOff, FillOff
<1>4. wire' \in Seq(Peer) /\ updates' \in Seq(Peer)
    BY DEF NewProcess
<1>5. TypeOK'
    BY <1>1, <1>2, <1>3, <1>4 DEF NewProcess, TypeOK
<1>6. StoreOpen'
    BY <1>3 DEF NewProcess, StoreOpen
<1>. QED BY <1>5, <1>6 DEF TypeInv

\* Committing over the file keeps it a file.
LEMMA CommitType ==
    ASSUME TypeInv
    PROVE  Committed \in FileType
<1>1. store.data \in Seq(AnyHeader) /\ file.data \in Seq(AnyHeader) /\ file.ragged \in BOOLEAN
    BY DEF TypeInv, TypeOK, StoreType, FileType
<1>2. Write(file.data, 0, store.data) \in Seq(AnyHeader)
    BY <1>1, WriteFacts
<1>3. (file.ragged /\ Len(store.data) <= Len(file.data)) \in BOOLEAN
    BY <1>1
<1>. QED BY <1>2, <1>3 DEF Committed, FileType

\* A commit that a crash cuts leaves a file of headers, one of them perhaps torn.
LEMMA CloseCrashType ==
    ASSUME TypeInv, CloseCrash
    PROVE  file' \in FileType
<1>1. store.data \in Seq(AnyHeader) /\ file.data \in Seq(AnyHeader) /\ file.ragged \in BOOLEAN
    BY DEF TypeInv, TypeOK, StoreType, FileType
<1>. DEFINE old == IF file.exists THEN file.data ELSE Resize(<<>>, Len(store.data))
            done(n) == Write(old, 0, SubSeq(store.data, 1, n))
<1>2. PICK n \in 0 .. (Len(store.data) - 1) :
        IF n < Len(old)
        THEN \E x \in Mixed(store.data[n + 1], old[n + 1]) :
               file' = [exists |-> TRUE, data |-> Write(done(n), n, <<x>>), ragged |-> file.ragged]
        ELSE \E r \in BOOLEAN : file' = [exists |-> TRUE, data |-> done(n), ragged |-> r]
    BY DEF CloseCrash
<1>3. old \in Seq(AnyHeader)
    <2>1. <<>> \in Seq(AnyHeader) /\ Len(store.data) \in Nat
        BY <1>1
    <2>. QED BY <1>1, <2>1, ResizeFacts
<1>. HIDE DEF old
<1>4. SubSeq(store.data, 1, n) \in Seq(AnyHeader) /\ Len(SubSeq(store.data, 1, n)) = n
    BY <1>1
<1>5. done(n) \in Seq(AnyHeader) /\ Len(done(n)) \in Nat /\ Len(done(n)) >= n /\ n \in Nat
    <2>1. 0 \in Nat /\ 0 <= Len(old) /\ n \in Nat /\ Len(old) \in Nat /\ 0 + n = n
        BY <1>3
    <2>. DEFINE part == SubSeq(store.data, 1, n)
    <2>2. done(n) = Write(old, 0, part) /\ part \in Seq(AnyHeader) /\ Len(part) = n
        BY <1>4
    <2>. HIDE DEF part, done
    <2>3. /\ done(n) \in Seq(AnyHeader)
          /\ Len(done(n)) = IF Len(old) >= 0 + n THEN Len(old) ELSE 0 + n
        BY <1>3, <2>1, <2>2, WriteFacts
    <2>. QED BY <2>1, <2>3
<1>. HIDE DEF done
<1>6. CASE n < Len(old)
    <2>1. PICK x \in Mixed(store.data[n + 1], old[n + 1]) :
               file' = [exists |-> TRUE, data |-> Write(done(n), n, <<x>>), ragged |-> file.ragged]
        BY <1>2, <1>6
    <2>2. store.data[n + 1] \in AnyHeader /\ old[n + 1] \in AnyHeader
        BY <1>1, <1>3, <1>6
    <2>3. x \in AnyHeader
        BY <2>1, <2>2 DEF Mixed, AnyHeader, Label
    <2>4. <<x>> \in Seq(AnyHeader)
        BY <2>3
    <2>5. Write(done(n), n, <<x>>) \in Seq(AnyHeader)
        BY <1>5, <2>4, WriteFacts
    <2>. QED BY <1>1, <2>1, <2>5 DEF FileType
<1>7. CASE ~(n < Len(old))
    <2>1. PICK r \in BOOLEAN : file' = [exists |-> TRUE, data |-> done(n), ragged |-> r]
        BY <1>2, <1>7
    <2>. QED BY <1>5, <2>1 DEF FileType
<1>. QED BY <1>6, <1>7

\* Steps that leave the store and the file alone.
LEMMA SyncStepType ==
    ASSUME TypeInv, UNCHANGED <<file, store, opened, missing>>,
           server' \in Peer, wire' \in Seq(Peer), updates' \in Seq(Peer),
           connected' \in BOOLEAN, fresh' \in BOOLEAN, tipErr' \in BOOLEAN, fillErr' \in BOOLEAN,
           running' \in {"off", "on", "stopping"}, tip' \in TipState, fill' \in FillState,
           running' # "off" => opened,
           tip'.pc # "off" \/ fill'.pc # "off" => running' # "off",
           tip'.pc \in {"ensure", "ensure2", "connect"} => tip'.height <= Len(store.data)
    PROVE  TypeInv'
<1>1. TypeOK'
    BY DEF TypeInv, TypeOK
<1>2. StoreOpen'
    BY DEF TypeInv, StoreOpen
<1>. QED BY <1>1, <1>2 DEF TypeInv

\* Steps of the workers and of a reader that fetch a checkpointed chunk.
LEMMA FetchStepType ==
    ASSUME TypeInv, opened, NEW c \in 0 .. (Checkpoints - 1), Fetched(c),
           UNCHANGED <<server, wire, updates, connected, fresh, file, opened, running, fillErr>>,
           tip' \in TipState, fill' \in FillState, tipErr' \in BOOLEAN,
           tip'.pc # "off" => tip.pc # "off", fill'.pc # "off" => fill.pc # "off",
           tip'.pc \in {"ensure", "ensure2", "connect"} => tip'.height <= Len(store.data)
    PROVE  TypeInv'
<1>1. /\ store' \in StoreType /\ missing' \in SUBSET (0 .. (Checkpoints - 1))
      /\ Len(store'.data) >= Len(store.data)
    BY FetchedFacts
<1>2. TypeOK'
    BY <1>1 DEF TypeInv, TypeOK
<1>3. Len(store'.data) \in Nat /\ Len(store.data) \in Nat
    BY <1>1 DEF TypeInv, TypeOK, StoreType
<1>4. tip' \in TipState => tip'.height \in Nat
    BY DEF TipState
<1>5. StoreOpen'
    BY <1>1, <1>3, <1>4, Heights DEF TypeInv, StoreOpen
<1>. QED BY <1>2, <1>5 DEF TypeInv

\* ChunkOf of a checkpointed height is a checkpointed chunk.
LEMMA ChunkOfType ==
    ASSUME NEW h \in Int, h >= 0, Checkpointed(h)
    PROVE  ChunkOf(h) \in 0 .. (Checkpoints - 1)
BY BoundsAssumption DEF Checkpointed, ChunkOf

\* TipEnsure either fetches the chunk it wants or leaves the store alone; the batch stays.
LEMMA EnsureFacts ==
    ASSUME TypeInv, TipEnsure
    PROVE  /\ \/ \E c \in 0 .. (Checkpoints - 1) : Fetched(c)
              \/ UNCHANGED <<store, missing>>
           /\ opened /\ tip' \in TipState /\ tipErr' \in BOOLEAN
           /\ \/ /\ tip'.pc \in {"ensure2", "connect"}
                 /\ tip'.height = tip.height /\ tip'.batch = tip.batch /\ tip'.sub = tip.sub
                 /\ UNCHANGED tipErr
              \/ tip'.pc = "idle" /\ tipErr'
<1>1. tip \in TipState /\ tip.pc \in {"ensure", "ensure2"} /\ opened /\ tipErr \in BOOLEAN
    BY DEF TypeInv, TypeOK, StoreOpen, TipEnsure
<1>2. Wanted \in Int
    BY <1>1 DEF Wanted, TipState
<1>3. \/ \E c \in 0 .. (Checkpoints - 1) : Fetched(c)
      \/ UNCHANGED <<store, missing>>
    <2>1. CASE ~(Wanted < 0 \/ HasHeader(Wanted)) /\ Checkpointed(Wanted)
        <3>1. ChunkOf(Wanted) \in 0 .. (Checkpoints - 1)
            BY <1>2, <2>1, ChunkOfType
        <3>2. Fetched(ChunkOf(Wanted))
            BY <2>1 DEF TipEnsure
        <3>. QED BY <3>1, <3>2
    <2>2. CASE ~(~(Wanted < 0 \/ HasHeader(Wanted)) /\ Checkpointed(Wanted))
        BY <2>2 DEF TipEnsure
    <2>. QED BY <2>1, <2>2
<1>4. \/ /\ tip' = [tip EXCEPT !.pc = IF @ = "ensure" THEN "ensure2" ELSE "connect"]
         /\ UNCHANGED tipErr
      \/ TipReturns(TRUE)
    BY DEF TipEnsure
<1>5. CASE tip' = [tip EXCEPT !.pc = IF @ = "ensure" THEN "ensure2" ELSE "connect"] /\ UNCHANGED tipErr
    <2>1. /\ tip' \in TipState /\ tip'.pc \in {"ensure2", "connect"}
          /\ tip'.height = tip.height /\ tip'.batch = tip.batch /\ tip'.sub = tip.sub
        BY <1>1, <1>5 DEF TipState
    <2>. QED BY <1>1, <1>3, <1>5, <2>1
<1>6. CASE TipReturns(TRUE)
    <2>1. TRUE \in BOOLEAN
        OBVIOUS
    <2>2. tip' \in TipState /\ tip'.pc = "idle" /\ tipErr' \in BOOLEAN /\ tipErr'
        BY <1>6, <2>1, TipReturnsType
    <2>. QED BY <1>1, <1>3, <2>2
<1>. QED BY <1>4, <1>5, <1>6

\* TipPull: the update is over, or a batch of the server's headers is at hand, from a
\* height that the store reaches.
LEMMA TipPullFacts ==
    ASSUME TypeInv, TipPull
    PROVE  LET height == IF tip.height > Len(store.data) THEN Len(store.data) ELSE tip.height
           IN  /\ tip' \in TipState /\ height \in Nat /\ height <= Len(store.data)
               /\ \/ server.h < height /\ TipReturns(FALSE)
                  \/ /\ tip'.pc = "ensure" /\ tip'.height = height /\ tip'.sub = tip.sub
                     /\ Len(tip'.batch) >= 1 /\ height + Len(tip'.batch) - 1 <= server.h
                     /\ \A i \in 1 .. Len(tip'.batch) : tip'.batch[i] = Header(server.b, height + i - 1)
                     /\ UNCHANGED tipErr
<1>. DEFINE height == IF tip.height > Len(store.data) THEN Len(store.data) ELSE tip.height
            last == IF height + BatchSize - 1 <= server.h THEN height + BatchSize - 1 ELSE server.h
            batch == [i \in 1 .. (last - height + 1) |-> Header(server.b, height + i - 1)]
<1>1. tip \in TipState /\ store.data \in Seq(AnyHeader) /\ server.h \in Nat /\ server.b \in Branch
    BY BoundsAssumption DEF TypeInv, TypeOK, StoreType, Peer
<1>2. height \in Nat /\ height <= Len(store.data) /\ last \in Int /\ last <= server.h
      /\ (last < height => server.h < height)
    BY <1>1, BoundsAssumption DEF TipState
<1>3. IF last < height THEN TipReturns(FALSE)
      ELSE tip' = [tip EXCEPT !.pc = "ensure", !.height = height, !.batch = batch] /\ UNCHANGED tipErr
    BY DEF TipPull
<1>. HIDE DEF height, last
<1>4. CASE last < height
    <2>1. FALSE \in BOOLEAN /\ TipReturns(FALSE)
        BY <1>3, <1>4
    <2>2. tip' \in TipState
        BY <2>1, TipReturnsType
    <2>. QED BY <1>2, <1>4, <2>1, <2>2 DEF height
<1>5. CASE ~(last < height)
    <2>. DEFINE n == last - height + 1
    <2>1. n \in Nat /\ n >= 1 /\ height + n - 1 <= server.h
        BY <1>1, <1>2, <1>5
    <2>2. batch = [i \in 1 .. n |-> Header(server.b, height + i - 1)]
        OBVIOUS
    <2>. HIDE DEF n, batch
    <2>3. /\ batch \in Seq(AnyHeader) /\ Len(batch) = n
          /\ \A i \in 1 .. n : batch[i] = Header(server.b, height + i - 1)
        <3>1. \A i \in 1 .. n : Header(server.b, height + i - 1) \in AnyHeader
            BY <1>1, <1>2, <2>1, HeaderType
        <3>. QED BY <2>1, <2>2, <3>1
    <2>4. tip' = [tip EXCEPT !.pc = "ensure", !.height = height, !.batch = batch] /\ UNCHANGED tipErr
        BY <1>3, <1>5 DEF batch
    <2>5. /\ tip' \in TipState /\ tip'.pc = "ensure" /\ tip'.height = height /\ tip'.batch = batch
          /\ tip'.sub = tip.sub
        BY <1>1, <1>2, <2>3, <2>4 DEF TipState
    <2>. QED BY <1>2, <2>1, <2>3, <2>4, <2>5 DEF height
<1>. QED BY <1>4, <1>5

\* TipNext: a notified header above the store makes the worker pull, another one is the batch.
LEMMA TipNextFacts ==
    ASSUME TypeInv, TipNext
    PROVE  LET n == Head(updates)
           IN  /\ n \in Peer /\ n.h \in Nat /\ tip' \in TipState /\ tip'.height = n.h
               /\ updates' = Tail(updates) /\ updates' \in Seq(Peer)
               /\ \/ n.h > Len(store.data) /\ tip'.pc = "pull" /\ ~tip'.sub
                  \/ /\ n.h <= Len(store.data) /\ tip'.pc = "ensure" /\ tip'.sub
                     /\ Len(tip'.batch) = 1 /\ tip'.batch[1] = Header(n.b, n.h)
<1>. DEFINE n == Head(updates)
<1>1. updates \in Seq(Peer) /\ updates # <<>> /\ updates' = Tail(updates) /\ store.data \in Seq(AnyHeader)
    BY DEF TypeInv, TypeOK, StoreType, TipNext
<1>2. n \in Peer /\ updates' \in Seq(Peer)
    BY <1>1
<1>3. tip' = IF n.h > Len(store.data)
             THEN [TipOff EXCEPT !.pc = "pull", !.height = n.h]
             ELSE [TipOff EXCEPT !.pc = "ensure", !.height = n.h, !.sub = TRUE,
                                 !.batch = <<Header(n.b, n.h)>>]
    BY DEF TipNext
<1>. HIDE DEF n
<1>4. n.h \in Nat /\ n.b \in Branch /\ Len(store.data) \in Nat
    BY <1>1, <1>2, BoundsAssumption DEF Peer
<1>5. Header(n.b, n.h) \in AnyHeader
    BY <1>4, HeaderType
<1>6. <<Header(n.b, n.h)>> \in Seq(AnyHeader) /\ <<>> \in Seq(AnyHeader)
      /\ Len(<<Header(n.b, n.h)>>) = 1 /\ <<Header(n.b, n.h)>>[1] = Header(n.b, n.h)
    BY <1>5
<1>7. CASE n.h > Len(store.data)
    <2>1. tip' = [pc |-> "pull", height |-> n.h, batch |-> <<>>, sub |-> FALSE, rewound |-> 0]
        BY <1>3, <1>7 DEF TipOff
    <2>2. tip' \in TipState /\ tip'.pc = "pull" /\ tip'.height = n.h /\ tip'.sub = FALSE
        BY <1>4, <1>6, <2>1 DEF TipState
    <2>. QED BY <1>1, <1>2, <1>4, <1>7, <2>2 DEF n
<1>8. CASE ~(n.h > Len(store.data))
    <2>. DEFINE batch == <<Header(n.b, n.h)>>
    <2>1. tip' = [pc |-> "ensure", height |-> n.h, batch |-> batch, sub |-> TRUE, rewound |-> 0]
        BY <1>3, <1>8 DEF TipOff
    <2>2. batch \in Seq(AnyHeader) /\ Len(batch) = 1 /\ batch[1] = Header(n.b, n.h)
        BY <1>6
    <2>. HIDE DEF batch
    <2>3. tip' \in TipState /\ tip'.pc = "ensure" /\ tip'.height = n.h /\ tip'.sub = TRUE /\ tip'.batch = batch
        BY <1>4, <2>1, <2>2 DEF TipState
    <2>. QED BY <1>1, <1>2, <1>4, <1>8, <2>2, <2>3 DEF n
<1>. QED BY <1>7, <1>8

\* TipConnect writes the batch, and pulls on or is done.
LEMMA TipConnectFacts ==
    ASSUME TypeInv, TipConnect
    PROVE  /\ opened /\ store' \in StoreType /\ tip.height \in Nat /\ tip.batch \in Seq(AnyHeader)
           /\ Len(store'.data) >= Len(store.data) /\ Len(store'.data) >= tip.height + Len(tip.batch)
           /\ \A h \in 0 .. (Len(store'.data) - 1) : At(store'.data, h) =
                IF h >= tip.height /\ h < tip.height + Len(tip.batch)
                THEN tip.batch[h - tip.height + 1] ELSE At(store.data, h)
           /\ tip' \in TipState /\ tipErr' \in BOOLEAN
           /\ \/ tip.sub /\ tip'.pc = "idle"
              \/ ~tip.sub /\ tip'.pc = "pull" /\ ~tip'.sub /\ tip'.height = tip.height + Len(tip.batch)
<1>1. /\ tip \in TipState /\ store \in StoreType /\ tip.pc = "connect" /\ opened /\ tipErr \in BOOLEAN
      /\ tip.height <= Len(store.data)
    BY DEF TypeInv, TypeOK, StoreOpen, TipConnect
<1>2. /\ tip.height \in Nat /\ tip.batch \in Seq(AnyHeader) /\ store.data \in Seq(AnyHeader)
      /\ tip.sub \in BOOLEAN /\ Len(tip.batch) \in Nat /\ Len(store.data) \in Nat
    BY <1>1 DEF TipState, StoreType
<1>3. store' = Written(tip.height, tip.batch)
    BY DEF TipConnect
<1>4. /\ store' \in StoreType
      /\ Len(store'.data) = IF Len(store.data) >= tip.height + Len(tip.batch)
                            THEN Len(store.data) ELSE tip.height + Len(tip.batch)
      /\ \A h \in 0 .. (Len(store'.data) - 1) : At(store'.data, h) =
                IF h >= tip.height /\ h < tip.height + Len(tip.batch)
                THEN tip.batch[h - tip.height + 1] ELSE At(store.data, h)
    BY <1>1, <1>2, <1>3, WrittenFacts
<1>5. Len(store'.data) >= Len(store.data) /\ Len(store'.data) >= tip.height + Len(tip.batch)
    BY <1>2, <1>4
<1>6. CASE tip.sub
    <2>1. FALSE \in BOOLEAN /\ TipReturns(FALSE)
        BY <1>6 DEF TipConnect
    <2>2. tip' \in TipState /\ tip'.pc = "idle" /\ tipErr' \in BOOLEAN
        BY <2>1, TipReturnsType
    <2>. QED BY <1>1, <1>2, <1>4, <1>5, <1>6, <2>2
<1>7. CASE ~tip.sub
    <2>1. /\ tip' = [pc |-> "pull", height |-> tip.height + Len(tip.batch), batch |-> <<>>,
                     sub |-> FALSE, rewound |-> 0]
          /\ UNCHANGED tipErr
        BY <1>7 DEF TipConnect, TipOff
    <2>2. <<>> \in Seq(AnyHeader) /\ tip.height + Len(tip.batch) \in Nat
        BY <1>2
    <2>3. /\ tip' \in TipState /\ tip'.pc = "pull" /\ tip'.height = tip.height + Len(tip.batch)
          /\ tip'.sub = FALSE
        BY <2>1, <2>2 DEF TipState
    <2>. QED BY <1>1, <1>2, <1>4, <1>5, <1>7, <2>1, <2>3
<1>. QED BY <1>6, <1>7

\* TipReject goes one header back or gives up.
LEMMA TipRejectFacts ==
    ASSUME TypeInv, TipReject
    PROVE  /\ opened /\ tip' \in TipState /\ tipErr' \in BOOLEAN
           /\ \/ tip'.pc = "idle" /\ tipErr'
              \/ tip'.pc = "pull" /\ ~tip'.sub /\ tip.height # 0 /\ tip'.height = tip.height - 1
<1>1. tip \in TipState /\ tip.pc = "connect" /\ opened /\ tipErr \in BOOLEAN
    BY DEF TypeInv, TypeOK, StoreOpen, TipReject
<1>2. CASE TipReturns(TRUE)
    <2>1. TRUE \in BOOLEAN
        OBVIOUS
    <2>2. tip' \in TipState /\ tip'.pc = "idle" /\ tipErr' \in BOOLEAN /\ tipErr'
        BY <1>2, <2>1, TipReturnsType
    <2>. QED BY <1>1, <2>2
<1>3. CASE /\ tip.height # 0 /\ UNCHANGED tipErr
           /\ tip' = [TipOff EXCEPT !.pc = "pull", !.height = tip.height - 1, !.rewound = tip.rewound + 1]
    <2>1. tip' = [pc |-> "pull", height |-> tip.height - 1, batch |-> <<>>, sub |-> FALSE,
                  rewound |-> tip.rewound + 1]
        BY <1>3 DEF TipOff
    <2>2. <<>> \in Seq(AnyHeader) /\ tip.height - 1 \in Nat /\ tip.rewound + 1 \in Nat
        BY <1>1, <1>3 DEF TipState
    <2>3. tip' \in TipState /\ tip'.pc = "pull" /\ tip'.height = tip.height - 1 /\ tip'.sub = FALSE
        BY <2>1, <2>2 DEF TipState
    <2>. QED BY <1>1, <1>3, <2>3
<1>. QED BY <1>2, <1>3 DEF TipReject

\* Steps of the network: the workers and the store stand.
LEMMA NetworkType ==
    ASSUME TypeInv, NetConnect \/ NetDisconnect \/ ServerExtend \/ ServerReorg \/ Notify
    PROVE  /\ TypeInv'
           /\ UNCHANGED <<file, opened, store, missing, running, tip, tipErr, initialTipDone, fill, fillErr>>
<1>. USE DEF diskVars, storeVars, syncVars
<1>0. /\ server \in Peer /\ wire \in Seq(Peer) /\ updates \in Seq(Peer) /\ connected \in BOOLEAN
      /\ fresh \in BOOLEAN /\ tipErr \in BOOLEAN /\ fillErr \in BOOLEAN
    BY DEF TypeInv, TypeOK
<1>1. UNCHANGED <<file, opened, store, missing, running, tip, tipErr, initialTipDone, fill, fillErr>>
    BY DEF NetConnect, NetDisconnect, ServerExtend, ServerReorg, ServerTip, Notify
<1>2. /\ server' \in Peer /\ wire' \in Seq(Peer) /\ updates' \in Seq(Peer) /\ connected' \in BOOLEAN
      /\ fresh' \in BOOLEAN
    <2>1. CASE NetConnect
        BY <1>0, <2>1 DEF NetConnect
    <2>2. CASE NetDisconnect
        <3>1. <<>> \in Seq(Peer)
            OBVIOUS
        <3>. QED BY <1>0, <2>2, <3>1 DEF NetDisconnect
    <2>3. ASSUME NEW s \in Peer, ServerTip(s)
          PROVE  server' \in Peer /\ wire' \in Seq(Peer) /\ updates' \in Seq(Peer)
                 /\ connected' \in BOOLEAN /\ fresh' \in BOOLEAN
        <3>1. Append(wire, s) \in Seq(Peer)
            BY <1>0
        <3>. QED BY <1>0, <2>3, <3>1 DEF ServerTip
    <2>4. CASE ServerExtend
        <3>1. server.h \in Fork .. MaxHeight /\ server.h < MaxHeight
            BY <1>0, <2>4 DEF Peer, ServerExtend
        <3>2. server.h + 1 \in Fork .. MaxHeight
            BY <3>1, BoundsAssumption
        <3>3. [server EXCEPT !.h = @ + 1] \in Peer
            BY <1>0, <3>2 DEF Peer
        <3>4. ServerTip([server EXCEPT !.h = @ + 1])
            BY <2>4 DEF ServerExtend
        <3>. QED BY <3>3, <3>4, <2>3
    <2>5. CASE ServerReorg
        <3>1. PICK b \in Branch \ {server.b}, h \in Fork .. MaxHeight : ServerTip([b |-> b, h |-> h])
            BY <2>5 DEF ServerReorg
        <3>2. [b |-> b, h |-> h] \in Peer
            BY DEF Peer
        <3>. QED BY <3>1, <3>2, <2>3
    <2>6. CASE Notify
        <3>1. wire' \in Seq(Peer) /\ Head(wire) \in Peer /\ Append(updates, Head(wire)) \in Seq(Peer)
            BY <1>0, <2>6 DEF Notify
        <3>2. updates' \in Seq(Peer) /\ UNCHANGED <<server, connected>>
            BY <1>0, <2>6, <3>1 DEF Notify
        <3>3. fresh' \in BOOLEAN
            BY <1>0, <2>6 DEF Notify
        <3>. QED BY <1>0, <3>1, <3>2, <3>3
    <2>. QED BY <2>1, <2>2, <2>4, <2>5, <2>6
<1>3. TypeOK'
    BY <1>1, <1>2 DEF TypeInv, TypeOK
<1>4. StoreOpen'
    BY <1>1 DEF TypeInv, StoreOpen
<1>. QED BY <1>1, <1>3, <1>4 DEF TypeInv

\* Every step keeps the types.
LEMMA TypeStep ==
    ASSUME TypeInv, [Next]_vars
    PROVE  TypeInv'
<1>. USE DEF serverVars, diskVars, storeVars, syncVars
<1>0. /\ server \in Peer /\ wire \in Seq(Peer) /\ updates \in Seq(Peer) /\ connected \in BOOLEAN
      /\ fresh \in BOOLEAN /\ tipErr \in BOOLEAN /\ fillErr \in BOOLEAN /\ opened \in BOOLEAN
      /\ running \in {"off", "on", "stopping"} /\ tip \in TipState /\ fill \in FillState
      /\ file \in FileType /\ store \in StoreType /\ missing \in SUBSET (0 .. (Checkpoints - 1))
      /\ running # "off" => opened
      /\ tip.pc # "off" \/ fill.pc # "off" => running # "off"
      /\ tip.pc \in {"ensure", "ensure2", "connect"} => tip.height <= Len(store.data)
    BY DEF TypeInv, TypeOK, StoreOpen
<1>a. TipOff \in TipState /\ FillOff \in FillState /\ TipOff.pc = "off" /\ FillOff.pc = "off"
    BY DEF TipState, FillState, TipOff, FillOff
<1>1. CASE Open
    <2>1. store' \in StoreType /\ Len(store'.data) > LastHeight
        BY <1>0, <1>1, OpenFacts DEF Open
    <2>2. missing' \in SUBSET (0 .. (Checkpoints - 1))
        BY <1>0, <1>1 DEF Open, FindMissingCheckpoints
    <2>3. TypeOK'
        BY <1>0, <1>1, <2>1, <2>2 DEF Open, TypeOK
    <2>4. StoreOpen'
        BY <1>0, <1>1, <2>1 DEF Open, StoreOpen
    <2>. QED BY <2>3, <2>4 DEF TypeInv
<1>2. CASE Close
    <2>1. file' \in FileType
        BY <1>2, CommitType DEF Close
    <2>2. store' \in StoreType
        BY <1>2 DEF Close, NoStore, StoreType
    <2>3. TypeOK'
        BY <1>0, <1>2, <2>1, <2>2 DEF Close, TypeOK
    <2>4. StoreOpen'
        BY <1>0, <1>2 DEF Close, StoreOpen
    <2>. QED BY <2>3, <2>4 DEF TypeInv
<1>3. CASE Crash
    BY <1>0, <1>3, NewProcessType DEF Crash
<1>4. CASE CloseCrash
    BY <1>4, CloseCrashType, NewProcessType DEF CloseCrash
<1>5. CASE NetConnect \/ NetDisconnect \/ ServerExtend \/ ServerReorg \/ Notify
    BY <1>5, NetworkType
<1>6. CASE \E c \in 0 .. (Checkpoints - 1) : ReadFetch(c)
    <2>1. PICK c \in 0 .. (Checkpoints - 1) : ReadFetch(c)
        BY <1>6
    <2>. QED BY <1>0, <2>1, FetchStepType DEF ReadFetch
<1>7. CASE FillBegin
    <2>1. fill' \in FillState /\ fill.pc # "off"
        BY <1>0, <1>7 DEF FillBegin, FillState
    <2>. QED BY <1>0, <1>7, <2>1, SyncStepType DEF FillBegin
<1>8. CASE FillStep
    <2>1. fill' \in FillState /\ fill.pc # "off"
        BY <1>0, <1>8 DEF FillStep, FillState
    <2>2. CASE Newest(fill.todo) \in missing
        BY <1>0, <1>8, <2>1, <2>2, FetchStepType DEF FillStep
    <2>3. CASE Newest(fill.todo) \notin missing
        BY <1>0, <1>8, <2>1, <2>3, SyncStepType DEF FillStep
    <2>. QED BY <2>2, <2>3
<1>9. CASE FillDone
    <2>1. fill' \in FillState /\ fill.pc # "off" /\ fillErr' \in BOOLEAN
        BY <1>0, <1>9 DEF FillDone, FillState, FillOff
    <2>. QED BY <1>0, <1>9, <2>1, SyncStepType DEF FillDone
<1>10. CASE FillError \/ FillCancelled
    <2>1. FillEnd /\ fill.pc # "off"
        BY <1>10 DEF FillError, FillCancelled
    <2>2. fill' \in FillState /\ fillErr' \in BOOLEAN
        BY <2>1 DEF FillEnd, FillState, FillOff
    <2>. QED BY <1>0, <2>1, <2>2, SyncStepType DEF FillEnd
<1>11. CASE StartSync
    <2>1. MaxHeight + 2 \in Nat /\ <<>> \in Seq(AnyHeader)
        BY BoundsAssumption
    <2>2. tip' = [pc |-> "pull", height |-> MaxHeight + 2, batch |-> <<>>, sub |-> FALSE, rewound |-> 0]
        BY <1>11 DEF StartSync, TipOff
    <2>3. tip' \in TipState /\ tip'.pc = "pull"
        BY <2>1, <2>2 DEF TipState
    <2>4. fill' \in FillState
        BY <1>11 DEF StartSync, FillState, FillOff
    <2>. QED BY <1>0, <1>11, <2>3, <2>4, SyncStepType DEF StartSync
<1>12. CASE TipPull
    <2>1. tip.pc = "pull" /\ UNCHANGED <<serverVars, diskVars, storeVars, running, fill, fillErr>>
        BY <1>12 DEF TipPull
    <2>2. tip' \in TipState /\ tipErr' \in BOOLEAN
        <3>1. FALSE \in BOOLEAN
            OBVIOUS
        <3>. QED BY <1>0, <1>12, <3>1, TipPullFacts, TipReturnsType
    <2>3. tip'.pc \in {"ensure", "ensure2", "connect"} => tip'.height <= Len(store.data)
        <3>1. FALSE \in BOOLEAN
            OBVIOUS
        <3>. QED BY <1>0, <1>12, <3>1, TipPullFacts, TipReturnsType
    <2>. QED BY <1>0, <2>1, <2>2, <2>3, SyncStepType
<1>13. CASE TipNext
    <2>1. /\ tip.pc = "idle"
          /\ UNCHANGED <<server, connected, wire, fresh, diskVars, storeVars, running, tipErr, fill, fillErr>>
        BY <1>13 DEF TipNext
    <2>2. /\ tip' \in TipState /\ updates' \in Seq(Peer)
          /\ tip'.pc \in {"ensure", "ensure2", "connect"} => tip'.height <= Len(store.data)
        BY <1>13, TipNextFacts
    <2>. QED BY <1>0, <2>1, <2>2, SyncStepType
<1>14. CASE TipEnsure
    <2>1. /\ tip.pc \in {"ensure", "ensure2"}
          /\ UNCHANGED <<serverVars, diskVars, opened, running, fill, fillErr>>
        BY <1>14 DEF TipEnsure
    <2>2. /\ tip' \in TipState /\ tipErr' \in BOOLEAN /\ opened
          /\ tip'.pc \in {"ensure", "ensure2", "connect"} => tip'.height <= Len(store.data)
          /\ \/ \E c \in 0 .. (Checkpoints - 1) : Fetched(c)
             \/ UNCHANGED <<store, missing>>
        BY <1>0, <1>14, <2>1, EnsureFacts
    <2>3. CASE \E c \in 0 .. (Checkpoints - 1) : Fetched(c)
        BY <1>0, <2>1, <2>2, <2>3, FetchStepType
    <2>4. CASE UNCHANGED <<store, missing>>
        BY <1>0, <2>1, <2>2, <2>4, SyncStepType
    <2>. QED BY <2>2, <2>3, <2>4
<1>15. CASE TipConnect
    <2>1. tip.pc = "connect" /\ UNCHANGED <<serverVars, diskVars, opened, missing, running, fill, fillErr>>
        BY <1>15 DEF TipConnect
    <2>2. /\ store' \in StoreType /\ tip' \in TipState /\ tipErr' \in BOOLEAN
          /\ Len(store'.data) >= Len(store.data) /\ tip'.pc \in {"idle", "pull"}
        BY <1>15, TipConnectFacts
    <2>3. Len(store'.data) \in Nat /\ Len(store.data) \in Nat
        BY <1>0, <2>2 DEF StoreType
    <2>4. TypeOK'
        BY <1>0, <2>1, <2>2 DEF TypeOK
    <2>5. StoreOpen'
        BY <1>0, <2>1, <2>2, <2>3, Heights DEF TypeInv, StoreOpen
    <2>. QED BY <2>4, <2>5 DEF TypeInv
<1>16. CASE TipReject
    <2>1. tip.pc = "connect" /\ UNCHANGED <<serverVars, diskVars, storeVars, running, fill, fillErr>>
        BY <1>16 DEF TipReject
    <2>2. tip' \in TipState /\ tipErr' \in BOOLEAN /\ tip'.pc \in {"idle", "pull"}
        BY <1>16, TipRejectFacts
    <2>. QED BY <1>0, <2>1, <2>2, SyncStepType
<1>17. CASE TipError \/ TipCancelled
    <2>1. /\ tip.pc # "off" /\ TipReturns(TRUE)
          /\ UNCHANGED <<serverVars, diskVars, storeVars, running, fill, fillErr>>
        BY <1>17 DEF TipError, TipCancelled
    <2>2. TRUE \in BOOLEAN
        OBVIOUS
    <2>3. tip' \in TipState /\ tipErr' \in BOOLEAN /\ tip'.pc = "idle"
        BY <2>1, <2>2, TipReturnsType
    <2>. QED BY <1>0, <2>1, <2>3, SyncStepType
<1>18. CASE TipExit
    BY <1>0, <1>a, <1>18, SyncStepType DEF TipExit
<1>19. CASE StopSync
    <2>1. <<>> \in Seq(Peer)
        OBVIOUS
    <2>. QED BY <1>0, <1>19, <2>1, SyncStepType DEF StopSync
<1>20. CASE StopDone
    <2>1. <<>> \in Seq(Peer)
        OBVIOUS
    <2>. QED BY <1>0, <1>a, <1>20, <2>1, SyncStepType DEF StopDone
<1>21. CASE UNCHANGED vars
    <2>1. TypeOK' /\ StoreOpen'
        BY <1>21 DEF vars, TypeInv, TypeOK, StoreOpen
    <2>. QED BY <2>1 DEF TypeInv
<1>. QED
    BY <1>1, <1>2, <1>3, <1>4, <1>5, <1>6, <1>7, <1>8, <1>9, <1>10, <1>11, <1>12, <1>13, <1>14,
       <1>15, <1>16, <1>17, <1>18, <1>19, <1>20, <1>21 DEF Next

-----------------------------------------------------------------------------
(* What the store takes for present is present *)

\* The batch at hand has the headers all chains share, below the fork.
BatchRight ==
    tip.pc \in {"ensure", "ensure2", "connect"} =>
        \A i \in 1 .. Len(tip.batch) :
            tip.height + i - 1 < Fork => tip.batch[i] = Header("trunk", tip.height + i - 1)

\* What is missing is on the list of the fill that runs.
FillCovers == fill.pc = "run" => missing \subseteq fill.todo

\* What HeadersComplete needs to be inductive.  The tip worker writes into the checkpoints
\* too, after a rewind or on a short file: CheckpointsExact stands on BatchRight; and the
\* fill works from a list made once, which covers what is missing as long as nothing else
\* becomes missing while it runs.
HeadersInv == TypeInv /\ BatchRight /\ FillCovers /\ CheckpointsExact /\ FillComplete

\* Steps that leave the store alone, the workers aside.
LEMMA QuietHeaders ==
    ASSUME HeadersInv, UNCHANGED <<opened, store, missing>>, BatchRight', FillCovers', FillComplete', TypeInv'
    PROVE  HeadersInv'
<1>1. CheckpointsExact'
    BY DEF HeadersInv, CheckpointsExact
<1>. QED BY <1>1 DEF HeadersInv

\* A fetched chunk is exact and no longer missing.
LEMMA FetchHeaders ==
    ASSUME HeadersInv, opened, NEW c \in 0 .. (Checkpoints - 1), Fetched(c), UNCHANGED opened
    PROVE  CheckpointsExact' /\ missing' = missing \ {c}
<1>1. /\ missing' = missing \ {c} /\ Exact(store'.data, c)
      /\ \A d \in 0 .. (Checkpoints - 1) : d # c /\ Exact(store.data, d) => Exact(store'.data, d)
    BY FetchedFacts DEF HeadersInv
<1>2. \A d \in 0 .. (Checkpoints - 1) : d \notin missing => Exact(store.data, d)
    BY DEF HeadersInv, CheckpointsExact
<1>3. CheckpointsExact'
    BY <1>1, <1>2 DEF CheckpointsExact
<1>. QED BY <1>1, <1>3

\* A written batch leaves an exact chunk exact: where it overlaps the chunk it has the
\* headers all chains share.
LEMMA ConnectHeaders ==
    ASSUME HeadersInv, TipConnect
    PROVE  CheckpointsExact'
<1>. DEFINE d == store'.data
<1>1. /\ opened /\ store' \in StoreType /\ tip.height \in Nat /\ tip.batch \in Seq(AnyHeader)
      /\ Len(d) >= Len(store.data)
      /\ \A h \in 0 .. (Len(d) - 1) : At(d, h) =
           IF h >= tip.height /\ h < tip.height + Len(tip.batch)
           THEN tip.batch[h - tip.height + 1] ELSE At(store.data, h)
    BY TipConnectFacts DEF HeadersInv
<1>2. UNCHANGED <<opened, missing>> /\ tip.pc = "connect"
    BY DEF TipConnect
<1>3. Len(d) \in Nat /\ Len(store.data) \in Nat /\ Len(tip.batch) \in Nat
    BY <1>1 DEF HeadersInv, TypeInv, TypeOK, StoreType
<1>4. \A i \in 1 .. Len(tip.batch) :
          tip.height + i - 1 < Fork => tip.batch[i] = Header("trunk", tip.height + i - 1)
    BY <1>2 DEF HeadersInv, BatchRight
<1>. HIDE DEF d
<1>5. ASSUME NEW c \in 0 .. (Checkpoints - 1), c \notin missing
      PROVE  Exact(d, c)
    <2>. SUFFICES ASSUME NEW h \in Chunk(c)
                  PROVE  h < Len(d) /\ At(d, h) = Header("trunk", h)
        BY DEF Exact
    <2>1. h < Len(store.data) /\ At(store.data, h) = Header("trunk", h)
        BY <1>1, <1>5 DEF HeadersInv, CheckpointsExact, Exact
    <2>2. h \in Nat /\ h < Fork
        BY ChunkBounds, BoundsAssumption
    <2>3. h \in 0 .. (Len(d) - 1)
        BY <1>1, <1>3, <2>1, <2>2
    <2>4. CASE h >= tip.height /\ h < tip.height + Len(tip.batch)
        <3>1. h - tip.height + 1 \in 1 .. Len(tip.batch) /\ tip.height + (h - tip.height + 1) - 1 = h
            BY <1>1, <1>3, <2>2, <2>4, SMTT(30)
        <3>2. tip.batch[h - tip.height + 1] = Header("trunk", h)
            BY <1>4, <2>2, <3>1
        <3>. QED BY <1>1, <2>3, <2>4, <3>2
    <2>5. CASE ~(h >= tip.height /\ h < tip.height + Len(tip.batch))
        BY <1>1, <2>1, <2>3, <2>5
    <2>. QED BY <2>4, <2>5
<1>. QED BY <1>2, <1>5 DEF CheckpointsExact, d

LEMMA HeadersInit == Init => HeadersInv
<1>. SUFFICES ASSUME Init PROVE HeadersInv
    OBVIOUS
<1>1. tip.pc = "off" /\ fill.pc = "off"
    BY DEF Init, TipOff, FillOff
<1>2. BatchRight /\ FillCovers /\ FillComplete
    BY <1>1 DEF BatchRight, FillCovers, FillComplete
<1>3. CheckpointsExact
    BY DEF Init, CheckpointsExact
<1>. QED BY <1>2, <1>3, TypeInit DEF HeadersInv

\* Every step keeps the invariant.
LEMMA HeadersStep ==
    ASSUME HeadersInv, [Next]_vars
    PROVE  HeadersInv'
<1>. USE DEF serverVars, diskVars, storeVars, syncVars
<1>0. TypeInv /\ TypeInv' /\ BatchRight /\ FillCovers /\ CheckpointsExact /\ FillComplete
    BY TypeStep DEF HeadersInv
<1>a. /\ running # "off" => opened
      /\ tip.pc # "off" \/ fill.pc # "off" => running # "off"
      /\ missing \in SUBSET (0 .. (Checkpoints - 1))
    BY <1>0 DEF TypeInv, TypeOK, StoreOpen
<1>b. UNCHANGED tip => BatchRight'
    BY <1>0 DEF BatchRight
<1>c. UNCHANGED <<fill, missing>> => FillCovers'
    BY <1>0 DEF FillCovers
<1>d. UNCHANGED <<fill, fillErr, running, missing>> => FillComplete'
    BY <1>0 DEF FillComplete
<1>e. tip'.pc \in {"off", "idle", "pull"} => BatchRight'
    BY DEF BatchRight
<1>f. fill'.pc \in {"off", "wait"} => FillCovers' /\ FillComplete'
    BY DEF FillCovers, FillComplete
<1>1. CASE Open
    <2>1. tip.pc = "off" /\ fill.pc = "off" /\ UNCHANGED <<tip, fill>>
        BY <1>1, <1>a DEF Open
    <2>2. CheckpointsExact'
        BY <1>1 DEF Open, FindMissingCheckpoints, CheckpointsExact
    <2>. QED BY <1>0, <1>b, <1>f, <2>1, <2>2 DEF HeadersInv
<1>2. CASE Close
    <2>1. tip.pc = "off" /\ fill.pc = "off" /\ UNCHANGED <<tip, fill>> /\ ~opened'
        BY <1>2, <1>a DEF Close
    <2>2. CheckpointsExact'
        BY <2>1 DEF CheckpointsExact
    <2>. QED BY <1>0, <1>b, <1>f, <2>1, <2>2 DEF HeadersInv
<1>3. CASE Crash \/ CloseCrash
    <2>1. tip'.pc = "off" /\ fill'.pc = "off" /\ ~opened'
        BY <1>3 DEF Crash, CloseCrash, NewProcess, TipOff, FillOff
    <2>2. CheckpointsExact'
        BY <2>1 DEF CheckpointsExact
    <2>. QED BY <1>0, <1>e, <1>f, <2>1, <2>2 DEF HeadersInv
<1>4. CASE NetConnect \/ NetDisconnect \/ ServerExtend \/ ServerReorg \/ Notify
    BY <1>0, <1>4, <1>b, <1>c, <1>d, NetworkType, QuietHeaders
<1>5. CASE \E c \in 0 .. (Checkpoints - 1) : ReadFetch(c)
    <2>1. PICK c \in 0 .. (Checkpoints - 1) : ReadFetch(c)
        BY <1>5
    <2>2. opened /\ Fetched(c) /\ UNCHANGED <<opened, tip, fill, fillErr, running>>
        BY <2>1 DEF ReadFetch
    <2>3. CheckpointsExact' /\ missing' = missing \ {c}
        BY <2>2, FetchHeaders
    <2>4. FillCovers' /\ FillComplete'
        BY <1>0, <2>2, <2>3 DEF FillCovers, FillComplete
    <2>. QED BY <1>0, <1>b, <2>2, <2>3, <2>4 DEF HeadersInv
<1>6. CASE FillBegin
    <2>1. UNCHANGED <<opened, store, missing, tip>> /\ fill' = [pc |-> "run", todo |-> missing]
        BY <1>6 DEF FillBegin
    <2>2. FillCovers' /\ FillComplete'
        BY <2>1 DEF FillCovers, FillComplete
    <2>. QED BY <1>0, <1>b, <2>1, <2>2, QuietHeaders
<1>7. CASE FillStep
    <2>. DEFINE c == Newest(fill.todo)
    <2>1. /\ fill.pc = "run" /\ opened /\ UNCHANGED <<opened, tip, running, fillErr>>
          /\ fill' = [fill EXCEPT !.todo = @ \ {c}]
          /\ IF c \in missing THEN Fetched(c) ELSE UNCHANGED <<store, missing>>
        BY <1>7, <1>a DEF FillStep
    <2>2. fill'.pc = "run" /\ fill'.todo = fill.todo \ {c}
        <3>1. fill \in FillState
            BY <1>0 DEF TypeInv, TypeOK
        <3>. QED BY <2>1, <3>1 DEF FillState
    <2>. HIDE DEF c
    <2>3. missing' \subseteq fill.todo \ {c} /\ CheckpointsExact'
        <3>1. CASE c \in missing
            <4>1. c \in 0 .. (Checkpoints - 1) /\ Fetched(c)
                BY <1>a, <2>1, <3>1
            <4>2. CheckpointsExact' /\ missing' = missing \ {c}
                BY <2>1, <4>1, FetchHeaders
            <4>. QED BY <1>0, <2>1, <4>2 DEF FillCovers
        <3>2. CASE c \notin missing
            <4>1. UNCHANGED <<opened, store, missing>>
                BY <2>1, <3>2
            <4>2. CheckpointsExact'
                BY <1>0, <4>1 DEF CheckpointsExact
            <4>. QED BY <1>0, <2>1, <3>2, <4>1, <4>2 DEF FillCovers
        <3>. QED BY <3>1, <3>2
    <2>4. FillCovers' /\ FillComplete'
        BY <2>2, <2>3 DEF FillCovers, FillComplete
    <2>. QED BY <1>0, <1>b, <2>1, <2>3, <2>4 DEF HeadersInv
<1>8. CASE FillDone
    <2>1. /\ UNCHANGED <<opened, store, missing, tip>> /\ fill'.pc = "done"
          /\ fill.pc = "run" /\ fill.todo = {}
        BY <1>8 DEF FillDone, FillOff
    <2>2. missing = {}
        BY <1>0, <2>1 DEF FillCovers
    <2>3. FillCovers' /\ FillComplete'
        BY <2>1, <2>2 DEF FillCovers, FillComplete
    <2>. QED BY <1>0, <1>b, <2>1, <2>3, QuietHeaders
<1>9. CASE FillError \/ FillCancelled
    <2>1. UNCHANGED <<opened, store, missing, tip>> /\ fill'.pc = "done" /\ fillErr'
        BY <1>9 DEF FillError, FillCancelled, FillEnd, FillOff
    <2>2. FillCovers' /\ FillComplete'
        BY <2>1 DEF FillCovers, FillComplete
    <2>. QED BY <1>0, <1>b, <2>1, <2>2, QuietHeaders
<1>10. CASE StartSync
    <2>1. UNCHANGED <<opened, store, missing>> /\ fill'.pc = "wait" /\ tip'.pc = "pull"
        BY <1>10 DEF StartSync, TipOff, FillOff
    <2>. QED BY <1>0, <1>e, <1>f, <2>1, QuietHeaders
<1>11. CASE TipPull
    <2>1. UNCHANGED <<opened, store, missing, fill, fillErr, running, server>>
        BY <1>11 DEF TipPull
    <2>2. BatchRight'
        <3>. SUFFICES ASSUME tip'.pc \in {"ensure", "ensure2", "connect"},
                             NEW i \in 1 .. Len(tip'.batch), tip'.height + i - 1 < Fork
                      PROVE  tip'.batch[i] = Header("trunk", tip'.height + i - 1)
            BY DEF BatchRight
        <3>1. FALSE \in BOOLEAN
            OBVIOUS
        <3>2. /\ tip'.height \in Nat /\ tip'.batch \in Seq(AnyHeader)
              /\ tip'.batch[i] = Header(server.b, tip'.height + i - 1)
            BY <1>0, <1>11, <3>1, TipPullFacts, TipReturnsType DEF TipState
        <3>3. server.b \in Branch \cup {"trunk"} /\ tip'.height + i - 1 \in Nat
            BY <1>0, <3>2 DEF TypeInv, TypeOK, Peer
        <3>. QED BY <3>2, <3>3, HeaderType
    <2>. QED BY <1>0, <1>c, <1>d, <2>1, <2>2, QuietHeaders
<1>12. CASE TipNext
    <2>1. UNCHANGED <<opened, store, missing, fill, fillErr, running>>
        BY <1>12 DEF TipNext
    <2>2. BatchRight'
        <3>. SUFFICES ASSUME tip'.pc \in {"ensure", "ensure2", "connect"},
                             NEW i \in 1 .. Len(tip'.batch), tip'.height + i - 1 < Fork
                      PROVE  tip'.batch[i] = Header("trunk", tip'.height + i - 1)
            BY DEF BatchRight
        <3>. DEFINE n == Head(updates)
        <3>1. /\ n \in Peer /\ n.h \in Nat /\ tip'.height = n.h
              /\ Len(tip'.batch) = 1 /\ tip'.batch[1] = Header(n.b, n.h)
            BY <1>0, <1>12, TipNextFacts
        <3>. HIDE DEF n
        <3>2. i = 1 /\ tip'.height + i - 1 = n.h /\ n.b \in Branch \cup {"trunk"}
            BY <3>1 DEF Peer
        <3>. QED BY <3>1, <3>2, HeaderType
    <2>. QED BY <1>0, <1>c, <1>d, <2>1, <2>2, QuietHeaders
<1>13. CASE TipEnsure
    <2>1. UNCHANGED <<opened, fill, fillErr, running>> /\ tip.pc \in {"ensure", "ensure2"}
        BY <1>13 DEF TipEnsure
    <2>2. /\ opened
          /\ \/ \E c \in 0 .. (Checkpoints - 1) : Fetched(c)
             \/ UNCHANGED <<store, missing>>
          /\ tip'.pc \in {"ensure", "ensure2", "connect"} => tip'.height = tip.height /\ tip'.batch = tip.batch
        BY <1>0, <1>13, EnsureFacts
    <2>3. BatchRight'
        BY <1>0, <2>1, <2>2 DEF BatchRight
    <2>4. CASE \E c \in 0 .. (Checkpoints - 1) : Fetched(c)
        <3>1. PICK c \in 0 .. (Checkpoints - 1) : Fetched(c)
            BY <2>4
        <3>2. CheckpointsExact' /\ missing' = missing \ {c}
            BY <2>1, <2>2, <3>1, FetchHeaders
        <3>3. FillCovers' /\ FillComplete'
            BY <1>0, <2>1, <3>2 DEF FillCovers, FillComplete
        <3>. QED BY <1>0, <2>3, <3>2, <3>3 DEF HeadersInv
    <2>5. CASE UNCHANGED <<store, missing>>
        BY <1>0, <1>c, <1>d, <2>1, <2>3, <2>5, QuietHeaders
    <2>. QED BY <2>2, <2>4, <2>5
<1>14. CASE TipConnect
    <2>1. UNCHANGED <<opened, missing, fill, fillErr, running>>
        BY <1>14 DEF TipConnect
    <2>2. tip'.pc \in {"off", "idle", "pull"}
        BY <1>0, <1>14, TipConnectFacts
    <2>3. CheckpointsExact'
        BY <1>14, ConnectHeaders
    <2>. QED BY <1>0, <1>c, <1>d, <1>e, <2>1, <2>2, <2>3 DEF HeadersInv
<1>15. CASE TipReject
    <2>1. UNCHANGED <<opened, store, missing, fill, fillErr, running>>
        BY <1>15 DEF TipReject
    <2>2. tip'.pc \in {"off", "idle", "pull"}
        BY <1>0, <1>15, TipRejectFacts
    <2>. QED BY <1>0, <1>c, <1>d, <1>e, <2>1, <2>2, QuietHeaders
<1>16. CASE TipError \/ TipCancelled \/ TipExit
    <2>1. UNCHANGED <<opened, store, missing, fill, fillErr, running>>
        BY <1>16 DEF TipError, TipCancelled, TipExit
    <2>2. tip'.pc \in {"off", "idle", "pull"}
        BY <1>16 DEF TipError, TipCancelled, TipExit, TipReturns, TipOff
    <2>. QED BY <1>0, <1>c, <1>d, <1>e, <2>1, <2>2, QuietHeaders
<1>17. CASE StopSync
    <2>1. UNCHANGED <<opened, store, missing, fill, fillErr, tip>> /\ running' # "on"
        BY <1>17 DEF StopSync
    <2>2. FillComplete'
        BY <2>1 DEF FillComplete
    <2>. QED BY <1>0, <1>b, <1>c, <2>1, <2>2, QuietHeaders
<1>18. CASE StopDone
    <2>1. UNCHANGED <<opened, store, missing, tip>> /\ fill'.pc = "off"
        BY <1>18 DEF StopDone, FillOff
    <2>. QED BY <1>0, <1>b, <1>f, <2>1, QuietHeaders
<1>19. CASE UNCHANGED vars
    <2>1. UNCHANGED <<opened, store, missing, tip, fill, fillErr, running>>
        BY <1>19 DEF vars
    <2>. QED BY <1>0, <1>b, <1>c, <1>d, <2>1, QuietHeaders
<1>. QED
    BY <1>1, <1>2, <1>3, <1>4, <1>5, <1>6, <1>7, <1>8, <1>9, <1>10, <1>11, <1>12, <1>13, <1>14,
       <1>15, <1>16, <1>17, <1>18, <1>19 DEF Next

\* HeadersInv holds in every reachable state.
THEOREM HeadersInvariance == Spec => []HeadersInv
<1>1. Init => HeadersInv
    BY HeadersInit
<1>2. HeadersInv /\ [Next]_vars => HeadersInv'
    BY HeadersStep
<1>. QED BY <1>1, <1>2, PTL DEF Spec

\* Checkpointed headers are never taken for present when they are not: neither by
\* HasHeader, whatever crash, rewind or short file came before, nor by a checkpoint fill
\* that reports success.
THEOREM HeadersCompleteHolds == Spec => []HeadersComplete
<1>1. HeadersInv => HeadersComplete
    BY DEF HeadersInv, HeadersComplete
<1>. QED BY <1>1, HeadersInvariance, PTL

-----------------------------------------------------------------------------
(* What is opened is linked *)

\* However the last commit ended, opening leaves no broken link above the checkpoints,
\* except at the very first header there.
THEOREM OpenLinkedHolds == Spec => OpenLinked
<1>. DEFINE Linked == \A h \in (RepairStart + 1) .. (Len(store'.data) - 1) : LinkedAt(store'.data, h)
<1>1. ASSUME TypeInv, [Next]_vars
      PROVE  [~opened /\ opened' => Linked]_vars
    <2>. USE DEF serverVars, diskVars, storeVars, syncVars
    <2>. SUFFICES ASSUME Next, ~opened, opened'
                  PROVE  Linked
        BY <1>1
    <2>1. Open
        <3>1. ~(opened' = opened)
            OBVIOUS
        <3>2. ~(Close \/ Crash \/ CloseCrash)
            BY DEF Close, Crash, CloseCrash, NewProcess
        <3>3. ~(NetConnect \/ NetDisconnect \/ ServerExtend \/ ServerReorg \/ Notify)
            BY <1>1, <3>1, NetworkType
        <3>4. ~(\E c \in 0 .. (Checkpoints - 1) : ReadFetch(c))
            BY DEF ReadFetch
        <3>5. ~(FillBegin \/ FillStep \/ FillDone \/ FillError \/ FillCancelled)
            BY <3>1 DEF FillBegin, FillStep, FillDone, FillError, FillCancelled, FillEnd
        <3>6. ~(StartSync \/ TipPull \/ TipNext \/ TipEnsure \/ TipConnect \/ TipReject)
            BY <3>1 DEF StartSync, TipPull, TipNext, TipEnsure, TipConnect, TipReject
        <3>7. ~(TipError \/ TipCancelled \/ TipExit \/ StopSync \/ StopDone)
            BY <3>1 DEF TipError, TipCancelled, TipExit, StopSync, StopDone
        <3>. QED BY <3>2, <3>3, <3>4, <3>5, <3>6, <3>7 DEF Next
    <2>2. file \in FileType /\ store' = Sized(Repaired(file))
        BY <1>1, <2>1 DEF TypeInv, TypeOK, Open
    <2>. QED BY <2>2, OpenFacts
<1>2. HeadersInv => TypeInv
    BY DEF HeadersInv
<1>. QED BY <1>1, <1>2, HeadersInvariance, PTL DEF Spec, OpenLinked

-----------------------------------------------------------------------------
(* The tip worker ends on the server's tip *)

\* The store has the server's tip.
Follows == Len(store.data) > server.h /\ At(store.data, server.h) = Header(server.b, server.h)

\* What the update at hand has to have done so far, when the server's present tip was
\* handed to it: the batch is the server's and ends at or below its tip, and a pull that
\* starts above the tip starts there because the tip was written.
Tracking ==
    /\ tip.pc = "idle" => tipErr \/ Follows
    /\ tip.pc = "pull" =>
         /\ ~tip.sub
         /\ IF tip.height > Len(store.data) THEN Len(store.data) <= server.h
            ELSE tip.height <= server.h \/ (tip.height = server.h + 1 /\ Follows)
    /\ tip.pc \in {"ensure", "ensure2", "connect"} =>
         /\ Len(tip.batch) >= 1 /\ tip.height + Len(tip.batch) - 1 <= server.h
         /\ tip.sub => tip.height = server.h
         /\ \A i \in 1 .. Len(tip.batch) : tip.batch[i] = Header(server.b, tip.height + i - 1)

\* What TipFollows needs to be inductive: the server's tip, once handed over, is the last
\* of the updates until the worker takes it, and the worker is on its track from then on;
\* notifications come only while the sync runs.
Handed == fresh => IF updates # <<>> THEN updates[Len(updates)] = server ELSE Tracking
Subscribed ==
    /\ running # "on" => ~connected
    /\ ~connected => wire = <<>>
    /\ running = "off" => ~fresh
TrackInv == TypeInv /\ Subscribed /\ Handed

\* Tracking survives a fetched chunk, which ends below the fork.
LEMMA FetchTracking ==
    ASSUME TypeInv, opened, Tracking, NEW c \in 0 .. (Checkpoints - 1), Fetched(c),
           UNCHANGED <<server, tip, tipErr>>
    PROVE  Tracking'
<1>1. /\ store' \in StoreType /\ Len(store'.data) >= Len(store.data)
      /\ Len(store'.data) <= Len(store.data) \/ Len(store'.data) < Fork
      /\ \A h \in Nat : h >= Fork /\ h < Len(store.data) => At(store'.data, h) = At(store.data, h)
    BY FetchedFacts
<1>2. /\ server.h \in Nat /\ server.h >= Fork /\ Fork \in Nat
      /\ Len(store.data) \in Nat /\ Len(store'.data) \in Nat /\ tip.height \in Nat
    BY <1>1, BoundsAssumption DEF TypeInv, TypeOK, Peer, StoreType, TipState
<1>3. Follows => Follows'
    BY <1>1, <1>2 DEF Follows
<1>. QED BY <1>1, <1>2, <1>3 DEF Tracking

\* Steps after which the worker is where it was on the server's track, the updates aside.
LEMMA HandedFrame ==
    ASSUME Handed, UNCHANGED <<server, updates, fresh>>, Tracking => Tracking'
    PROVE  Handed'
BY DEF Handed

LEMMA TrackInit == Init => TrackInv
<1>1. Init => Subscribed /\ Handed
    BY DEF Init, Subscribed, Handed
<1>. QED BY <1>1, TypeInit DEF TrackInv

\* Every step keeps the invariant.
LEMMA TrackStep ==
    ASSUME TrackInv, [Next]_vars
    PROVE  TrackInv'
<1>. USE DEF serverVars, diskVars, storeVars, syncVars
<1>0. TypeInv /\ TypeInv' /\ Subscribed /\ Handed
    BY TypeStep DEF TrackInv
<1>a. /\ running # "off" => opened
      /\ tip.pc # "off" \/ fill.pc # "off" => running # "off"
      /\ missing \in SUBSET (0 .. (Checkpoints - 1))
      /\ wire \in Seq(Peer) /\ updates \in Seq(Peer) /\ server \in Peer
      /\ server.h \in Nat /\ server.b \in Branch /\ Len(store.data) \in Nat
      /\ tip.height \in Nat /\ Len(tip.batch) \in Nat /\ tip.sub \in BOOLEAN
    <2>1. TypeOK /\ StoreOpen
        BY <1>0 DEF TypeInv
    <2>2. /\ running # "off" => opened
          /\ tip.pc # "off" \/ fill.pc # "off" => running # "off"
        BY <2>1 DEF StoreOpen
    <2>3. /\ missing \in SUBSET (0 .. (Checkpoints - 1))
          /\ wire \in Seq(Peer) /\ updates \in Seq(Peer) /\ server \in Peer
          /\ store \in StoreType /\ tip \in TipState
        BY <2>1 DEF TypeOK
    <2>4. server.h \in Nat /\ server.b \in Branch
        BY <2>3, BoundsAssumption DEF Peer
    <2>5. Len(store.data) \in Nat
        BY <2>3 DEF StoreType
    <2>6. tip.height \in Nat /\ Len(tip.batch) \in Nat /\ tip.sub \in BOOLEAN
        BY <2>3, BoundsAssumption DEF TipState
    <2>. QED BY <2>2, <2>3, <2>4, <2>5, <2>6
<1>b. UNCHANGED <<running, connected, wire, fresh>> => Subscribed'
    BY <1>0 DEF Subscribed
<1>c. ~fresh' => Handed'
    BY DEF Handed
<1>d. UNCHANGED <<server, updates, fresh, tip, tipErr, store>> => Handed'
    BY <1>0 DEF Handed, Tracking, Follows
<1>1. CASE Open \/ Close
    <2>1. running = "off" /\ UNCHANGED <<running, connected, wire, fresh>>
        BY <1>1, <1>a DEF Open, Close
    <2>2. ~fresh'
        BY <1>0, <2>1 DEF Subscribed
    <2>. QED BY <1>0, <1>b, <1>c, <2>1, <2>2 DEF TrackInv
<1>2. CASE Crash \/ CloseCrash
    <2>1. ~fresh' /\ ~connected' /\ wire' = <<>>
        BY <1>2 DEF Crash, CloseCrash, NewProcess
    <2>2. Subscribed'
        BY <2>1 DEF Subscribed
    <2>. QED BY <1>0, <1>c, <2>1, <2>2 DEF TrackInv
<1>3. CASE NetConnect \/ NetDisconnect
    <2>1. UNCHANGED <<server, updates, fresh, tip, tipErr, store, running>>
        BY <1>3 DEF NetConnect, NetDisconnect
    <2>2. Subscribed'
        BY <1>0, <1>3 DEF NetConnect, NetDisconnect, Subscribed
    <2>. QED BY <1>0, <1>d, <2>1, <2>2 DEF TrackInv
<1>4. CASE ServerExtend \/ ServerReorg
    <2>1. ~fresh' /\ UNCHANGED <<connected, running>> /\ (~connected => wire' = wire)
        BY <1>4 DEF ServerExtend, ServerReorg, ServerTip
    <2>2. Subscribed'
        BY <1>0, <2>1 DEF Subscribed
    <2>. QED BY <1>0, <1>c, <2>1, <2>2 DEF TrackInv
<1>5. CASE Notify
    <2>1. /\ wire # <<>> /\ UNCHANGED <<server, connected, running, tip, tipErr, store>>
          /\ wire' = Tail(wire)
        BY <1>5 DEF Notify
    <2>2. running = "on" /\ connected
        BY <1>0, <2>1 DEF Subscribed
    <2>3. Subscribed'
        BY <2>1, <2>2 DEF Subscribed
    <2>4. Handed'
        <3>1. CASE UNCHANGED <<updates, fresh>>
            BY <1>d, <2>1, <3>1
        <3>2. CASE updates' = Append(updates, Head(wire)) /\ fresh' = (Len(wire) = 1 /\ Head(wire) = server)
            <4>1. Head(wire) \in Peer
                BY <1>a, <2>1
            <4>2. updates' # <<>> /\ updates'[Len(updates')] = Head(wire)
                BY <1>a, <3>2, <4>1
            <4>3. fresh' => Head(wire) = server
                BY <3>2
            <4>. QED BY <2>1, <4>2, <4>3 DEF Handed
        <3>. QED BY <1>5, <3>1, <3>2 DEF Notify
    <2>. QED BY <1>0, <2>3, <2>4 DEF TrackInv
<1>6. CASE \E c \in 0 .. (Checkpoints - 1) : ReadFetch(c)
    <2>1. PICK c \in 0 .. (Checkpoints - 1) : ReadFetch(c)
        BY <1>6
    <2>2. opened /\ Fetched(c)
          /\ UNCHANGED <<server, updates, fresh, tip, tipErr, running, connected, wire>>
        BY <2>1 DEF ReadFetch
    <2>3. Handed'
        BY <1>0, <2>2, FetchTracking, HandedFrame
    <2>. QED BY <1>0, <1>b, <2>2, <2>3 DEF TrackInv
<1>7. CASE FillBegin \/ FillDone \/ FillError \/ FillCancelled
    <2>1. UNCHANGED <<server, updates, fresh, tip, tipErr, store, running, connected, wire>>
        BY <1>7 DEF FillBegin, FillDone, FillError, FillCancelled, FillEnd
    <2>. QED BY <1>0, <1>b, <1>d, <2>1 DEF TrackInv
<1>8. CASE FillStep
    <2>1. /\ opened /\ UNCHANGED <<server, updates, fresh, tip, tipErr, running, connected, wire>>
          /\ IF Newest(fill.todo) \in missing THEN Fetched(Newest(fill.todo)) ELSE UNCHANGED <<store, missing>>
        BY <1>8, <1>a DEF FillStep
    <2>2. Handed'
        <3>1. CASE Newest(fill.todo) \in missing
            <4>1. Newest(fill.todo) \in 0 .. (Checkpoints - 1) /\ Fetched(Newest(fill.todo))
                BY <1>a, <2>1, <3>1
            <4>. QED BY <1>0, <2>1, <4>1, FetchTracking, HandedFrame
        <3>2. CASE Newest(fill.todo) \notin missing
            BY <1>d, <2>1, <3>2
        <3>. QED BY <3>1, <3>2
    <2>. QED BY <1>0, <1>b, <2>1, <2>2 DEF TrackInv
<1>9. CASE StartSync
    <2>1. running = "off" /\ UNCHANGED <<connected, wire, fresh>> /\ running' = "on"
        BY <1>9 DEF StartSync
    <2>2. ~fresh' /\ Subscribed'
        BY <1>0, <2>1 DEF Subscribed
    <2>. QED BY <1>0, <1>c, <2>2 DEF TrackInv
<1>10. CASE TipPull
    <2>1. UNCHANGED <<server, updates, fresh, store, running, connected, wire>> /\ tip.pc = "pull"
        BY <1>10 DEF TipPull
    <2>. DEFINE height == IF tip.height > Len(store.data) THEN Len(store.data) ELSE tip.height
    <2>2. /\ height \in Nat /\ height <= Len(store.data)
          /\ \/ server.h < height /\ TipReturns(FALSE)
             \/ /\ tip'.pc = "ensure" /\ tip'.height = height /\ tip'.sub = tip.sub
                /\ Len(tip'.batch) >= 1 /\ height + Len(tip'.batch) - 1 <= server.h
                /\ \A i \in 1 .. Len(tip'.batch) : tip'.batch[i] = Header(server.b, height + i - 1)
        BY <1>0, <1>10, TipPullFacts
    <2>3. ASSUME Tracking PROVE Tracking'
        <3>1. CASE server.h < height /\ TipReturns(FALSE)
            <4>1. FALSE \in BOOLEAN
                OBVIOUS
            <4>2. tip'.pc = "idle"
                BY <3>1, <4>1, TipReturnsType
            <4>3. Follows
                BY <1>a, <2>1, <2>3, <3>1 DEF Tracking
            <4>4. Follows'
                BY <2>1, <4>3 DEF Follows
            <4>. QED BY <4>2, <4>4 DEF Tracking
        <3>2. CASE /\ tip'.pc = "ensure" /\ tip'.height = height /\ tip'.sub = tip.sub
                   /\ Len(tip'.batch) >= 1 /\ height + Len(tip'.batch) - 1 <= server.h
                   /\ \A i \in 1 .. Len(tip'.batch) : tip'.batch[i] = Header(server.b, height + i - 1)
            BY <2>1, <2>3, <3>2 DEF Tracking
        <3>. QED BY <2>2, <3>1, <3>2
    <2>. QED BY <1>0, <1>b, <2>1, <2>3, HandedFrame DEF TrackInv
<1>11. CASE TipNext
    <2>1. UNCHANGED <<server, fresh, store, running, connected, wire>> /\ updates # <<>>
        BY <1>11 DEF TipNext
    <2>. DEFINE n == Head(updates)
    <2>2. /\ n \in Peer /\ n.h \in Nat /\ tip'.height = n.h
          /\ updates' = Tail(updates)
          /\ \/ n.h > Len(store.data) /\ tip'.pc = "pull" /\ ~tip'.sub
             \/ /\ n.h <= Len(store.data) /\ tip'.pc = "ensure" /\ tip'.sub
                /\ Len(tip'.batch) = 1 /\ tip'.batch[1] = Header(n.b, n.h)
        BY <1>0, <1>11, TipNextFacts
    <2>3. Handed'
        <3>. SUFFICES ASSUME fresh
                      PROVE  IF updates' # <<>> THEN updates'[Len(updates')] = server ELSE Tracking'
            BY <2>1 DEF Handed
        <3>1. updates[Len(updates)] = server
            BY <1>0, <2>1 DEF Handed
        <3>2. CASE updates' # <<>>
            BY <1>a, <2>1, <2>2, <3>1, <3>2
        <3>3. CASE updates' = <<>>
            <4>1. Len(updates) = 1
                <5>1. updates \in Seq(Peer) /\ updates # <<>> /\ Tail(updates) = <<>>
                    BY <1>a, <2>1, <2>2, <3>3
                <5>2. Len(Tail(updates)) = Len(updates) - 1 /\ Len(updates) \in Nat
                    BY <5>1
                <5>3. Len(Tail(updates)) = 0
                    <6>1. Len(Tail(updates)) = Len(<<>>)
                        BY <5>1, Zenon
                    <6>2. Len(<<>>) = 0
                        OBVIOUS
                    <6>. QED BY <6>1, <6>2
                <5>. QED BY <5>2, <5>3
            <4>2. n = server
                BY <1>a, <3>1, <4>1
            <4>. HIDE DEF n
            <4>3. CASE n.h > Len(store.data) /\ tip'.pc = "pull" /\ ~tip'.sub
                BY <1>a, <2>1, <2>2, <3>3, <4>2, <4>3 DEF Tracking
            <4>4. CASE /\ n.h <= Len(store.data) /\ tip'.pc = "ensure" /\ tip'.sub
                       /\ Len(tip'.batch) = 1 /\ tip'.batch[1] = Header(n.b, n.h)
                <5>1. Len(tip'.batch) >= 1 /\ tip'.height + Len(tip'.batch) - 1 <= server.h
                    BY <1>a, <2>2, <4>2, <4>4
                <5>2. ASSUME NEW i \in 1 .. Len(tip'.batch)
                      PROVE  tip'.batch[i] = Header(server.b, tip'.height + i - 1)
                    <6>1. i = 1 /\ tip'.height + i - 1 = n.h
                        BY <2>2, <4>4
                    <6>. QED BY <4>2, <4>4, <6>1
                <5>. QED BY <2>1, <2>2, <3>3, <4>2, <4>4, <5>1, <5>2 DEF Tracking
            <4>. QED BY <2>2, <3>3, <4>3, <4>4
        <3>. QED BY <3>2, <3>3
    <2>. QED BY <1>0, <1>b, <2>1, <2>3 DEF TrackInv
<1>12. CASE TipEnsure
    <2>1. UNCHANGED <<server, updates, fresh, running, connected, wire>> /\ tip.pc \in {"ensure", "ensure2"}
        BY <1>12 DEF TipEnsure
    <2>2. \/ /\ tip'.pc \in {"ensure2", "connect"}
             /\ tip'.height = tip.height /\ tip'.batch = tip.batch /\ tip'.sub = tip.sub
          \/ tip'.pc = "idle" /\ tipErr'
        BY <1>0, <1>12, EnsureFacts
    <2>3. Tracking => Tracking'
        BY <2>1, <2>2 DEF Tracking
    <2>. QED BY <1>0, <1>b, <2>1, <2>3, HandedFrame DEF TrackInv
<1>13. CASE TipConnect
    <2>1. UNCHANGED <<server, updates, fresh, running, connected, wire>> /\ tip.pc = "connect"
        BY <1>13 DEF TipConnect
    <2>2. /\ Len(store'.data) >= tip.height + Len(tip.batch)
          /\ \A h \in 0 .. (Len(store'.data) - 1) : At(store'.data, h) =
               IF h >= tip.height /\ h < tip.height + Len(tip.batch)
               THEN tip.batch[h - tip.height + 1] ELSE At(store.data, h)
          /\ store' \in StoreType
          /\ \/ tip.sub /\ tip'.pc = "idle"
             \/ ~tip.sub /\ tip'.pc = "pull" /\ ~tip'.sub /\ tip'.height = tip.height + Len(tip.batch)
        BY <1>0, <1>13, TipConnectFacts
    <2>3. Len(store'.data) \in Nat
        BY <2>2 DEF StoreType
    <2>4. ASSUME Tracking PROVE Tracking'
        <3>1. /\ Len(tip.batch) >= 1 /\ tip.height + Len(tip.batch) - 1 <= server.h
              /\ tip.sub => tip.height = server.h
              /\ \A i \in 1 .. Len(tip.batch) : tip.batch[i] = Header(server.b, tip.height + i - 1)
            BY <2>1, <2>4 DEF Tracking
        <3>2. ASSUME tip.height + Len(tip.batch) - 1 = server.h
              PROVE  Follows'
            <4>1. Len(store'.data) > server.h /\ server.h \in 0 .. (Len(store'.data) - 1)
                BY <1>a, <2>2, <2>3, <3>2, SMTT(30)
            <4>2. /\ server.h >= tip.height /\ server.h < tip.height + Len(tip.batch)
                  /\ server.h - tip.height + 1 \in 1 .. Len(tip.batch)
                  /\ tip.height + (server.h - tip.height + 1) - 1 = server.h
                BY <1>a, <3>1, <3>2, SMTT(30)
            <4>3. At(store'.data, server.h) = tip.batch[server.h - tip.height + 1]
                BY <2>2, <4>1, <4>2
            <4>4. tip.batch[server.h - tip.height + 1] = Header(server.b, server.h)
                BY <3>1, <4>2
            <4>. QED BY <2>1, <4>1, <4>3, <4>4 DEF Follows
        <3>3. CASE tip.sub /\ tip'.pc = "idle"
            <4>1. tip.height + Len(tip.batch) - 1 = server.h
                BY <1>a, <3>1, <3>3
            <4>. QED BY <3>2, <3>3, <4>1 DEF Tracking
        <3>4. CASE ~tip.sub /\ tip'.pc = "pull" /\ ~tip'.sub /\ tip'.height = tip.height + Len(tip.batch)
            <4>1. ~(tip'.height > Len(store'.data))
                BY <1>a, <2>2, <2>3, <3>4
            <4>2. CASE tip.height + Len(tip.batch) - 1 = server.h
                <5>1. tip'.height = server.h + 1 /\ Follows'
                    BY <1>a, <3>2, <3>4, <4>2
                <5>. QED BY <2>1, <3>4, <4>1, <5>1 DEF Tracking
            <4>3. CASE tip.height + Len(tip.batch) - 1 # server.h
                <5>1. tip.height + Len(tip.batch) - 1 <= server.h
                    BY <3>1
                <5>2. tip'.height <= server.h
                    <6>1. tip'.height = tip.height + Len(tip.batch)
                        BY <3>4
                    <6>. QED BY <1>a, <4>3, <5>1, <6>1, SMTT(30)
                <5>. QED BY <2>1, <3>4, <4>1, <5>2 DEF Tracking
            <4>. QED BY <4>2, <4>3
        <3>. QED BY <2>2, <3>3, <3>4
    <2>. QED BY <1>0, <1>b, <2>1, <2>4, HandedFrame DEF TrackInv
<1>14. CASE TipReject
    <2>1. UNCHANGED <<server, updates, fresh, store, running, connected, wire>> /\ tip.pc = "connect"
        BY <1>14 DEF TipReject
    <2>2. \/ tip'.pc = "idle" /\ tipErr'
          \/ tip'.pc = "pull" /\ ~tip'.sub /\ tip.height # 0 /\ tip'.height = tip.height - 1
        BY <1>0, <1>14, TipRejectFacts
    <2>3. tip.height <= Len(store.data)
        BY <1>0, <2>1 DEF TypeInv, StoreOpen
    <2>4. Tracking => Tracking'
        BY <1>a, <2>1, <2>2, <2>3, SMTT(30) DEF Tracking
    <2>. QED BY <1>0, <1>b, <2>1, <2>4, HandedFrame DEF TrackInv
<1>15. CASE TipError \/ TipCancelled \/ TipExit
    <2>1. UNCHANGED <<server, updates, fresh, store, running, connected, wire>>
        BY <1>15 DEF TipError, TipCancelled, TipExit
    <2>2. \/ tip'.pc = "idle" /\ tipErr'
          \/ tip'.pc = "off"
        BY <1>15 DEF TipError, TipCancelled, TipExit, TipReturns, TipOff
    <2>3. Tracking'
        BY <2>2 DEF Tracking
    <2>. QED BY <1>0, <1>b, <2>1, <2>3, HandedFrame DEF TrackInv
<1>16. CASE StopSync
    <2>1. UNCHANGED <<server, updates, fresh, tip, tipErr, store>>
          /\ running' = "stopping" /\ ~connected' /\ wire' = <<>>
        BY <1>16 DEF StopSync
    <2>2. Subscribed'
        BY <2>1 DEF Subscribed
    <2>. QED BY <1>0, <1>d, <2>1, <2>2 DEF TrackInv
<1>17. CASE StopDone
    <2>1. running = "stopping" /\ UNCHANGED <<connected, wire>> /\ ~fresh'
        BY <1>17 DEF StopDone
    <2>2. Subscribed'
        BY <1>0, <2>1 DEF Subscribed
    <2>. QED BY <1>0, <1>c, <2>1, <2>2 DEF TrackInv
<1>18. CASE UNCHANGED vars
    <2>1. UNCHANGED <<server, updates, fresh, tip, tipErr, store, running, connected, wire>>
        BY <1>18 DEF vars
    <2>. QED BY <1>0, <1>b, <1>d, <2>1 DEF TrackInv
<1>. QED
    BY <1>1, <1>2, <1>3, <1>4, <1>5, <1>6, <1>7, <1>8, <1>9, <1>10, <1>11, <1>12, <1>13, <1>14,
       <1>15, <1>16, <1>17, <1>18 DEF Next

\* TrackInv holds in every reachable state.
THEOREM TrackInvariance == Spec => []TrackInv
<1>1. Init => TrackInv
    BY TrackInit
<1>2. TrackInv /\ [Next]_vars => TrackInv'
    BY TrackStep
<1>. QED BY <1>1, <1>2, PTL DEF Spec

\* When the tip worker has dealt with every notification without error, and the server's
\* tip was among them, the store has the server's tip, whatever reorganisations raced the
\* pulls and however often the worker went back.
THEOREM TipFollowsHolds == Spec => []TipFollows
<1>1. TrackInv => TipFollows
    BY DEF TrackInv, Handed, Tracking, Follows, TipFollows
<1>. QED BY <1>1, TrackInvariance, PTL

-----------------------------------------------------------------------------
(* Resolve.                                                                *)

ObjFields == {"txid", "height", "verified", "due", "against", "meta", "chan"}
CallFields == {"job", "pc", "query", "answer", "txs", "batches", "results", "fetched",
               "headerCount", "items", "page", "attached", "err", "since", "cleared", "foreign"}
ItemFields == {"kind", "tx", "obj", "meta", "chan", "described"}
ResultFields == {"kind", "tx", "meta", "described", "chanTx", "chanMeta"}
EntryFields == {"txid", "height", "proof", "asked"}

IsList(s) == s \in Seq(Range(s))

\* The objects there are.
Refs == {r \in Calls \X Nat : r[2] \in DOMAIN objs[r[1]]}

ObjsInv ==
    /\ DOMAIN objs = Calls
    /\ \A q \in Calls : /\ IsList(objs[q])
                        /\ \A k \in DOMAIN objs[q] : DOMAIN objs[q][k] = ObjFields

\* Every entry of the cache is of another transaction and leads to an object or to none.
CacheGood(c, R) ==
    /\ IsList(c) /\ Len(c) <= Capacity
    /\ \A i, j \in DOMAIN c : c[i].txid = c[j].txid => i = j
    /\ \A i \in DOMAIN c : c[i].obj \in R \cup {NoObj}

\* In the hub's answer what is no error is a claim, and the other way round.
MessageGood(m) == m.claim = (m.err = "none") /\ m.nout \in {0, 1} /\ m.height \in Int
MessagesGood(messages) == IsList(messages) /\ \A i \in DOMAIN messages : MessageGood(messages[i])
AnswerGood(a) == MessagesGood(a.txos) /\ MessagesGood(a.extra) /\ IsList(a.blocked)

\* A result of p carries p's metadata.
ResultGood(x, p) ==
    /\ DOMAIN x = ResultFields
    /\ x.kind = "output" => x.meta[1] = p /\ (x.described => x.chanMeta[1] = p)

\* An output in the hands of p has p's metadata, and so has its channel where it is.
ItemGood(x, p) ==
    /\ DOMAIN x = ItemFields
    /\ x.kind = "output" => /\ x.meta[1] = p
                            /\ x.described => x.chan \in Refs /\ Obj(x.chan).meta[1] = p

\* What a call of p attaches to something is the claim with its identifier, or nothing.
GivenGood(x, id, p) == x # NoTx => x.tx = id /\ x.kind = "output" /\ x.meta[1] = p
AskedFor(job) == IF job.kind = "local" THEN job.supports ELSE job.ask
AllGiven(att, job, p) == \A i \in DOMAIN att : GivenGood(att[i], AskedFor(job)[i], p)

\* What a call holds.
CallGood(c, p, R) ==
    /\ DOMAIN c = CallFields /\ c.job \in Jobs /\ c.query \in 1..Len(Queries(c.job))
    /\ c.txs \in Seq(R \cup {NoObj}) /\ c.fetched \in Seq(R)
    /\ AnswerGood(c.answer)
    /\ IsList(c.page) /\ \A i \in DOMAIN c.page : ResultGood(c.page[i], p)
    /\ c.job.kind = "local" /\ (c.query > UrlQueries(c.job) \/ c.pc = "finish")
          => Len(c.job.ask) <= Len(c.page)
    /\ c.pc = "done" => AllGiven(c.attached, c.job, p)

\* Who holds outputs, or copies them, holds the mutex.
HeldBy(c, p) ==
    /\ IsList(c.items) /\ \A i \in DOMAIN c.items : ItemGood(c.items[i], p)
    /\ c.items # <<>> \/ c.pc = "copy" => lock = p

\* The transactions that a call has still to store.
Needed(c) == UNION {TxidsOf(c.batches[i]) : i \in DOMAIN c.batches}

\* They are in the cache, and what came after them was used since the plan.
Keeps(c, needed, since) ==
    /\ \A t \in needed : Cached(c, t)
    /\ \A i, j \in DOMAIN c : i <= j /\ c[i].txid \in needed => c[j].txid \in since

\* A fetch that nothing excuses finds its entries.
FetchGood(c) ==
    /\ IsList(c.batches) /\ c.batches # <<>> /\ IsFiniteSet(c.since)
    /\ \A i \in DOMAIN c.batches : IsList(c.batches[i])
    /\ c.pc # "fetch" =>
          IsList(c.results) /\ \A i \in DOMAIN c.results : DOMAIN c.results[i] = EntryFields
    /\ Needed(c) \subseteq c.since
    /\ ~c.foreign /\ c.pc # "fetch" =>
          /\ \A i \in DOMAIN c.results : c.results[i].txid \in TxidsOf(Head(c.batches))
          /\ \A i \in DOMAIN c.fetched : Obj(c.fetched[i]).txid \in TxidsOf(Head(c.batches))
    /\ ~c.foreign /\ ~c.cleared /\ Cardinality(c.since) <= Capacity
          => Keeps(cache, Needed(c), c.since)

\* A failure on the cache has its reason.
Explained(c) == c.pc = "failed" => c.cleared \/ c.foreign \/ Cardinality(c.since) > Capacity

\* The inductive invariant: what each call holds, relies on and failed for.
Sound(p) ==
    /\ CallGood(call[p], p, Refs) /\ HeldBy(call[p], p) /\ Explained(call[p])
    /\ call[p].pc \in Fetching => FetchGood(call[p])
ResolveInv ==
    /\ ObjsInv /\ CacheGood(cache, Refs)
    /\ DOMAIN call = Calls /\ \A p \in Calls : Sound(p)
    /\ lock \in Calls \cup {NoCall} /\ LockReleased
    /\ hub \in DOMAIN Chains
\* A recurrence over the numbers up to N.
Recurrence(S, N, base, step, g) ==
    g \in [0..N -> S] /\ g[0] = base /\ \A k \in 1..N : g[k] = step[k][g[k - 1]]

\* It has a solution: otherwise there is a shortest prefix that has none.
LEMMA RecurrenceSolved ==
  ASSUME NEW S, NEW N \in Nat, NEW base \in S, NEW step \in [1..N -> [S -> S]]
  PROVE  \E g : Recurrence(S, N, base, step, g)
<1> DEFINE G(n, g) == g \in [0..n -> S] /\ g[0] = base /\ \A k \in 1..n : g[k] = step[k][g[k - 1]]
           Wrong == {n \in 0..N : ~\E g : G(n, g)}
<1>0. Wrong \in SUBSET Nat /\ Wrong \subseteq 0..N /\ \A n \in 0..N : n \notin Wrong => \E g : G(n, g)
  OBVIOUS
<1>1. ASSUME Wrong # {} PROVE FALSE
  <2>1. PICK n \in Wrong : \A y \in Wrong : n <= y
    <3> HIDE DEF Wrong
    <3> QED
      BY <1>0, <1>1, Lowest, Zenon
  <2>2. CASE n = 0
    <3>1. G(0, [k \in 0..0 |-> base])
      OBVIOUS
    <3> QED
      BY <2>1, <2>2, <3>1
  <2>3. CASE n # 0
    <3>1. n \in 1..N /\ n - 1 \in 0..N /\ n - 1 \notin Wrong
      <4> HIDE DEF Wrong
      <4>1. n \in 0..N
        BY <1>0
      <4>2. n - 1 \in Nat /\ ~(n <= n - 1) /\ n \in 1..N /\ n - 1 \in 0..N
        BY <2>3, <4>1
      <4> QED
        BY <2>1, <4>2
    <3>2. PICK g : G(n - 1, g)
      BY <1>0, <3>1, Zenon
    <3> DEFINE h == [k \in 0..n |-> IF k = n THEN step[n][g[n - 1]] ELSE g[k]]
    <3>3. g[n - 1] \in S /\ step[n][g[n - 1]] \in S
      BY <3>1, <3>2
    <3>4. h \in [0..n -> S] /\ h[0] = base
      BY <3>1, <3>2, <3>3
    <3>5. ASSUME NEW k \in 1..n PROVE h[k] = step[k][h[k - 1]]
      BY <3>1, <3>2
    <3>6. G(n, h)
      BY <3>4, <3>5
    <3> QED
      BY <2>1, <3>6
  <2> QED
    BY <2>2, <2>3
<1>2. N \in 0..N
  OBVIOUS
<1>3. \E g : G(N, g)
  BY <1>0, <1>1, <1>2, Zenon
<1> QED
  BY <1>3 DEF Recurrence


\* What holds at 0 and is handed on from place to place holds everywhere.
LEMMA HandedOn ==
  ASSUME NEW N \in Nat, NEW Good, 0 \in Good, \A k \in 1..N : k - 1 \in Good => k \in Good
  PROVE  \A k \in 0..N : k \in Good
<1> DEFINE Wrong == {k \in 0..N : k \notin Good}
<1>1. ASSUME Wrong # {} PROVE FALSE
  <2>1. Wrong \in SUBSET Nat
    OBVIOUS
  <2>2. PICK k \in Wrong : \A y \in Wrong : k <= y
    <3> HIDE DEF Wrong
    <3> QED
      BY <1>1, <2>1, Lowest, Zenon
  <2>3. k \in 1..N /\ k - 1 \in 0..N /\ k - 1 \notin Wrong
    BY <2>2
  <2> QED
    BY <2>2, <2>3
<1> QED
  BY <1>1

LEMMA SeqIsList ==
  ASSUME NEW S, NEW s \in Seq(S)
  PROVE  IsList(s) /\ Range(s) \subseteq S /\ Len(s) \in Nat /\ DOMAIN s = 1..Len(s)
<1>1. s \in [1..Len(s) -> S] /\ Len(s) \in Nat
  OBVIOUS
<1>2. s \in [1..Len(s) -> Range(s)]
  BY <1>1 DEF Range
<1>3. s \in Seq(Range(s))
  BY <1>1, <1>2
<1> QED
  BY <1>1, <1>3 DEF IsList, Range

LEMMA ListFacts ==
  ASSUME NEW s, IsList(s)
  PROVE  /\ s \in Seq(Range(s)) /\ Len(s) \in Nat /\ DOMAIN s = 1..Len(s)
         /\ \A i \in DOMAIN s : s[i] \in Range(s)
BY DEF IsList, Range

LEMMA TableIsList ==
  ASSUME NEW n \in Nat, NEW f, f = [i \in 1..n |-> f[i]]
  PROVE  IsList(f) /\ Len(f) = n
<1>1. f \in [1..n -> Range(f)]
  BY DEF Range
<1>2. f \in Seq(Range(f))
  BY <1>1
<1> QED
  BY <1>1, <1>2 DEF IsList

\* A set that an order arranges is listed completely, and by nothing else.
LEMMA ArrangedFacts ==
  ASSUME NEW S, IsFiniteSet(S), NEW before,
         \A x \in S : <<x, x>> \notin before,
         \A x, y, z \in S : <<x, y>> \in before /\ <<y, z>> \in before => <<x, z>> \in before,
         \A x, y \in S : x # y => <<x, y>> \in before \/ <<y, x>> \in before
  PROVE  /\ Arranged(S, before) \in [1..Cardinality(S) -> S]
         /\ Arranged(S, before) \in Seq(S) /\ Len(Arranged(S, before)) = Cardinality(S)
         /\ Cardinality(S) \in Nat
<1> DEFINE N == Cardinality(S)
           B(x) == {y \in S : <<y, x>> \in before}
           rank == [x \in S |-> Cardinality(B(x))]
<1>1. N \in Nat
  BY FS_CardinalityType
<1>2. ASSUME NEW x \in S
      PROVE  /\ IsFiniteSet(B(x)) /\ Cardinality(B(x)) \in Nat /\ Cardinality(B(x)) < N
  <2>1. B(x) \subseteq S /\ x \notin B(x)
    OBVIOUS
  <2> HIDE DEF B
  <2> QED
    BY <2>1, FS_Subset, FS_CardinalityType
<1>3. ASSUME NEW x \in S, NEW y \in S, <<x, y>> \in before PROVE Cardinality(B(x)) < Cardinality(B(y))
  <2>1. B(x) \subseteq B(y) /\ x \in B(y) /\ x \notin B(x)
    BY <1>3
  <2>2. IsFiniteSet(B(y)) /\ Cardinality(B(x)) \in Nat /\ Cardinality(B(y)) \in Nat
    BY <1>2
  <2> HIDE DEF B
  <2>3. B(x) \in SUBSET B(y) /\ B(x) # B(y)
    BY <2>1
  <2>4. Cardinality(B(x)) <= Cardinality(B(y)) /\ Cardinality(B(x)) # Cardinality(B(y))
    BY <2>2, <2>3, FS_Subset
  <2> QED
    BY <2>2, <2>4
<1> HIDE DEF B
<1>4. rank \in [S -> 0..N - 1]
  BY <1>1, <1>2
<1>5. ASSUME NEW x \in S, NEW y \in S, rank[x] = rank[y] PROVE x = y
  <2>1. ASSUME x # y PROVE FALSE
    <3>1. <<x, y>> \in before \/ <<y, x>> \in before
      BY <2>1
    <3>2. Cardinality(B(x)) = Cardinality(B(y)) /\ Cardinality(B(x)) \in Nat
      BY <1>2, <1>5
    <3> QED
      BY <1>3, <3>1, <3>2
  <2> QED
    BY <2>1
<1>6. IsFiniteSet(0..N - 1) /\ Cardinality(0..N - 1) = N
  <2> HIDE DEF N
  <2>1. 0 \in Int /\ N - 1 \in Int
    BY <1>1
  <2> QED
    BY <1>1, <2>1, FS_Interval
<1>7. \A k \in 0..N - 1 : \E x \in S : rank[x] = k
  <2> HIDE DEF rank
  <2>1. rank \in Injection(S, 0..N - 1)
    BY <1>4, <1>5 DEF Injection, IsInjective
  <2>2. rank \in Surjection(S, 0..N - 1)
    BY <1>6, <2>1, FS_Injection
  <2> QED
    BY <2>2 DEF Surjection
<1>8. ASSUME NEW i \in 1..N PROVE \E x \in S : Cardinality({y \in S : <<y, x>> \in before}) = i - 1
  <2>1. i - 1 \in 0..N - 1
    BY <1>1
  <2>2. PICK x \in S : rank[x] = i - 1
    BY <1>7, <2>1
  <2>3. Cardinality(B(x)) = i - 1
    BY <2>2
  <2> QED
    BY <2>3 DEF B
<1>9. Arranged(S, before) \in [1..N -> S]
  BY <1>8 DEF Arranged
<1> HIDE DEF N
<1>10. Arranged(S, before) \in Seq(S) /\ Len(Arranged(S, before)) = N
  BY <1>1, <1>9
<1> QED
  BY <1>1, <1>9, <1>10 DEF N

\* Numbers come in their order.
LEMMA IncreasingFacts ==
  ASSUME NEW n \in Nat, NEW S \in SUBSET (1..n)
  PROVE  /\ Arranged(S, Increasing(S)) \in [1..Cardinality(S) -> S]
         /\ Len(Arranged(S, Increasing(S))) = Cardinality(S) /\ Cardinality(S) \in Nat
<1>1. IsFiniteSet(S)
  <2>1. IsFiniteSet(1..n)
    BY FS_Interval
  <2> QED
    BY <2>1, FS_Subset
<1>2. S \subseteq Int /\ \A x, y \in S : <<x, y>> \in Increasing(S) <=> x < y
  BY DEF Increasing
<1>3. /\ \A x \in S : <<x, x>> \notin Increasing(S)
      /\ \A x, y, z \in S : <<x, y>> \in Increasing(S) /\ <<y, z>> \in Increasing(S) => <<x, z>> \in Increasing(S)
      /\ \A x, y \in S : x # y => <<x, y>> \in Increasing(S) \/ <<y, x>> \in Increasing(S)
  BY <1>2
<1> QED
  BY <1>1, <1>3, ArrangedFacts

\* The stable sort lists requests of the list.
LEMMA ByHeightFacts ==
  ASSUME NEW requests, IsList(requests), \A i \in DOMAIN requests : requests[i].height \in Int
  PROVE  /\ IsList(ByHeight(requests)) /\ Len(ByHeight(requests)) = Len(requests)
         /\ \A k \in DOMAIN ByHeight(requests) : \E i \in DOMAIN requests : ByHeight(requests)[k] = requests[i]
<1> DEFINE n == Len(requests)
           D == DOMAIN requests
           order == HeightOrder(requests)
           places == Arranged(D, order)
<1>1. n \in Nat /\ D = 1..n
  BY ListFacts
<1>2. IsFiniteSet(D) /\ Cardinality(D) = n
  BY <1>1, FS_Interval
<1>3. \A x, y \in D : <<x, y>> \in order <=>
            requests[x].height < requests[y].height \/ (requests[x].height = requests[y].height /\ x < y)
  BY DEF HeightOrder
<1>4. /\ \A x \in D : <<x, x>> \notin order
      /\ \A x, y, z \in D : <<x, y>> \in order /\ <<y, z>> \in order => <<x, z>> \in order
      /\ \A x, y \in D : x # y => <<x, y>> \in order \/ <<y, x>> \in order
  <2> HIDE DEF order
  <2>1. D \subseteq Int
    BY <1>1
  <2> QED
    BY <1>3, <2>1
<1> HIDE DEF order, D
<1>5. places \in [1..n -> D]
  BY <1>2, <1>4, ArrangedFacts
<1>6. ByHeight(requests) = [k \in 1..n |-> requests[places[k]]]
  <2>1. DOMAIN places = 1..n
    BY <1>5
  <2> HIDE DEF n
  <2> QED
    BY <2>1 DEF ByHeight, D, order
<1> HIDE DEF places
<1>7. IsList(ByHeight(requests)) /\ Len(ByHeight(requests)) = n
  BY <1>1, <1>6, TableIsList
<1> QED
  BY <1>5, <1>6, <1>7 DEF D
\* Where a transaction is in the cache.
LEMMA PlaceFacts ==
  ASSUME NEW R, NEW c, CacheGood(c, R), NEW t, Cached(c, t)
  PROVE  /\ PlaceOf(c, t) \in 1..Len(c) /\ c[PlaceOf(c, t)].txid = t
         /\ Len(c) \in Nat /\ DOMAIN c = 1..Len(c) /\ c \in Seq(Range(c))
         /\ \A i \in DOMAIN c : c[i].txid = t => i = PlaceOf(c, t)
<1>1. Len(c) \in Nat /\ DOMAIN c = 1..Len(c) /\ c \in Seq(Range(c))
  BY ListFacts DEF CacheGood
<1>2. \E i \in DOMAIN c : c[i].txid = t
  BY DEF Cached
<1>3. PlaceOf(c, t) \in DOMAIN c /\ c[PlaceOf(c, t)].txid = t
  BY <1>2 DEF PlaceOf
<1> HIDE DEF PlaceOf
<1> QED
  BY <1>1, <1>3 DEF CacheGood

LEMMA WithoutFacts ==
  ASSUME NEW S, NEW c \in Seq(S), NEW k \in 1..Len(c)
  PROVE  /\ RemoveAt(c, k) \in Seq(S) /\ Len(RemoveAt(c, k)) = Len(c) - 1
         /\ \A i \in 1..Len(c) - 1 : RemoveAt(c, k)[i] = IF i < k THEN c[i] ELSE c[i + 1]
<1> DEFINE n == Len(c)
           a == SubSeq(c, 1, k - 1)
           b == SubSeq(c, k + 1, n)
<1>1. n \in Nat /\ k \in Nat /\ 1 <= k /\ k <= n
  OBVIOUS
<1>2. a \in Seq(S) /\ Len(a) = k - 1 /\ \A i \in 1..k - 1 : a[i] = c[i]
  BY <1>1
<1>3. b \in Seq(S) /\ Len(b) = n - k /\ \A i \in 1..n - k : b[i] = c[k + i]
  BY <1>1
<1>4. RemoveAt(c, k) = a \o b
  BY DEF RemoveAt
<1> HIDE DEF a, b
<1>5. a \o b \in Seq(S) /\ Len(a \o b) = n - 1
  BY <1>1, <1>2, <1>3
<1>6. ASSUME NEW i \in 1..n - 1 PROVE (a \o b)[i] = IF i < k THEN c[i] ELSE c[i + 1]
  <2>1. CASE i < k
    BY <1>1, <1>2, <1>3, <2>1
  <2>2. CASE ~(i < k)
    <3>1. (a \o b)[i] = b[i - (k - 1)]
      BY <1>1, <1>2, <1>3, <2>2
    <3>2. i - (k - 1) \in 1..n - k /\ k + (i - (k - 1)) = i + 1
      BY <1>1, <2>2
    <3> QED
      BY <1>3, <2>2, <3>1, <3>2
  <2> QED
    BY <2>1, <2>2
<1> QED
  BY <1>4, <1>5, <1>6

\* An entry that becomes the newest one.
LEMMA MovedFacts ==
  ASSUME NEW R, NEW c, CacheGood(c, R), NEW t, Cached(c, t),
         NEW e, e.txid = t, e.obj \in R \cup {NoObj}
  PROVE  LET d == Append(Without(c, t), e)
         IN  /\ CacheGood(d, R) /\ d \in Seq(Range(c) \cup {e})
             /\ \A u : Cached(d, u) <=> Cached(c, u)
             /\ \A V, U : Keeps(c, V, U) /\ t \in U => Keeps(d, V \cup {t}, U)
<1> DEFINE k == PlaceOf(c, t)
           n == Len(c)
           w == Without(c, t)
           d == Append(w, e)
           S == Range(c) \cup {e}
           sigma(i) == IF i < k THEN i ELSE IF i < n THEN i + 1 ELSE k
<1>1. /\ k \in 1..n /\ c[k].txid = t /\ n \in Nat /\ DOMAIN c = 1..n /\ c \in Seq(Range(c))
      /\ \A i \in DOMAIN c : c[i].txid = t => i = k
  BY PlaceFacts
<1> HIDE DEF k
<1>2. /\ w \in Seq(Range(c)) /\ Len(w) = n - 1
      /\ \A i \in 1..n - 1 : w[i] = IF i < k THEN c[i] ELSE c[i + 1]
  BY <1>1, WithoutFacts DEF Without, k
<1> HIDE DEF w
<1>3. w \in Seq(S)
  BY <1>2
<1>4. d \in Seq(S) /\ Len(d) = n /\ DOMAIN d = 1..n /\ d[n] = e /\ \A i \in 1..n - 1 : d[i] = w[i]
  <2> HIDE DEF S, n
  <2>1. e \in S
    BY DEF S
  <2>2. d \in Seq(S) /\ Len(d) = Len(w) + 1 /\ d[Len(w) + 1] = e /\ \A i \in 1..Len(w) : d[i] = w[i]
    BY <1>3, <2>1
  <2>3. Len(w) + 1 = n
    BY <1>1, <1>2
  <2> HIDE DEF d
  <2> QED
    BY <1>2, <2>2, <2>3
<1>5. IsList(d)
  BY <1>4, SeqIsList
<1> HIDE DEF d, S, n
<1>6. ASSUME NEW i \in 1..n
      PROVE  /\ sigma(i) \in 1..n /\ d[i].txid = c[sigma(i)].txid
             /\ d[i].obj \in R \cup {NoObj}
  <2>1. \A j \in 1..n : c[j].obj \in R \cup {NoObj}
    BY <1>1 DEF CacheGood
  <2>2. CASE i = n
    BY <1>1, <1>4, <2>2
  <2>3. CASE i # n
    <3>1. i \in 1..n - 1 /\ i < n /\ i + 1 \in 1..n
      BY <1>1, <2>3
    <3> QED
      BY <1>1, <1>2, <1>4, <2>1, <3>1
  <2> QED
    BY <2>2, <2>3
<1>7. \A i, j \in 1..n : /\ sigma(i) = sigma(j) => i = j
                         /\ i <= j /\ j < n => sigma(i) <= sigma(j)
                         /\ sigma(i) = k => i = n
  BY <1>1
<1>8. \A j \in 1..n : \E i \in 1..n : sigma(i) = j
  <2> SUFFICES ASSUME NEW j \in 1..n PROVE \E i \in 1..n : sigma(i) = j
    OBVIOUS
  <2>1. CASE j < k
    <3>1. sigma(j) = j
      BY <2>1
    <3> QED
      BY <3>1
  <2>2. CASE j = k
    <3>1. sigma(n) = j /\ n \in 1..n
      BY <1>1, <2>2
    <3> QED
      BY <3>1
  <2>3. CASE j > k
    <3>1. j - 1 \in 1..n /\ sigma(j - 1) = j
      BY <1>1, <2>3
    <3> QED
      BY <3>1
  <2> QED
    BY <1>1, <2>1, <2>2, <2>3
<1> HIDE DEF sigma
<1>9. \A i, j \in DOMAIN c : c[i].txid = c[j].txid => i = j
  BY DEF CacheGood
<1>10. CacheGood(d, R)
  <2>1. \A i, j \in 1..n : d[i].txid = d[j].txid => i = j
    <3> SUFFICES ASSUME NEW i \in 1..n, NEW j \in 1..n, d[i].txid = d[j].txid PROVE i = j
      OBVIOUS
    <3>1. /\ sigma(i) \in DOMAIN c /\ d[i].txid = c[sigma(i)].txid
          /\ sigma(j) \in DOMAIN c /\ d[j].txid = c[sigma(j)].txid
      BY <1>1, <1>6
    <3>2. sigma(i) = sigma(j)
      BY <1>9, <3>1
    <3> QED
      BY <1>7, <3>2
  <2>2. n <= Capacity
    BY DEF CacheGood, n
  <2> QED
    BY <1>4, <1>5, <1>6, <2>1, <2>2 DEF CacheGood
<1>11. \A u : Cached(d, u) <=> Cached(c, u)
  <2> SUFFICES ASSUME NEW u PROVE Cached(d, u) <=> Cached(c, u)
    OBVIOUS
  <2>1. ASSUME Cached(d, u) PROVE Cached(c, u)
    <3>1. PICK i \in 1..n : d[i].txid = u
      BY <1>4, <2>1 DEF Cached
    <3>2. sigma(i) \in DOMAIN c /\ c[sigma(i)].txid = u
      BY <1>1, <1>6, <3>1
    <3> QED
      BY <3>2 DEF Cached
  <2>2. ASSUME Cached(c, u) PROVE Cached(d, u)
    <3>1. PICK j \in 1..n : c[j].txid = u
      BY <1>1, <2>2 DEF Cached
    <3>2. PICK i \in 1..n : sigma(i) = j
      BY <1>8
    <3>3. d[i].txid = u
      BY <1>6, <3>1, <3>2
    <3> QED
      BY <1>4, <3>3 DEF Cached
  <2> QED
    BY <2>1, <2>2
<1>12. ASSUME NEW V, NEW U, Keeps(c, V, U), t \in U PROVE Keeps(d, V \cup {t}, U)
  <2>1. \A u \in V \cup {t} : Cached(d, u)
    BY <1>11, <1>12 DEF Keeps
  <2>2. ASSUME NEW i \in 1..n, NEW j \in 1..n, i <= j, d[i].txid \in V \cup {t} PROVE d[j].txid \in U
    <3>1. CASE j = n
      BY <1>4, <1>12, <3>1
    <3>2. CASE j # n
      <4>1. j < n /\ i < n /\ i # n
        BY <1>1, <2>2, <3>2
      <4>2. sigma(i) <= sigma(j) /\ sigma(i) # k /\ sigma(i) \in 1..n /\ sigma(j) \in 1..n
        BY <1>6, <1>7, <2>2, <4>1
      <4>3. c[sigma(i)].txid # t /\ c[sigma(i)].txid = d[i].txid /\ c[sigma(j)].txid = d[j].txid
        BY <1>1, <1>6, <4>2
      <4> QED
        BY <1>1, <1>12, <2>2, <4>2, <4>3 DEF Keeps
    <3> QED
      BY <3>1, <3>2
  <2> QED
    BY <1>4, <2>1, <2>2 DEF Keeps
<1>13. d = Append(Without(c, t), e) /\ d \in Seq(Range(c) \cup {e})
  BY <1>4 DEF d, w, S
<1> QED
  BY <1>10, <1>11, <1>12, <1>13
\* A placeholder may push the oldest entry out; not one that a call relies on, as long as
\* what was used since its plan fits the cache.
LEMMA InsertedFacts ==
  ASSUME NEW R, NEW c, CacheGood(c, R), NEW t, ~Cached(c, t), ~(Capacity < 1),
         NEW e, e.txid = t, e.obj \in R \cup {NoObj}
  PROVE  LET d == Append(IF Len(c) >= Capacity THEN Tail(c) ELSE c, e)
         IN  /\ CacheGood(d, R) /\ d \in Seq(Range(c) \cup {e}) /\ Cached(d, t)
             /\ \A V, U : Keeps(c, V, U) /\ t \in U /\ IsFiniteSet(U) /\ Cardinality(U) <= Capacity
                             => Keeps(d, V \cup {t}, U)
<1> DEFINE n == Len(c)
           s == IF n >= Capacity THEN 1 ELSE 0
           w == IF n >= Capacity THEN Tail(c) ELSE c
           d == Append(w, e)
           S == Range(c) \cup {e}
<1>1. /\ n \in Nat /\ DOMAIN c = 1..n /\ c \in Seq(Range(c)) /\ n <= Capacity /\ Capacity \in Nat
      /\ Capacity >= 1 /\ \A i \in 1..n : c[i].txid # t
      /\ \A i, j \in 1..n : c[i].txid = c[j].txid => i = j
      /\ \A i \in 1..n : c[i].obj \in R \cup {NoObj}
  BY ListFacts, ResolveAssumption DEF CacheGood, Cached
<1>2. w \in Seq(Range(c)) /\ Len(w) = n - s /\ \A i \in 1..n - s : w[i] = c[i + s]
  <2>1. CASE n >= Capacity
    <3>1. c # <<>>
      BY <1>1, <2>1
    <3>2. Tail(c) \in Seq(Range(c)) /\ Len(Tail(c)) = n - 1 /\ \A i \in 1..n - 1 : Tail(c)[i] = c[i + 1]
      BY <1>1, <3>1
    <3> QED
      BY <2>1, <3>2
  <2>2. CASE ~(n >= Capacity)
    BY <1>1, <2>2
  <2> QED
    BY <2>1, <2>2
<1>3. s \in {0, 1} /\ n - s \in Nat /\ n - s + 1 <= Capacity
  BY <1>1
<1> HIDE DEF s, w, n
<1>4. w \in Seq(S) /\ e \in S
  BY <1>2
<1> DEFINE m == n - s
<1>5. /\ d \in Seq(S) /\ Len(d) = m + 1 /\ DOMAIN d = 1..m + 1 /\ d[m + 1] = e
      /\ \A i \in 1..m : d[i] = c[i + s] /\ i + s \in 1..n
  <2> HIDE DEF S
  <2>1. d \in Seq(S) /\ Len(d) = Len(w) + 1 /\ d[Len(w) + 1] = e /\ \A i \in 1..Len(w) : d[i] = w[i]
    BY <1>4
  <2> HIDE DEF d
  <2> QED
    BY <1>1, <1>2, <1>3, <2>1
<1>6. IsList(d)
  BY <1>5, SeqIsList
<1> HIDE DEF d, S
<1>7. m \in Nat
  BY <1>3
<1>8. CacheGood(d, R)
  <2> HIDE DEF m
  <2>1. ASSUME NEW i \in 1..m + 1, NEW j \in 1..m + 1, d[i].txid = d[j].txid PROVE i = j
    <3>1. CASE i = m + 1 \/ j = m + 1
      BY <1>1, <1>5, <1>7, <2>1, <3>1
    <3>2. CASE i \in 1..m /\ j \in 1..m
      <4>1. i + s = j + s
        BY <1>1, <1>5, <2>1, <3>2
      <4> QED
        BY <1>3, <3>2, <4>1
    <3> QED
      BY <1>7, <3>1, <3>2
  <2>2. ASSUME NEW i \in 1..m + 1 PROVE d[i].obj \in R \cup {NoObj}
    <3>1. i = m + 1 \/ i \in 1..m
      BY <1>7
    <3> QED
      BY <1>1, <1>5, <3>1
  <2>3. m + 1 <= Capacity
    BY <1>3 DEF m
  <2> QED
    BY <1>5, <1>6, <2>1, <2>2, <2>3 DEF CacheGood
<1>9. Cached(d, t)
  <2> HIDE DEF m
  <2>1. m + 1 \in DOMAIN d /\ d[m + 1].txid = t
    BY <1>5, <1>7
  <2> QED
    BY <2>1 DEF Cached
<1>10. ASSUME NEW V, NEW U, Keeps(c, V, U), t \in U, IsFiniteSet(U), Cardinality(U) <= Capacity
       PROVE  Keeps(d, V \cup {t}, U)
  <2>1. ASSUME s = 1, c[1].txid \in V PROVE FALSE
    <3>1. n = Capacity /\ 1 \in 1..n
      BY <1>1, <2>1 DEF s
    <3>2. \A j \in 1..n : c[j].txid \in U \ {t}
      BY <1>1, <1>10, <2>1, <3>1 DEF Keeps
    <3> DEFINE f == [j \in 1..n |-> c[j].txid]
    <3>3. f \in [1..n -> U \ {t}] /\ \A i, j \in 1..n : f[i] = f[j] => i = j
      BY <1>1, <3>2
    <3> HIDE DEF f
    <3>4. f \in Injection(1..n, U \ {t})
      BY <3>3 DEF Injection, IsInjective
    <3>5. IsFiniteSet(U \ {t}) /\ Cardinality(U \ {t}) = Cardinality(U) - 1 /\ Cardinality(U) \in Nat
      BY <1>10, FS_RemoveElement, FS_CardinalityType
    <3>6. Cardinality(1..n) <= Cardinality(U \ {t})
      BY <3>4, <3>5, FS_Injection
    <3>7. Cardinality(1..n) = n
      BY <1>1, <3>1, FS_Interval
    <3> QED
      BY <1>1, <1>10, <3>1, <3>5, <3>6, <3>7
  <2>2. ASSUME NEW u \in V \cup {t} PROVE Cached(d, u)
    <3>1. CASE u = t
      BY <1>9, <3>1
    <3>2. CASE u # t
      <4>1. PICK i \in 1..n : c[i].txid = u
        BY <1>1, <1>10, <3>2 DEF Keeps, Cached
      <4>2. u \in V
        BY <3>2
      <4>3. ~(s = 1 /\ i = 1)
        BY <2>1, <4>1, <4>2
      <4>4. i - s \in 1..m /\ (i - s) + s = i
        BY <1>1, <1>3, <4>3
      <4>5. i - s \in DOMAIN d /\ d[i - s].txid = u
        BY <1>5, <1>7, <4>1, <4>4
      <4> QED
        BY <4>5 DEF Cached
    <3> QED
      BY <3>1, <3>2
  <2>3. ASSUME NEW i \in 1..m + 1, NEW j \in 1..m + 1, i <= j, d[i].txid \in V \cup {t}
        PROVE  d[j].txid \in U
    <3>1. CASE j = m + 1
      BY <1>5, <1>10, <3>1
    <3>2. CASE j # m + 1
      <4>1. i \in 1..m /\ j \in 1..m
        BY <1>7, <2>3, <3>2
      <4>2. /\ d[i].txid = c[i + s].txid /\ d[j].txid = c[j + s].txid
            /\ i + s \in 1..n /\ j + s \in 1..n /\ i + s <= j + s
        BY <1>3, <1>5, <2>3, <4>1
      <4>3. c[i + s].txid # t
        BY <1>1, <4>2
      <4> QED
        BY <1>1, <1>10, <2>3, <4>2, <4>3 DEF Keeps
    <3> QED
      BY <3>1, <3>2
  <2> HIDE DEF m
  <2> QED
    BY <1>5, <2>2, <2>3 DEF Keeps
<1> QED
  BY <1>5, <1>8, <1>9, <1>10 DEF d, S, w, n

\* A cache hit moves the entry.
LEMMA GetFacts ==
  ASSUME NEW R, NEW c, CacheGood(c, R), NEW t
  PROVE  /\ CacheGood(getLocked(c, t), R) /\ getLocked(c, t) \in Seq(Range(c))
         /\ \A u : Cached(getLocked(c, t), u) <=> Cached(c, u)
         /\ Cached(c, t) => EntryOf(c, t) \in Range(c) /\ EntryOf(c, t).obj \in R \cup {NoObj}
         /\ \A V, U : Keeps(c, V, U) /\ t \in U =>
                /\ Keeps(getLocked(c, t), V, U)
                /\ Cached(c, t) => Keeps(getLocked(c, t), V \cup {t}, U)
<1>1. CASE ~Cached(c, t)
  <2>1. getLocked(c, t) = c
    BY <1>1 DEF getLocked
  <2>2. c \in Seq(Range(c))
    BY DEF CacheGood, IsList
  <2> QED
    BY <1>1, <2>1, <2>2
<1>2. CASE Cached(c, t)
  <2> DEFINE e == EntryOf(c, t)
             d == Append(Without(c, t), e)
  <2>1. e \in Range(c) /\ e.txid = t /\ e.obj \in R \cup {NoObj}
    <3>1. PlaceOf(c, t) \in DOMAIN c /\ c[PlaceOf(c, t)].txid = t
      BY <1>2, PlaceFacts
    <3> HIDE DEF PlaceOf
    <3> QED
      BY <3>1 DEF EntryOf, Range, CacheGood
  <2>2. getLocked(c, t) = d
    BY <1>2 DEF getLocked
  <2> HIDE DEF e
  <2>3. /\ CacheGood(d, R) /\ d \in Seq(Range(c) \cup {e})
        /\ \A u : Cached(d, u) <=> Cached(c, u)
        /\ \A V, U : Keeps(c, V, U) /\ t \in U => Keeps(d, V \cup {t}, U)
    BY <1>2, <2>1, MovedFacts
  <2> HIDE DEF d
  <2>4. Range(c) \cup {e} = Range(c)
    BY <2>1
  <2>5. \A V, U : Keeps(d, V \cup {t}, U) => Keeps(d, V, U)
    BY DEF Keeps
  <2> QED
    BY <1>2, <2>1, <2>2, <2>3, <2>4, <2>5 DEF e
<1> QED
  BY <1>1, <1>2

\* The plan's states: the cache is in order, hits and misses are of the requests.
Planning(E, T, Q) ==
    {s \in [cache : Seq(E), hits : Seq(T), misses : Seq(Q), bad : BOOLEAN] : CacheGood(s.cache, Refs)}

\* One request of the plan.
LEMMA ScanStep ==
  ASSUME NEW E, NEW T, NEW Q, NEW s \in Planning(E, T, Q),
         NEW r \in Q, r.txid \in T, Placeholder(r.txid) \in E
  PROVE  LET d == ScanRequest(s, r)
         IN  /\ d \in Planning(E, T, Q)
             /\ \A V, U : /\ ~s.bad /\ Keeps(s.cache, V, U) /\ r.txid \in U
                          /\ IsFiniteSet(U) /\ Cardinality(U) <= Capacity
                          => ~d.bad /\ Keeps(d.cache, V \cup {r.txid}, U)
<1> DEFINE t == r.txid
           c == getLocked(s.cache, t)
           full == ~Cached(c, t) /\ Capacity < 1
           d == ScanRequest(s, r)
<1>1. /\ s = [cache |-> s.cache, hits |-> s.hits, misses |-> s.misses, bad |-> s.bad]
      /\ s.cache \in Seq(E) /\ s.hits \in Seq(T) /\ s.misses \in Seq(Q) /\ s.bad \in BOOLEAN
      /\ CacheGood(s.cache, Refs)
  BY DEF Planning
<1>2. /\ CacheGood(c, Refs) /\ c \in Seq(Range(s.cache))
      /\ \A V, U : Keeps(s.cache, V, U) /\ t \in U =>
             Keeps(c, V, U) /\ (Cached(c, t) => Keeps(c, V \cup {t}, U))
  <2>1. \A u : Cached(c, u) <=> Cached(s.cache, u)
    BY <1>1, GetFacts
  <2> QED
    BY <1>1, <2>1, GetFacts
<1>3. c \in Seq(E)
  <2>1. Range(s.cache) \subseteq E
    BY <1>1, SeqIsList
  <2> QED
    BY <1>2, <2>1
<1> HIDE DEF c
<1>4. CASE s.bad
  <2>1. d = s
    BY <1>4 DEF ScanRequest
  <2> QED
    BY <1>4, <2>1
<1>5. CASE ~s.bad /\ IsHit(c, t)
  <2> DEFINE h == IF Contains(s.hits, t) THEN s.hits ELSE Append(s.hits, t)
  <2>1. d = [s EXCEPT !.cache = c, !.hits = h]
    BY <1>5 DEF ScanRequest, c
  <2>2. h \in Seq(T)
    BY <1>1
  <2> HIDE DEF h
  <2>3. d = [cache |-> c, hits |-> h, misses |-> s.misses, bad |-> s.bad]
    BY <1>1, <2>1
  <2>4. d \in Planning(E, T, Q) /\ d.cache = c /\ d.bad = s.bad
    BY <1>1, <1>2, <1>3, <2>2, <2>3 DEF Planning
  <2>5. Cached(c, t)
    BY <1>5 DEF IsHit
  <2> QED
    BY <1>2, <1>5, <2>4, <2>5
<1>6. CASE ~s.bad /\ ~IsHit(c, t)
  <2> DEFINE b == IF full THEN c ELSE insertPlaceholderLocked(c, t)
             m == Append(s.misses, r)
  <2>1. d = [s EXCEPT !.bad = full, !.cache = b, !.misses = m]
    BY <1>6 DEF ScanRequest, c
  <2>2. m \in Seq(Q)
    BY <1>1
  <2> HIDE DEF m
  <2>3. /\ CacheGood(b, Refs) /\ b \in Seq(E)
        /\ \A V, U : /\ Keeps(c, V, U) /\ t \in U /\ IsFiniteSet(U) /\ Cardinality(U) <= Capacity
                     => ~full /\ Keeps(b, V \cup {t}, U)
    <3>1. CASE full
      <4>1. ASSUME NEW U, t \in U, IsFiniteSet(U), Cardinality(U) <= Capacity PROVE FALSE
        <5>1. Cardinality(U) = 0
          BY <3>1, <4>1, FS_CardinalityType, ResolveAssumption
        <5> QED
          BY <4>1, <5>1, FS_EmptySet
      <4> QED
        BY <1>2, <1>3, <3>1, <4>1
    <3>2. CASE Cached(c, t)
      <4>1. b = getLocked(c, t)
        BY <3>2 DEF insertPlaceholderLocked
      <4>2. CacheGood(b, Refs) /\ b \in Seq(Range(c)) /\ \A V, U : Keeps(c, V, U) /\ t \in U => Keeps(b, V \cup {t}, U)
        BY <1>2, <3>2, <4>1, GetFacts
      <4>3. Range(c) \subseteq E
        BY <1>3, SeqIsList
      <4> QED
        BY <3>2, <4>2, <4>3
    <3>3. CASE ~Cached(c, t) /\ ~(Capacity < 1)
      <4> DEFINE e == Placeholder(t)
      <4>1. e.txid = t /\ e.obj \in Refs \cup {NoObj}
        BY DEF Placeholder
      <4>2. b = Append(IF Len(c) >= Capacity THEN Tail(c) ELSE c, e)
        BY <3>3 DEF insertPlaceholderLocked
      <4> HIDE DEF e, b
      <4>3. /\ CacheGood(b, Refs) /\ b \in Seq(Range(c) \cup {e})
            /\ \A V, U : Keeps(c, V, U) /\ t \in U /\ IsFiniteSet(U) /\ Cardinality(U) <= Capacity
                             => Keeps(b, V \cup {t}, U)
        BY <1>2, <3>3, <4>1, <4>2, InsertedFacts
      <4>4. Range(c) \cup {e} \subseteq E
        BY <1>3, SeqIsList DEF e
      <4> QED
        BY <3>3, <4>3, <4>4
    <3> QED
      BY <3>1, <3>2, <3>3
  <2>4. full \in BOOLEAN
    OBVIOUS
  <2> HIDE DEF b, full
  <2>5. d = [cache |-> b, hits |-> s.hits, misses |-> m, bad |-> full]
    BY <1>1, <2>1
  <2>6. d \in Planning(E, T, Q) /\ d.cache = b /\ d.bad = full
    BY <1>1, <2>2, <2>3, <2>4, <2>5 DEF Planning
  <2> QED
    BY <1>2, <2>3, <2>6
<1> QED
  BY <1>4, <1>5, <1>6

\* The plan's first pass.
LEMMA ScanFacts ==
  ASSUME NEW ordered, IsList(ordered), CacheGood(cache, Refs)
  PROVE  /\ Scan(ordered) \in Planning(Range(cache) \cup {Placeholder(t) : t \in TxidsOf(ordered)},
                                      TxidsOf(ordered), Range(ordered))
         /\ \A V, U : /\ Keeps(cache, V, U) /\ TxidsOf(ordered) \subseteq U
                      /\ IsFiniteSet(U) /\ Cardinality(U) <= Capacity
                      => ~Scan(ordered).bad /\ Keeps(Scan(ordered).cache, V \cup TxidsOf(ordered), U)
<1> DEFINE N == Len(ordered)
           base == [cache |-> cache, hits |-> <<>>, misses |-> <<>>, bad |-> FALSE]
           next(s, k) == ScanRequest(s, ordered[k])
           E(g) == g = [k \in 0..N |-> IF k = 0 THEN base ELSE next(g[k - 1], k)]
           list == CHOOSE g : E(g)
           S == Planning(Range(cache) \cup {Placeholder(t) : t \in TxidsOf(ordered)},
                         TxidsOf(ordered), Range(ordered))
           ids(k) == {ordered[i].txid : i \in 1..k}
<1>1. N \in Nat /\ DOMAIN ordered = 1..N /\ \A i \in 1..N : ordered[i] \in Range(ordered)
  BY ListFacts
<1>2. base \in S
  BY DEF Planning, CacheGood, IsList
<1>3. /\ \A k \in 1..N, x \in S : next(x, k) \in S
      /\ \A k \in 1..N, x \in S : \A V, U :
            /\ ~x.bad /\ Keeps(x.cache, V, U) /\ ordered[k].txid \in U
            /\ IsFiniteSet(U) /\ Cardinality(U) <= Capacity
            => ~next(x, k).bad /\ Keeps(next(x, k).cache, V \cup {ordered[k].txid}, U)
  <2> SUFFICES ASSUME NEW k \in 1..N, NEW x \in S
               PROVE  /\ next(x, k) \in S
                      /\ \A V, U :
                            /\ ~x.bad /\ Keeps(x.cache, V, U) /\ ordered[k].txid \in U
                            /\ IsFiniteSet(U) /\ Cardinality(U) <= Capacity
                            => ~next(x, k).bad /\ Keeps(next(x, k).cache, V \cup {ordered[k].txid}, U)
    OBVIOUS
  <2>1. ordered[k] \in Range(ordered) /\ ordered[k].txid \in TxidsOf(ordered)
    BY <1>1 DEF TxidsOf
  <2>2. Placeholder(ordered[k].txid) \in Range(cache) \cup {Placeholder(t) : t \in TxidsOf(ordered)}
    BY <2>1
  <2> QED
    BY <2>1, <2>2, ScanStep
<1>0. Scan(ordered) = list[N]
  BY DEF Scan
<1> HIDE DEF N, next, base, S
<1>4. \E g : E(g)
  <2> DEFINE step == [k \in 1..N |-> [x \in S |-> next(x, k)]]
  <2>1. step \in [1..N -> [S -> S]]
    BY <1>3
  <2>2. \A k \in 1..N, x \in S : step[k][x] = next(x, k)
    OBVIOUS
  <2> HIDE DEF step
  <2>3. PICK g \in [0..N -> S] : g[0] = base /\ \A k \in 1..N : g[k] = step[k][g[k - 1]]
    <3>1. \E g : Recurrence(S, N, base, step, g)
      BY <1>1, <1>2, <2>1, RecurrenceSolved
    <3> QED
      BY <3>1 DEF Recurrence
  <2>4. \A k \in 1..N : k - 1 \in 0..N /\ g[k - 1] \in S
    BY <1>1, <2>3
  <2>5. \A k \in 0..N : g[k] = IF k = 0 THEN base ELSE next(g[k - 1], k)
    <3>1. \A k \in 1..N : g[k] = next(g[k - 1], k)
      BY <2>2, <2>3, <2>4
    <3>2. \A k \in 0..N : k = 0 \/ k \in 1..N
      BY <1>1
    <3> QED
      BY <2>3, <3>1, <3>2
  <2>6. E(g)
    BY <2>3, <2>5
  <2> QED
    BY <2>6
<1>5. E(list)
  BY <1>4
<1> HIDE DEF list
<1>6. list[0] = base /\ \A k \in 1..N : list[k] = next(list[k - 1], k)
  BY <1>1, <1>5
<1>7. \A k \in 0..N : list[k] \in S
  <2> DEFINE Good == {k \in 0..N : list[k] \in S}
  <2>1. 0 \in Good
    BY <1>1, <1>2, <1>6
  <2>2. \A k \in 1..N : k - 1 \in Good => k \in Good
    <3>1. \A k \in 1..N, x \in S : next(x, k) \in S
      BY <1>3
    <3>2. \A k \in 1..N : k \in 0..N /\ k - 1 \in 0..N
      BY <1>1
    <3>3. \A k \in 1..N : list[k - 1] \in S => list[k] \in S
      BY <1>6, <3>1
    <3> QED
      BY <3>2, <3>3
  <2>3. \A k \in 0..N : k \in Good
    <3> HIDE DEF Good
    <3> QED
      BY <1>1, <2>1, <2>2, HandedOn
  <2> QED
    BY <2>3
<1>8. ASSUME NEW V, NEW U, Keeps(cache, V, U), TxidsOf(ordered) \subseteq U,
             IsFiniteSet(U), Cardinality(U) <= Capacity
      PROVE  ~list[N].bad /\ Keeps(list[N].cache, V \cup TxidsOf(ordered), U)
  <2> DEFINE Good == {k \in 0..N : ~list[k].bad /\ Keeps(list[k].cache, V \cup ids(k), U)}
  <2>1. 0 \in Good
    <3>1. list[0].bad = FALSE /\ list[0].cache = cache
      BY <1>6 DEF base
    <3>2. V \cup ids(0) = V
      OBVIOUS
    <3> HIDE DEF ids
    <3>3. ~list[0].bad /\ Keeps(list[0].cache, V \cup ids(0), U)
      BY <1>8, <3>1, <3>2
    <3> QED
      BY <1>1, <3>3
  <2>2. ASSUME NEW k \in 1..N, k - 1 \in Good PROVE k \in Good
    <3>1. k - 1 \in 0..N /\ k \in 0..N
      BY <1>1
    <3>2. ~list[k - 1].bad /\ Keeps(list[k - 1].cache, V \cup ids(k - 1), U) /\ list[k - 1] \in S
      BY <1>7, <2>2, <3>1
    <3>3. ordered[k].txid \in U
      BY <1>1, <1>8 DEF TxidsOf
    <3>4. (V \cup ids(k - 1)) \cup {ordered[k].txid} = V \cup ids(k)
      <4>1. 1..k = 1..(k - 1) \cup {k}
        BY <1>1
      <4> QED
        BY <4>1
    <3> HIDE DEF ids
    <3>5. ~list[k].bad /\ Keeps(list[k].cache, (V \cup ids(k - 1)) \cup {ordered[k].txid}, U)
      BY <1>3, <1>6, <1>8, <3>2, <3>3
    <3> QED
      BY <3>1, <3>4, <3>5
  <2>3. N \in Good
    <3> HIDE DEF Good
    <3>1. \A k \in 0..N : k \in Good
      BY <1>1, <2>1, <2>2, HandedOn
    <3> QED
      BY <1>1, <3>1
  <2>4. ids(N) = TxidsOf(ordered)
    BY <1>1 DEF TxidsOf
  <2> HIDE DEF ids
  <2> QED
    BY <2>3, <2>4
<1>9. list[N] \in S
  BY <1>1, <1>7
<1> QED
  BY <1>0, <1>8, <1>9 DEF S

\* The second pass: the hits are taken out.
Collecting(C) ==
    {s \in [cache : Seq(C), txs : Seq(Refs \cup {NoObj}), bad : BOOLEAN] : CacheGood(s.cache, Refs)}

LEMMA CollectStep ==
  ASSUME NEW C, NEW s \in Collecting(C), NEW t
  PROVE  /\ CollectHit(s, t) \in Collecting(C)
         /\ \A V, U : /\ ~s.bad /\ Keeps(s.cache, V, U) /\ t \in U /\ t \in V
                      => ~CollectHit(s, t).bad /\ Keeps(CollectHit(s, t).cache, V, U)
<1> DEFINE d == CollectHit(s, t)
           c == getLocked(s.cache, t)
           o == EntryOf(s.cache, t).obj
<1>1. /\ s = [cache |-> s.cache, txs |-> s.txs, bad |-> s.bad]
      /\ s.cache \in Seq(C) /\ s.txs \in Seq(Refs \cup {NoObj}) /\ s.bad \in BOOLEAN
      /\ CacheGood(s.cache, Refs)
  BY DEF Collecting
<1>2. CASE s.bad \/ ~Cached(s.cache, t)
  <2>1. d = [s EXCEPT !.bad = TRUE]
    BY <1>2 DEF CollectHit
  <2>2. d = [cache |-> s.cache, txs |-> s.txs, bad |-> TRUE]
    BY <1>1, <2>1
  <2>3. d \in Collecting(C)
    BY <1>1, <2>2 DEF Collecting
  <2>4. \A V, U : Keeps(s.cache, V, U) /\ t \in V => Cached(s.cache, t)
    BY DEF Keeps
  <2> QED
    BY <1>2, <2>3, <2>4
<1>3. CASE ~s.bad /\ Cached(s.cache, t)
  <2>1. d = [s EXCEPT !.cache = c, !.txs = Append(s.txs, o)]
    BY <1>3 DEF CollectHit
  <2>2. CacheGood(c, Refs) /\ c \in Seq(Range(s.cache)) /\ o \in Refs \cup {NoObj}
    BY <1>1, <1>3, GetFacts
  <2>3. \A V, U : Keeps(s.cache, V, U) /\ t \in U => Keeps(c, V, U)
    BY <1>1, GetFacts
  <2>4. c \in Seq(C)
    <3>1. Range(s.cache) \subseteq C
      BY <1>1, SeqIsList
    <3> QED
      BY <2>2, <3>1
  <2> HIDE DEF c, o
  <2> DEFINE txs == Append(s.txs, o)
  <2>5. txs \in Seq(Refs \cup {NoObj})
    BY <1>1, <2>2
  <2> HIDE DEF txs
  <2>6. d = [cache |-> c, txs |-> txs, bad |-> s.bad]
    BY <1>1, <2>1 DEF txs
  <2>7. d \in Collecting(C) /\ d.cache = c /\ d.bad = s.bad
    BY <1>1, <2>2, <2>4, <2>5, <2>6 DEF Collecting
  <2> QED
    BY <1>3, <2>3, <2>7
<1> QED
  BY <1>2, <1>3

LEMMA CollectFacts ==
  ASSUME NEW s, CacheGood(s.cache, Refs), s.bad \in BOOLEAN, IsList(s.hits)
  PROVE  /\ Collect(s) \in Collecting(Range(s.cache))
         /\ \A V, U : /\ ~s.bad /\ Keeps(s.cache, V, U) /\ Range(s.hits) \subseteq U /\ Range(s.hits) \subseteq V
                      => ~Collect(s).bad /\ Keeps(Collect(s).cache, V, U)
<1> DEFINE N == Len(s.hits)
           base == [cache |-> s.cache, txs |-> <<>>, bad |-> s.bad]
           next(x, k) == CollectHit(x, s.hits[k])
           E(g) == g = [k \in 0..N |-> IF k = 0 THEN base ELSE next(g[k - 1], k)]
           list == CHOOSE g : E(g)
           S == Collecting(Range(s.cache))
<1>1. N \in Nat /\ DOMAIN s.hits = 1..N /\ \A i \in 1..N : s.hits[i] \in Range(s.hits)
  BY ListFacts
<1>2. base \in S
  BY DEF Collecting, CacheGood, IsList
<1>3. /\ \A k \in 1..N, x \in S : next(x, k) \in S
      /\ \A k \in 1..N, x \in S : \A V, U :
            /\ ~x.bad /\ Keeps(x.cache, V, U) /\ s.hits[k] \in U /\ s.hits[k] \in V
            => ~next(x, k).bad /\ Keeps(next(x, k).cache, V, U)
  BY CollectStep
<1>0. Collect(s) = list[N]
  BY DEF Collect
<1> HIDE DEF N, next, base, S
<1>4. \E g : E(g)
  <2> DEFINE step == [k \in 1..N |-> [x \in S |-> next(x, k)]]
  <2>1. step \in [1..N -> [S -> S]]
    BY <1>3
  <2>2. \A k \in 1..N, x \in S : step[k][x] = next(x, k)
    OBVIOUS
  <2> HIDE DEF step
  <2>3. PICK g \in [0..N -> S] : g[0] = base /\ \A k \in 1..N : g[k] = step[k][g[k - 1]]
    <3>1. \E g : Recurrence(S, N, base, step, g)
      BY <1>1, <1>2, <2>1, RecurrenceSolved
    <3> QED
      BY <3>1 DEF Recurrence
  <2>4. \A k \in 1..N : k - 1 \in 0..N /\ g[k - 1] \in S
    BY <1>1, <2>3
  <2>5. \A k \in 0..N : g[k] = IF k = 0 THEN base ELSE next(g[k - 1], k)
    <3>1. \A k \in 1..N : g[k] = next(g[k - 1], k)
      BY <2>2, <2>3, <2>4
    <3>2. \A k \in 0..N : k = 0 \/ k \in 1..N
      BY <1>1
    <3> QED
      BY <2>3, <3>1, <3>2
  <2>6. E(g)
    BY <2>3, <2>5
  <2> QED
    BY <2>6
<1>5. E(list)
  BY <1>4
<1> HIDE DEF list
<1>6. list[0] = base /\ \A k \in 1..N : list[k] = next(list[k - 1], k)
  BY <1>1, <1>5
<1>7. \A k \in 0..N : list[k] \in S
  <2> DEFINE Good == {k \in 0..N : list[k] \in S}
  <2>1. 0 \in Good
    BY <1>1, <1>2, <1>6
  <2>2. \A k \in 1..N : k - 1 \in Good => k \in Good
    <3>1. \A k \in 1..N, x \in S : next(x, k) \in S
      BY <1>3
    <3>2. \A k \in 1..N : k \in 0..N /\ k - 1 \in 0..N
      BY <1>1
    <3>3. \A k \in 1..N : list[k - 1] \in S => list[k] \in S
      BY <1>6, <3>1
    <3> QED
      BY <3>2, <3>3
  <2>3. \A k \in 0..N : k \in Good
    <3> HIDE DEF Good
    <3> QED
      BY <1>1, <2>1, <2>2, HandedOn
  <2> QED
    BY <2>3
<1>8. ASSUME NEW V, NEW U, ~s.bad, Keeps(s.cache, V, U), Range(s.hits) \subseteq U, Range(s.hits) \subseteq V
      PROVE  ~list[N].bad /\ Keeps(list[N].cache, V, U)
  <2> DEFINE Good == {k \in 0..N : ~list[k].bad /\ Keeps(list[k].cache, V, U)}
  <2>1. 0 \in Good
    <3>1. list[0].bad = s.bad /\ list[0].cache = s.cache
      BY <1>6 DEF base
    <3> QED
      BY <1>1, <1>8, <3>1
  <2>2. ASSUME NEW k \in 1..N, k - 1 \in Good PROVE k \in Good
    <3>1. k - 1 \in 0..N /\ k \in 0..N
      BY <1>1
    <3>2. ~list[k - 1].bad /\ Keeps(list[k - 1].cache, V, U) /\ list[k - 1] \in S
      BY <1>7, <2>2, <3>1
    <3>3. s.hits[k] \in U /\ s.hits[k] \in V
      BY <1>1, <1>8
    <3>5. ~list[k].bad /\ Keeps(list[k].cache, V, U)
      BY <1>3, <1>6, <3>2, <3>3
    <3> QED
      BY <3>1, <3>5
  <2>3. N \in Good
    <3> HIDE DEF Good
    <3>1. \A k \in 0..N : k \in Good
      BY <1>1, <2>1, <2>2, HandedOn
    <3> QED
      BY <1>1, <3>1
  <2> QED
    BY <2>3
<1>9. list[N] \in S
  BY <1>1, <1>7
<1> QED
  BY <1>0, <1>8, <1>9 DEF S

\* The plan touches every transaction it was asked for, and fails only when what is in use
\* does not fit the cache.
LEMMA PlanFacts ==
  ASSUME NEW ordered, IsList(ordered), CacheGood(cache, Refs)
  PROVE  /\ CacheGood(plan(ordered).cache, Refs)
         /\ plan(ordered).txs \in Seq(Refs \cup {NoObj})
         /\ plan(ordered).misses \in Seq(Range(ordered))
         /\ \A V, U : /\ Keeps(cache, V, U) /\ TxidsOf(ordered) \subseteq U
                      /\ IsFiniteSet(U) /\ Cardinality(U) <= Capacity
                      => ~plan(ordered).bad /\ Keeps(plan(ordered).cache, V \cup TxidsOf(ordered), U)
<1> DEFINE s == Scan(ordered)
           h == Collect(s)
           ids == TxidsOf(ordered)
<1>1. plan(ordered) = [cache |-> h.cache, txs |-> h.txs, misses |-> s.misses, bad |-> h.bad]
  BY DEF plan
<1>2. /\ CacheGood(s.cache, Refs) /\ s.bad \in BOOLEAN /\ s.hits \in Seq(ids) /\ s.misses \in Seq(Range(ordered))
  <2>1. s \in Planning(Range(cache) \cup {Placeholder(t) : t \in TxidsOf(ordered)},
                      TxidsOf(ordered), Range(ordered))
    BY ScanFacts
  <2> HIDE DEF s
  <2> QED
    BY <2>1 DEF Planning
<1>3. \A V, U : /\ Keeps(cache, V, U) /\ ids \subseteq U /\ IsFiniteSet(U) /\ Cardinality(U) <= Capacity
               => ~s.bad /\ Keeps(s.cache, V \cup ids, U)
  BY ScanFacts
<1> HIDE DEF s, ids
<1>4. IsList(s.hits) /\ Range(s.hits) \subseteq ids
  BY <1>2, SeqIsList
<1>5. /\ h \in Collecting(Range(s.cache))
      /\ \A V, U : /\ ~s.bad /\ Keeps(s.cache, V, U) /\ Range(s.hits) \subseteq U /\ Range(s.hits) \subseteq V
                      => ~h.bad /\ Keeps(h.cache, V, U)
  BY <1>2, <1>4, CollectFacts
<1> HIDE DEF h
<1>6. CacheGood(h.cache, Refs) /\ h.txs \in Seq(Refs \cup {NoObj})
  BY <1>5 DEF Collecting
<1>7. ASSUME NEW V, NEW U, Keeps(cache, V, U), ids \subseteq U, IsFiniteSet(U), Cardinality(U) <= Capacity
      PROVE  ~h.bad /\ Keeps(h.cache, V \cup ids, U)
  <2>1. ~s.bad /\ Keeps(s.cache, V \cup ids, U)
    BY <1>3, <1>7
  <2>2. Range(s.hits) \subseteq U /\ Range(s.hits) \subseteq V \cup ids
    BY <1>4, <1>7
  <2> QED
    BY <1>5, <2>1, <2>2
<1> QED
  BY <1>1, <1>2, <1>6, <1>7 DEF ids

\* The stores of a batch.
StoredEntry(o) == [txid |-> Obj(o).txid, obj |-> o, quiet |-> Quiet(o)]
Storing(C) == {s \in [cache : Seq(C), bad : BOOLEAN] : CacheGood(s.cache, Refs)}

LEMMA StoreStep ==
  ASSUME NEW C, NEW s \in Storing(C), NEW o \in Refs \cup {NoObj}, StoredEntry(o) \in C
  PROVE  /\ setExisting(s, o) \in Storing(C)
         /\ \A u : Cached(setExisting(s, o).cache, u) <=> Cached(s.cache, u)
         /\ ~s.bad /\ Cached(s.cache, Obj(o).txid) => ~setExisting(s, o).bad
         /\ \A V, U : Keeps(s.cache, V, U) /\ Obj(o).txid \in U => Keeps(setExisting(s, o).cache, V, U)
<1> DEFINE d == setExisting(s, o)
           t == Obj(o).txid
           e == StoredEntry(o)
           c == Append(Without(s.cache, t), e)
<1>1. /\ s = [cache |-> s.cache, bad |-> s.bad] /\ s.cache \in Seq(C) /\ s.bad \in BOOLEAN
      /\ CacheGood(s.cache, Refs)
  BY DEF Storing
<1>2. CASE s.bad \/ ~Cached(s.cache, t)
  <2>1. d = [s EXCEPT !.bad = TRUE]
    BY <1>2 DEF setExisting
  <2>2. d = [cache |-> s.cache, bad |-> TRUE]
    BY <1>1, <2>1
  <2>3. d \in Storing(C) /\ d.cache = s.cache
    BY <1>1, <2>2 DEF Storing
  <2> QED
    BY <1>2, <2>3
<1>3. CASE ~s.bad /\ Cached(s.cache, t)
  <2>1. d = [s EXCEPT !.cache = c]
    BY <1>3 DEF setExisting, StoredEntry
  <2>2. e.txid = t /\ e.obj \in Refs \cup {NoObj}
    BY DEF StoredEntry
  <2> HIDE DEF e
  <2>3. /\ CacheGood(c, Refs) /\ c \in Seq(Range(s.cache) \cup {e})
        /\ \A u : Cached(c, u) <=> Cached(s.cache, u)
        /\ \A V, U : Keeps(s.cache, V, U) /\ t \in U => Keeps(c, V \cup {t}, U)
    BY <1>1, <1>3, <2>2, MovedFacts
  <2>4. c \in Seq(C)
    <3>1. Range(s.cache) \cup {e} \subseteq C
      BY <1>1, SeqIsList DEF e
    <3> HIDE DEF c
    <3> QED
      BY <2>3, <3>1
  <2> HIDE DEF c
  <2>5. d = [cache |-> c, bad |-> s.bad]
    BY <1>1, <2>1
  <2>6. d \in Storing(C) /\ d.cache = c /\ d.bad = s.bad
    BY <1>1, <2>3, <2>4, <2>5 DEF Storing
  <2>7. \A V, U : Keeps(c, V \cup {t}, U) => Keeps(c, V, U)
    BY DEF Keeps
  <2> QED
    BY <1>3, <2>3, <2>6, <2>7
<1> QED
  BY <1>2, <1>3

\* A batch only moves entries, and finds the ones that are there.
LEMMA StoreFacts ==
  ASSUME NEW order \in Seq(Refs \cup {NoObj}), CacheGood(cache, Refs)
  PROVE  /\ CacheGood(storeBatch(order).cache, Refs) /\ storeBatch(order).bad \in BOOLEAN
         /\ (\A i \in DOMAIN order : Cached(cache, Obj(order[i]).txid)) => ~storeBatch(order).bad
         /\ \A V, U : Keeps(cache, V, U) /\ (\A i \in DOMAIN order : Obj(order[i]).txid \in U)
                         => Keeps(storeBatch(order).cache, V, U)
<1> DEFINE N == Len(order)
           base == [cache |-> cache, bad |-> FALSE]
           next(x, k) == setExisting(x, order[k])
           E(g) == g = [k \in 0..N |-> IF k = 0 THEN base ELSE next(g[k - 1], k)]
           list == CHOOSE g : E(g)
           C == Range(cache) \cup {StoredEntry(o) : o \in Refs \cup {NoObj}}
           S == Storing(C)
<1>1. N \in Nat /\ DOMAIN order = 1..N /\ \A i \in 1..N : order[i] \in Refs \cup {NoObj}
  OBVIOUS
<1>2. base \in S
  BY DEF Storing, CacheGood, IsList
<1>3. /\ \A k \in 1..N, x \in S : next(x, k) \in S
      /\ \A k \in 1..N, x \in S :
            /\ \A u : Cached(next(x, k).cache, u) <=> Cached(x.cache, u)
            /\ ~x.bad /\ Cached(x.cache, Obj(order[k]).txid) => ~next(x, k).bad
            /\ \A V, U : Keeps(x.cache, V, U) /\ Obj(order[k]).txid \in U => Keeps(next(x, k).cache, V, U)
  <2>1. \A k \in 1..N : StoredEntry(order[k]) \in C
    BY <1>1
  <2> HIDE DEF C, N
  <2> SUFFICES ASSUME NEW k \in 1..N, NEW x \in S
               PROVE  /\ next(x, k) \in S
                      /\ \A u : Cached(next(x, k).cache, u) <=> Cached(x.cache, u)
                      /\ ~x.bad /\ Cached(x.cache, Obj(order[k]).txid) => ~next(x, k).bad
                      /\ \A V, U : Keeps(x.cache, V, U) /\ Obj(order[k]).txid \in U
                                     => Keeps(next(x, k).cache, V, U)
    OBVIOUS
  <2> QED
    BY <1>1, <2>1, StoreStep
<1>0. storeBatch(order) = list[N]
  BY DEF storeBatch
<1> HIDE DEF N, next, base, S
<1>4. \E g : E(g)
  <2> DEFINE step == [k \in 1..N |-> [x \in S |-> next(x, k)]]
  <2>1. step \in [1..N -> [S -> S]]
    BY <1>3
  <2>2. \A k \in 1..N, x \in S : step[k][x] = next(x, k)
    OBVIOUS
  <2> HIDE DEF step
  <2>3. PICK g \in [0..N -> S] : g[0] = base /\ \A k \in 1..N : g[k] = step[k][g[k - 1]]
    <3>1. \E g : Recurrence(S, N, base, step, g)
      BY <1>1, <1>2, <2>1, RecurrenceSolved
    <3> QED
      BY <3>1 DEF Recurrence
  <2>4. \A k \in 1..N : k - 1 \in 0..N /\ g[k - 1] \in S
    BY <1>1, <2>3
  <2>5. \A k \in 0..N : g[k] = IF k = 0 THEN base ELSE next(g[k - 1], k)
    <3>1. \A k \in 1..N : g[k] = next(g[k - 1], k)
      BY <2>2, <2>3, <2>4
    <3>2. \A k \in 0..N : k = 0 \/ k \in 1..N
      BY <1>1
    <3> QED
      BY <2>3, <3>1, <3>2
  <2>6. E(g)
    BY <2>3, <2>5
  <2> QED
    BY <2>6
<1>5. E(list)
  BY <1>4
<1> HIDE DEF list
<1>6. list[0] = base /\ \A k \in 1..N : list[k] = next(list[k - 1], k)
  BY <1>1, <1>5
<1>7. \A k \in 0..N : list[k] \in S
  <2> DEFINE Good == {k \in 0..N : list[k] \in S}
  <2>1. 0 \in Good
    BY <1>1, <1>2, <1>6
  <2>2. \A k \in 1..N : k - 1 \in Good => k \in Good
    <3>1. \A k \in 1..N, x \in S : next(x, k) \in S
      BY <1>3
    <3>2. \A k \in 1..N : k \in 0..N /\ k - 1 \in 0..N
      BY <1>1
    <3>3. \A k \in 1..N : list[k - 1] \in S => list[k] \in S
      BY <1>6, <3>1
    <3> QED
      BY <3>2, <3>3
  <2>3. \A k \in 0..N : k \in Good
    <3> HIDE DEF Good
    <3> QED
      BY <1>1, <2>1, <2>2, HandedOn
  <2> QED
    BY <2>3
<1>8. ASSUME \A i \in DOMAIN order : Cached(cache, Obj(order[i]).txid) PROVE ~list[N].bad
  <2> DEFINE Good == {k \in 0..N : ~list[k].bad /\ \A u : Cached(list[k].cache, u) <=> Cached(cache, u)}
  <2>1. 0 \in Good
    <3>1. list[0].bad = FALSE /\ list[0].cache = cache
      BY <1>6 DEF base
    <3> QED
      BY <1>1, <3>1
  <2>2. ASSUME NEW k \in 1..N, k - 1 \in Good PROVE k \in Good
    <3>1. k - 1 \in 0..N /\ k \in 0..N
      BY <1>1
    <3>2. ~list[k - 1].bad /\ list[k - 1] \in S /\ \A u : Cached(list[k - 1].cache, u) <=> Cached(cache, u)
      BY <1>7, <2>2, <3>1
    <3>3. Cached(list[k - 1].cache, Obj(order[k]).txid)
      BY <1>1, <1>8, <3>2
    <3>4. ~list[k].bad /\ \A u : Cached(list[k].cache, u) <=> Cached(list[k - 1].cache, u)
      BY <1>3, <1>6, <3>2, <3>3
    <3> QED
      BY <3>1, <3>2, <3>4
  <2>3. N \in Good
    <3> HIDE DEF Good
    <3>1. \A k \in 0..N : k \in Good
      BY <1>1, <2>1, <2>2, HandedOn
    <3> QED
      BY <1>1, <3>1
  <2> QED
    BY <2>3
<1>9. ASSUME NEW V, NEW U, Keeps(cache, V, U), \A i \in DOMAIN order : Obj(order[i]).txid \in U
      PROVE  Keeps(list[N].cache, V, U)
  <2> DEFINE Good == {k \in 0..N : Keeps(list[k].cache, V, U)}
  <2>1. 0 \in Good
    <3>1. list[0].cache = cache
      BY <1>6 DEF base
    <3> QED
      BY <1>1, <1>9, <3>1
  <2>2. ASSUME NEW k \in 1..N, k - 1 \in Good PROVE k \in Good
    <3>1. k - 1 \in 0..N /\ k \in 0..N
      BY <1>1
    <3>2. Keeps(list[k - 1].cache, V, U) /\ list[k - 1] \in S /\ Obj(order[k]).txid \in U
      BY <1>1, <1>7, <1>9, <2>2, <3>1
    <3>3. Keeps(list[k].cache, V, U)
      BY <1>3, <1>6, <3>2
    <3> QED
      BY <3>1, <3>3
  <2>3. N \in Good
    <3> HIDE DEF Good
    <3>1. \A k \in 0..N : k \in Good
      BY <1>1, <2>1, <2>2, HandedOn
    <3> QED
      BY <1>1, <3>1
  <2> QED
    BY <2>3
<1>10. CacheGood(list[N].cache, Refs) /\ list[N].bad \in BOOLEAN
  <2>1. list[N] \in S
    BY <1>1, <1>7
  <2> QED
    BY <2>1 DEF S, Storing
<1> QED
  BY <1>0, <1>8, <1>9, <1>10

LEMMA Highest ==
  ASSUME NEW n \in Nat, NEW T \in SUBSET (1..n), T # {}
  PROVE  \E x \in T : \A y \in T : y <= x
<1> DEFINE D == {n - x : x \in T}
<1>1. D \in SUBSET Nat /\ D # {}
  <2>1. \A x \in T : n - x \in Nat
    OBVIOUS
  <2> QED
    BY <2>1
<1>2. PICK d \in D : \A y \in D : d <= y
  <2> HIDE DEF D
  <2> QED
    BY <1>1, Lowest, Zenon
<1>3. PICK x \in T : d = n - x
  OBVIOUS
<1>4. \A y \in T : d <= n - y
  BY <1>2
<1> QED
  BY <1>3, <1>4

LEMMA ListedFacts ==
  ASSUME NEW S, IsFiniteSet(S)
  PROVE  SetToSeq(S) \in Seq(S) /\ IsList(SetToSeq(S)) /\ \A i \in DOMAIN SetToSeq(S) : SetToSeq(S)[i] \in S
<1> DEFINE N == Cardinality(S)
<1>1. N \in Nat /\ \E f : f \in Bijection(1..N, S)
  <2>1. PICK n \in Nat : ExistsBijection(1..n, S)
    BY FS_NatBijection
  <2>2. N = n
    BY <2>1, FS_CountingElements
  <2> QED
    BY <2>1, <2>2 DEF ExistsBijection
<1>2. \E f \in [1..N -> S] : IsInjective(f)
  BY <1>1 DEF Bijection, Injection
<1>3. SetToSeq(S) \in [1..N -> S]
  BY <1>2, Zenon DEF SetToSeq
<1> HIDE DEF N
<1>4. SetToSeq(S) \in Seq(S)
  BY <1>1, <1>3
<1> QED
  BY <1>3, <1>4, SeqIsList

LEMMA PartFacts ==
  ASSUME NEW S, NEW s \in Seq(S), NEW m \in Nat, m >= 1, NEW n \in Int, n <= Len(s)
  PROVE  SubSeq(s, m, n) \in Seq(S)
<1>1. CASE m <= n
  <2>1. m \in 1..Len(s) + 1 /\ n \in m - 1..Len(s)
    BY <1>1
  <2> QED
    BY <2>1
<1>2. CASE m > n
  <2>1. SubSeq(s, m, n) = << >>
    BY <1>2
  <2> QED
    BY <2>1
<1> QED
  BY <1>1, <1>2

\* The parts of a list are lists of its elements, at least one of them unless it is empty.
LEMMA ChunkFacts ==
  ASSUME NEW S, NEW s \in Seq(S), NEW size \in Nat \ {0}
  PROVE  /\ Chunks(s, size) \in Seq(Seq(S)) /\ Len(Chunks(s, size)) \in Nat
         /\ s # <<>> => Len(Chunks(s, size)) >= 1
<1> DEFINE n == Len(s)
           N == (n + size - 1) \div size
           part(k) == SubSeq(s, (k - 1) * size + 1, IF k * size < n THEN k * size ELSE n)
<1>1. n \in Nat /\ N \in Nat /\ (n >= 1 => N >= 1)
  <2>1. n \in Nat /\ n + size - 1 \in Nat /\ size \in Nat /\ size >= 1
    OBVIOUS
  <2>2. N \in Nat
    BY <2>1
  <2>3. ASSUME n >= 1 PROVE N >= 1
    BY <2>1, <2>3
  <2> QED
    BY <2>1, <2>2, <2>3
<1> HIDE DEF N
<1>2. ASSUME NEW k \in 1..N PROVE part(k) \in Seq(S)
  <2> DEFINE a == (k - 1) * size + 1
             b == IF k * size < n THEN k * size ELSE n
  <2>1. k \in Nat /\ k >= 1 /\ k - 1 \in Nat /\ size \in Nat
    BY <1>1
  <2>2. (k - 1) * size \in Nat /\ k * size \in Nat
    BY <2>1
  <2>3. a \in Nat /\ a >= 1 /\ b \in Int /\ b <= n
    BY <1>1, <2>2
  <2> HIDE DEF a, b
  <2>4. SubSeq(s, a, b) \in Seq(S)
    BY <2>3, PartFacts
  <2> QED
    BY <2>4 DEF a, b
<1>3. Chunks(s, size) = [k \in 1..N |-> part(k)]
  BY DEF Chunks, N
<1> HIDE DEF part, n
<1>4. Chunks(s, size) \in Seq(Seq(S)) /\ Len(Chunks(s, size)) = N
  BY <1>1, <1>2, <1>3
<1>5. s # <<>> => n >= 1
  BY DEF n
<1> QED
  BY <1>1, <1>4, <1>5

\* A job has a query, and each is a list of claims.
LEMMA QueryFacts ==
  ASSUME NEW job \in Jobs
  PROVE  /\ Queries(job) \in Seq(Seq(Tx)) /\ Len(Queries(job)) \in Nat /\ Len(Queries(job)) >= 1
         /\ UrlQueries(job) \in Nat /\ UrlQueries(job) >= 1
         /\ job.kind = "local" => Len(Queries(job)) \in {UrlQueries(job), UrlQueries(job) + 1}
<1>1. /\ job.ask \in Seq(Tx) /\ job.ask # <<>> /\ job.supports \in Seq(Tx)
      /\ ResolveBatchSize \in Nat \ {0}
  BY ResolveAssumption DEF Jobs
<1> DEFINE chunks == Chunks(job.ask, ResolveBatchSize)
           urls == IF job.kind \in {"resolve", "local"} THEN chunks ELSE <<job.ask>>
           more == IF job.kind = "local" /\ job.supports # <<>> THEN <<job.supports>> ELSE <<>>
<1>2. chunks \in Seq(Seq(Tx)) /\ Len(chunks) \in Nat /\ Len(chunks) >= 1
  BY <1>1, ChunkFacts
<1> HIDE DEF chunks
<1>3. urls \in Seq(Seq(Tx)) /\ Len(urls) \in Nat /\ Len(urls) >= 1 /\ (job.kind = "local" => urls = chunks)
  BY <1>1, <1>2
<1>4. more \in Seq(Seq(Tx)) /\ Len(more) \in {0, 1}
  BY <1>1
<1>5. Queries(job) = urls \o more
  BY DEF Queries, chunks
<1>6. UrlQueries(job) = Len(chunks)
  BY DEF UrlQueries, chunks
<1> HIDE DEF urls, more
<1>7. Queries(job) \in Seq(Seq(Tx)) /\ Len(Queries(job)) = Len(urls) + Len(more)
  BY <1>3, <1>4, <1>5
<1>8. Len(Queries(job)) \in Nat /\ Len(Queries(job)) >= 1
  BY <1>3, <1>4, <1>7
<1>9. ASSUME job.kind = "local" PROVE Len(Queries(job)) \in {UrlQueries(job), UrlQueries(job) + 1}
  <2>1. Len(Queries(job)) = UrlQueries(job) + Len(more)
    BY <1>3, <1>6, <1>7, <1>9
  <2>2. UrlQueries(job) \in Nat
    BY <1>2, <1>6
  <2>3. UrlQueries(job) + 0 = UrlQueries(job)
    BY <2>2
  <2> QED
    BY <1>4, <2>1, <2>3
<1> QED
  BY <1>2, <1>6, <1>7, <1>8, <1>9

LEMMA ImageFinite ==
  ASSUME NEW n \in Nat, NEW f
  PROVE  IsFiniteSet({f[i] : i \in 1..n})
<1> DEFINE T == {f[i] : i \in 1..n}
           g == [i \in 1..n |-> f[i]]
<1>1. IsFiniteSet(1..n)
  BY FS_Interval
<1>2. g \in Surjection(1..n, T)
  BY DEF Surjection
<1> HIDE DEF g, T
<1>3. IsFiniteSet(T)
  BY <1>1, <1>2, FS_Surjection
<1> QED
  BY <1>3 DEF T

LEMMA ClaimFacts ==
  ASSUME hub \in DOMAIN Chains, NEW t, NEW chan
  PROVE  MessageGood(Claim(t, chan))
<1>1. HeightIn(hub, t) \in Int
  <2>1. Chains[hub] \in Seq(Seq(Tx))
    BY ClaimsAssumption
  <2>2. DOMAIN Chains[hub] \subseteq Nat
    BY <2>1
  <2> DEFINE Q(h) == t \in Range(Chains[hub][h])
             D == DOMAIN Chains[hub]
  <2>3. HeightIn(hub, t) = IF \E h \in D : Q(h) THEN (CHOOSE h \in D : Q(h)) - 1 ELSE 0
    BY DEF HeightIn
  <2> HIDE DEF Q, D
  <2>4. ASSUME \E h \in D : Q(h) PROVE (CHOOSE h \in D : Q(h)) \in D
    BY <2>4
  <2> QED
    BY <2>2, <2>3, <2>4 DEF D
<1> HIDE DEF HeightIn
<1> QED
  BY <1>1 DEF Claim, MessageGood

LEMMA ExtraFacts ==
  ASSUME hub \in DOMAIN Chains, NEW txos, MessagesGood(txos)
  PROVE  AnswerGood(WithExtra(txos)) /\ IsFiniteSet(ChannelsNamed(txos))
<1> DEFINE n == Len(txos)
           chan == [i \in 1..n |-> txos[i].chan]
           C == ChannelsNamed(txos)
           M == {Claim(c, NoTx) : c \in C}
<1>1. n \in Nat /\ DOMAIN txos = 1..n
  BY ListFacts DEF MessagesGood
<1>2. IsFiniteSet(C)
  <2>1. C = {chan[i] : i \in 1..n} \ {NoTx}
    BY <1>1 DEF ChannelsNamed
  <2> HIDE DEF chan
  <2>2. IsFiniteSet({chan[i] : i \in 1..n})
    BY <1>1, ImageFinite
  <2> QED
    BY <2>1, <2>2, FS_Subset
<1>3. IsFiniteSet(M)
  <2> HIDE DEF C
  <2> DEFINE g == [c \in C |-> Claim(c, NoTx)]
  <2>1. g \in Surjection(C, M)
    <3> HIDE DEF Claim
    <3> QED
      BY DEF Surjection
  <2> HIDE DEF g, M
  <2> QED
    BY <1>2, <2>1, FS_Surjection
<1>4. \A m \in M : MessageGood(m)
  BY ClaimFacts
<1> HIDE DEF M
<1>5. MessagesGood(SetToSeq(M))
  BY <1>3, <1>4, ListedFacts DEF MessagesGood
<1>6. WithExtra(txos) = [txos |-> txos, blocked |-> <<>>, extra |-> SetToSeq(M)]
  BY DEF WithExtra, M
<1>7. IsList(<<>>)
  BY DEF IsList
<1> QED
  BY <1>2, <1>5, <1>6, <1>7 DEF AnswerGood

LEMMA AnswerFacts ==
  ASSUME hub \in DOMAIN Chains, NEW txs \in Seq(Tx),
         NEW answer \in {PlainAnswer(txs)} \cup OddAnswers(txs)
  PROVE  AnswerGood(answer)
<1> DEFINE n == Len(txs)
           ms == [i \in DOMAIN txs |-> Claim(txs[i], ChannelOf[txs[i]])]
           plain == WithExtra(ms)
           rest == SubSeq(ms, 2, Len(ms))
           with(i, m) == WithExtra([ms EXCEPT ![i] = m])
           short == WithExtra(rest)
           blocked == SetToSeq({Reference(c) : c \in ChannelsNamed(ms)})
<1>1. n \in Nat /\ DOMAIN txs = 1..n
  OBVIOUS
<1>2. IsList(ms) /\ Len(ms) = n /\ DOMAIN ms = 1..n
  <2> HIDE DEF n, Claim
  <2>1. ms = [i \in 1..n |-> ms[i]]
    BY <1>1
  <2> HIDE DEF ms
  <2> QED
    BY <1>1, <2>1, TableIsList
<1>3. MessagesGood(ms)
  <2>1. \A i \in DOMAIN ms : ms[i] = Claim(txs[i], ChannelOf[txs[i]])
    <3> HIDE DEF Claim
    <3> QED
      OBVIOUS
  <2> HIDE DEF ms
  <2> QED
    BY <1>2, <2>1, ClaimFacts DEF MessagesGood
<1>4. PlainAnswer(txs) = plain /\ AnswerGood(plain) /\ plain.txos = ms /\ AnswerGood(WithExtra(ms))
  BY <1>3, ExtraFacts DEF PlainAnswer, WithExtra
<1>5. \A i \in DOMAIN txs : \A m : MessageGood(m) => AnswerGood(with(i, m))
  <2> SUFFICES ASSUME NEW i \in DOMAIN txs, NEW m, MessageGood(m) PROVE AnswerGood(with(i, m))
    OBVIOUS
  <2> HIDE DEF ms, n
  <2> DEFINE xs == [ms EXCEPT ![i] = m]
  <2>1. xs = [j \in 1..n |-> xs[j]] /\ \A j \in 1..n : xs[j] = IF j = i THEN m ELSE ms[j]
    <3>1. ms = [j \in 1..n |-> ms[j]]
      BY <1>2 DEF IsList
    <3> QED
      BY <1>2, <3>1
  <2> HIDE DEF xs
  <2>2. IsList(xs) /\ DOMAIN xs = 1..n
    BY <1>1, <2>1, TableIsList
  <2>3. MessagesGood(xs)
    BY <1>2, <1>3, <2>1, <2>2 DEF MessagesGood
  <2> QED
    BY <2>3, ExtraFacts DEF xs
<1>6. \A xs : MessagesGood(xs) => AnswerGood(WithExtra(xs))
  BY ExtraFacts
<1>7. MessagesGood(rest)
  <2> HIDE DEF ms, n
  <2>1. ms \in Seq({m \in Range(ms) : MessageGood(m)})
    <3>1. \A i \in 1..n : ms[i] \in {m \in Range(ms) : MessageGood(m)}
      BY <1>2, <1>3, ListFacts DEF MessagesGood
    <3>2. ms \in Seq(Range(ms))
      BY <1>2 DEF IsList
    <3> QED
      BY <1>1, <1>2, <3>1, <3>2
  <2>2. rest \in Seq({m \in Range(ms) : MessageGood(m)})
    BY <1>1, <1>2, <2>1, PartFacts
  <2> HIDE DEF rest
  <2>3. IsList(rest) /\ Range(rest) \subseteq {m \in Range(ms) : MessageGood(m)}
    BY <2>2, SeqIsList
  <2> QED
    BY <2>3, ListFacts DEF MessagesGood
<1>8. MessagesGood(Reverse(ms))
  <2> HIDE DEF ms, n
  <2> DEFINE xs == Reverse(ms)
  <2>1. xs = [i \in 1..n |-> ms[(n - i) + 1]]
    BY <1>2 DEF Reverse
  <2>2. xs = [i \in 1..n |-> xs[i]] /\ \A i \in 1..n : xs[i] = ms[(n - i) + 1] /\ (n - i) + 1 \in 1..n
    BY <1>1, <2>1
  <2> HIDE DEF xs
  <2>3. IsList(xs) /\ DOMAIN xs = 1..n
    BY <1>1, <2>2, TableIsList
  <2>4. MessagesGood(xs)
    BY <1>2, <1>3, <2>2, <2>3 DEF MessagesGood
  <2> QED
    BY <2>4 DEF xs
<1>9. IsList(blocked)
  <2> DEFINE C == ChannelsNamed(ms)
             M == {Reference(c) : c \in C}
             g == [c \in C |-> Reference(c)]
  <2>1. IsFiniteSet(C)
    BY <1>3, ExtraFacts
  <2> HIDE DEF C
  <2>2. g \in Surjection(C, M)
    <3> HIDE DEF Reference
    <3> QED
      BY DEF Surjection
  <2> HIDE DEF g, M
  <2>3. IsFiniteSet(M)
    BY <2>1, <2>2, FS_Surjection
  <2>4. IsList(SetToSeq(M))
    BY <2>3, ListedFacts
  <2> QED
    BY <2>4 DEF M, C
<1>10. \A i \in DOMAIN txs : /\ MessageGood(ErrorFor(txs[i], "NOT_FOUND")) /\ MessageGood(ErrorFor(txs[i], "BLOCKED"))
                             /\ MessageGood(Claim(txs[i], NoTx)) /\ MessageGood([ms[i] EXCEPT !.nout = 1])
  <2> SUFFICES ASSUME NEW i \in DOMAIN txs
               PROVE  /\ MessageGood(ErrorFor(txs[i], "NOT_FOUND")) /\ MessageGood(ErrorFor(txs[i], "BLOCKED"))
                      /\ MessageGood(Claim(txs[i], NoTx)) /\ MessageGood([ms[i] EXCEPT !.nout = 1])
    OBVIOUS
  <2> DEFINE m == Claim(txs[i], ChannelOf[txs[i]])
  <2>1. MessageGood(m) /\ MessageGood(Claim(txs[i], NoTx)) /\ ms[i] = m
    BY ClaimFacts
  <2>2. DOMAIN m = {"tx", "nout", "height", "err", "claim", "chan"}
    BY DEF Claim
  <2> HIDE DEF m, ms
  <2>3. MessageGood([m EXCEPT !.err = "NOT_FOUND", !.claim = FALSE]) /\ MessageGood([m EXCEPT !.err = "BLOCKED", !.claim = FALSE])
    BY <2>1, <2>2 DEF MessageGood
  <2>4. MessageGood([m EXCEPT !.nout = 1])
    BY <2>1, <2>2 DEF MessageGood
  <2> QED
    BY <2>1, <2>3, <2>4 DEF ErrorFor, m
<1> DEFINE withheld == [short EXCEPT !.extra = plain.extra, !.blocked = blocked]
<1>11. AnswerGood([plain EXCEPT !.extra = <<>>]) /\ AnswerGood(withheld)
  <2>1. AnswerGood(plain) /\ AnswerGood(short)
    BY <1>4, <1>6, <1>7
  <2>2. DOMAIN plain = {"txos", "blocked", "extra"} /\ DOMAIN short = {"txos", "blocked", "extra"}
    BY DEF WithExtra
  <2> HIDE DEF plain, short, blocked
  <2>3. MessagesGood(<<>>)
    BY DEF MessagesGood, IsList
  <2> QED
    BY <1>9, <2>1, <2>2, <2>3 DEF AnswerGood
<1>12. OddAnswers(txs) =
          (UNION {{with(i, ErrorFor(txs[i], "NOT_FOUND")), with(i, ErrorFor(txs[i], "BLOCKED")),
                   with(i, Claim(txs[i], NoTx)), with(i, [ms[i] EXCEPT !.nout = 1])} : i \in DOMAIN txs})
          \cup {[plain EXCEPT !.extra = <<>>], WithExtra(Reverse(ms)), short, withheld}
  <2>1. PlainAnswer(txs) = plain /\ PlainAnswer(txs).txos = ms
    BY <1>4
  <2> HIDE DEF ms
  <2> QED
    BY <2>1, ZenonT(40) DEF OddAnswers
<1> HIDE DEF plain, short, withheld, blocked, ms, rest, with
<1>13. answer = plain \/ answer = [plain EXCEPT !.extra = <<>>] \/ answer = WithExtra(Reverse(ms))
       \/ answer = short \/ answer = withheld
       \/ \E i \in DOMAIN txs : answer \in {with(i, ErrorFor(txs[i], "NOT_FOUND")), with(i, ErrorFor(txs[i], "BLOCKED")),
                  with(i, Claim(txs[i], NoTx)), with(i, [ms[i] EXCEPT !.nout = 1])}
  BY <1>4, <1>12, Zenon
<1>14. AnswerGood(short) /\ AnswerGood(WithExtra(Reverse(ms)))
  BY <1>6, <1>7, <1>8 DEF short
<1>15. ASSUME NEW i \in DOMAIN txs, answer \in {with(i, ErrorFor(txs[i], "NOT_FOUND")), with(i, ErrorFor(txs[i], "BLOCKED")),
                  with(i, Claim(txs[i], NoTx)), with(i, [ms[i] EXCEPT !.nout = 1])}
       PROVE  AnswerGood(answer)
  BY <1>5, <1>10, <1>15, Zenon
<1> QED
  BY <1>4, <1>11, <1>13, <1>14, <1>15

\* What a list of requests asks for is finite.
LEMMA TxidFacts ==
  ASSUME NEW s, IsList(s)
  PROVE  IsFiniteSet(TxidsOf(s))
<1> DEFINE n == Len(s)
           f == [i \in 1..n |-> s[i].txid]
<1>1. n \in Nat /\ DOMAIN s = 1..n
  BY ListFacts
<1>2. TxidsOf(s) = {f[i] : i \in 1..n}
  BY <1>1 DEF TxidsOf
<1> HIDE DEF f
<1> QED
  BY <1>1, <1>2, ImageFinite

LEMMA RequestFacts ==
  ASSUME NEW answer, AnswerGood(answer)
  PROVE  LET ordered == ByHeight(TransactionRequests(answer))
         IN  /\ IsList(ordered) /\ IsFiniteSet(TxidsOf(ordered))
             /\ \A r \in Range(ordered) : r.height \in Int
<1> DEFINE ms == answer.txos \o answer.extra
           request(i) == [txid |-> ms[i].tx, height |-> ms[i].height]
           named == {i \in DOMAIN ms : ms[i].err = "none"}
           first == {i \in named : \A j \in named : j < i => request(j) # request(i)}
           places == Arranged(first, Increasing(first))
           n == Len(ms)
           rs == TransactionRequests(answer)
<1>1. n \in Nat /\ DOMAIN ms = 1..n /\ \A i \in 1..n : ms[i].height \in Int
  <2> DEFINE a == answer.txos
             b == answer.extra
             S == {m \in Range(a) \cup Range(b) : m.height \in Int}
  <2>1. /\ a \in Seq(Range(a)) /\ \A i \in DOMAIN a : a[i] \in Range(a) /\ a[i].height \in Int
        /\ b \in Seq(Range(b)) /\ \A i \in DOMAIN b : b[i] \in Range(b) /\ b[i].height \in Int
    BY ListFacts DEF AnswerGood, MessagesGood, MessageGood
  <2> HIDE DEF a, b
  <2>2. a \in Seq(S) /\ b \in Seq(S)
    BY <2>1
  <2> HIDE DEF S
  <2>3. ms \in Seq(S)
    BY <2>2 DEF a, b
  <2> HIDE DEF ms
  <2>4. \A m \in S : m.height \in Int
    BY DEF S
  <2> QED
    BY <2>3, <2>4
<1>2. first \in SUBSET (1..n)
  BY <1>1
<1> HIDE DEF ms
<1>3. places \in [1..Cardinality(first) -> first] /\ Cardinality(first) \in Nat
  <2> HIDE DEF first, n
  <2> QED
    BY <1>1, <1>2, IncreasingFacts
<1>4. rs = [k \in DOMAIN places |-> request(places[k])]
  BY DEF TransactionRequests, ms
<1> HIDE DEF first, places, n, request
<1> DEFINE N == Cardinality(first)
<1>5. rs = [k \in 1..N |-> rs[k]] /\ \A k \in 1..N : rs[k] = request(places[k])
  BY <1>3, <1>4
<1> HIDE DEF rs
<1>6. IsList(rs) /\ Len(rs) = N /\ DOMAIN rs = 1..N
  BY <1>3, <1>5, TableIsList
<1>7. \A k \in DOMAIN rs : rs[k].height \in Int
  <2>1. \A k \in 1..N : places[k] \in 1..n
    BY <1>2, <1>3
  <2>2. \A i \in 1..n : request(i).height \in Int
    BY <1>1 DEF request
  <2> QED
    BY <1>5, <1>6, <2>1, <2>2
<1> DEFINE ordered == ByHeight(rs)
<1>8. /\ IsList(ordered) /\ \A k \in DOMAIN ordered : \E i \in DOMAIN rs : ordered[k] = rs[i]
  BY <1>6, <1>7, ByHeightFacts
<1> HIDE DEF ordered
<1>9. \A r \in Range(ordered) : r.height \in Int
  BY <1>7, <1>8 DEF Range
<1>10. IsFiniteSet(TxidsOf(ordered))
  BY <1>8, TxidFacts
<1> QED
  BY <1>8, <1>9, <1>10 DEF ordered, rs

\* The batches hold the requests that were missed.
LEMMA BatchFacts ==
  ASSUME NEW Q, \A r \in Q : r.height \in Int, NEW misses \in Seq(Q)
  PROVE  /\ PlanTransactionFetchBatches(misses) \in Seq(Seq(Q))
         /\ misses # <<>> => PlanTransactionFetchBatches(misses) # <<>>
<1> DEFINE ordered == ByHeight(misses)
<1>1. IsList(misses) /\ \A i \in DOMAIN misses : misses[i] \in Q /\ misses[i].height \in Int
  BY SeqIsList
<1>2. /\ IsList(ordered) /\ Len(ordered) = Len(misses)
      /\ \A k \in DOMAIN ordered : \E i \in DOMAIN misses : ordered[k] = misses[i]
  BY <1>1, ByHeightFacts
<1> HIDE DEF ordered
<1>3. ordered \in Seq(Q)
  <2>1. \A k \in DOMAIN ordered : ordered[k] \in Q
    BY <1>1, <1>2
  <2>2. ordered \in Seq(Range(ordered))
    BY <1>2 DEF IsList
  <2> QED
    BY <2>1, <2>2
<1>4. FetchBatchSize \in Nat \ {0}
  BY ResolveAssumption
<1>5. Chunks(ordered, FetchBatchSize) \in Seq(Seq(Q)) /\ (ordered # <<>> => Len(Chunks(ordered, FetchBatchSize)) >= 1)
  BY <1>3, <1>4, ChunkFacts
<1>6. misses # <<>> => ordered # <<>>
  BY <1>2, <1>3
<1>7. PlanTransactionFetchBatches(misses) = Chunks(ordered, FetchBatchSize)
  BY DEF PlanTransactionFetchBatches, ordered
<1> HIDE DEF Chunks
<1> QED
  BY <1>5, <1>6, <1>7

\* Objects are stored from what was fetched.
LEMMA OrderFacts ==
  ASSUME NEW R, NEW fetched \in Seq(R)
  PROVE  /\ BatchOrder(fetched) \in Seq(R)
         /\ \A k \in DOMAIN BatchOrder(fetched) : \E i \in DOMAIN fetched : BatchOrder(fetched)[k] = fetched[i]
<1> DEFINE n == Len(fetched)
           same(i) == {j \in DOMAIN fetched : Obj(fetched[j]).txid = Obj(fetched[i]).txid}
           first == {i \in DOMAIN fetched : \A j \in same(i) : i <= j}
           places == Arranged(first, Increasing(first))
           last(i) == CHOOSE j \in same(i) : \A k \in same(i) : k <= j
           order == BatchOrder(fetched)
           N == Cardinality(first)
<1>1. n \in Nat /\ DOMAIN fetched = 1..n /\ first \in SUBSET (1..n) /\ \A i \in 1..n : fetched[i] \in R
  OBVIOUS
<1>2. \A i \in 1..n : same(i) \in SUBSET (1..n) /\ i \in same(i)
  BY <1>1
<1>3. order = [k \in DOMAIN places |-> fetched[last(places[k])]]
  BY DEF BatchOrder
<1> HIDE DEF same, n
<1>4. \A i \in 1..n : last(i) \in 1..n
  <2> SUFFICES ASSUME NEW i \in 1..n PROVE last(i) \in 1..n
    OBVIOUS
  <2>1. \E j \in same(i) : \A k \in same(i) : k <= j
    BY <1>1, <1>2, Highest
  <2>2. last(i) \in same(i)
    BY <2>1
  <2> QED
    BY <1>2, <2>2
<1> HIDE DEF last, first
<1>5. places \in [1..N -> first] /\ N \in Nat
  BY <1>1, IncreasingFacts
<1> HIDE DEF places, N
<1>6. \A k \in 1..N : last(places[k]) \in 1..n
  BY <1>1, <1>4, <1>5
<1>7. order = [k \in 1..N |-> fetched[last(places[k])]]
  BY <1>3, <1>5
<1> HIDE DEF order
<1>8. order \in Seq(R) /\ DOMAIN order = 1..N
  BY <1>1, <1>5, <1>6, <1>7
<1> QED
  BY <1>1, <1>6, <1>7, <1>8 DEF order

LEMMA TransactionForFacts ==
  ASSUME NEW R, NEW txs \in Seq(R \cup {NoObj}), NEW t
  PROVE  TransactionFor(txs, t) \in R \cup {NoObj}
<1> DEFINE n == Len(txs)
           at == {i \in DOMAIN txs : Obj(txs[i]).txid = t}
           best == CHOOSE i \in at : \A j \in at : j <= i
<1>1. n \in Nat /\ DOMAIN txs = 1..n /\ at \in SUBSET (1..n) /\ \A i \in 1..n : txs[i] \in R \cup {NoObj}
  OBVIOUS
<1>2. TransactionFor(txs, t) = IF at = {} THEN NoObj ELSE txs[best]
  BY DEF TransactionFor
<1> HIDE DEF at, n
<1>3. CASE at # {}
  <2>1. \E i \in at : \A j \in at : j <= i
    BY <1>1, <1>3, Highest
  <2>2. best \in at
    BY <2>1
  <2> HIDE DEF best
  <2> QED
    BY <1>1, <1>2, <1>3, <2>2
<1> QED
  BY <1>2, <1>3

\* After an inflation that does not fail, every output it returns has the caller's metadata,
\* and so has the channel it describes.
InflatedGood(x, p, mem) ==
    /\ DOMAIN x = ItemFields
    /\ x.kind = "output" =>
          /\ x.meta[1] = p
          /\ x.described => x.chan \in Refs /\ mem[x.chan[1]][x.chan[2]].meta[1] = p

\* What an inflation leaves in memory.
MemGood(mem, p) ==
    /\ DOMAIN mem = Calls
    /\ \A q \in Calls :
          /\ IsList(mem[q]) /\ DOMAIN mem[q] = DOMAIN objs[q]
          /\ \A k \in DOMAIN objs[q] : /\ DOMAIN mem[q][k] = ObjFields
                                       /\ mem[q][k].txid = objs[q][k].txid
                                       /\ mem[q][k].meta \in {objs[q][k].meta, TagOf(p)}

Copies(p, done) == [i \in DOMAIN done.items |-> CloneForAnnotations(p, done.mem, done.items[i])]

LEMMA InflateFacts ==
  ASSUME ObjsInv, NEW p \in Calls, CallGood(call[p], p, Refs)
  PROVE  /\ MemGood(Inflate(p).mem, p)
         /\ Inflate(p).err = "none" =>
               /\ IsList(Copies(p, Inflate(p)))
               /\ \A i \in DOMAIN Copies(p, Inflate(p)) : InflatedGood(Copies(p, Inflate(p))[i], p, Inflate(p).mem)
<1> DEFINE answer == call[p].answer
           messages == answer.extra \o answer.txos \o answer.blocked
           txs == call[p].txs
           failing == {i \in DOMAIN messages : Trouble(p, messages[i]) # "none"}
           reached == {i \in DOMAIN messages : \A j \in failing : i <= j}
           told(o) == {i \in reached : Describes(p, messages[i], o)}
           linked(o) == {i \in told(o) \ failing : messages[i].chan # NoTx}
           last(o) == CHOOSE i \in linked(o) : \A j \in linked(o) : j <= i
           meta(o) == IF told(o) = {} THEN Obj(o).meta ELSE TagOf(p)
           chan(o) == IF linked(o) = {} THEN Obj(o).chan
                      ELSE TransactionFor(txs, messages[last(o)].chan)
           inflated(o) == [Obj(o) EXCEPT !.meta = meta(o), !.chan = chan(o)]
           mem == [q \in Calls |-> [k \in DOMAIN objs[q] |-> inflated(<<q, k>>)]]
           items == [i \in DOMAIN answer.txos |-> InflatedItem(p, answer.txos[i])]
           err == IF failing = {} THEN "none" ELSE Trouble(p, messages[CHOOSE i \in failing : i \in reached])
           copies == [i \in DOMAIN items |-> CloneForAnnotations(p, mem, items[i])]
<1>1. Inflate(p) = [mem |-> mem, items |-> items, err |-> err]
  BY DEF Inflate
<1>2. /\ Inflate(p).mem = mem /\ Inflate(p).err = err
      /\ Copies(p, Inflate(p)) = copies
  <2> HIDE DEF mem, items, err
  <2>1. Inflate(p).mem = mem /\ Inflate(p).err = err /\ Inflate(p).items = items
    BY <1>1
  <2> QED
    BY <2>1 DEF Copies
<1>3. /\ AnswerGood(answer) /\ txs \in Seq(Refs \cup {NoObj})
      /\ DOMAIN objs = Calls
      /\ \A q \in Calls : /\ IsList(objs[q])
                          /\ \A k \in DOMAIN objs[q] : DOMAIN objs[q][k] = ObjFields
  BY DEF ObjsInv, CallGood
<1>4. /\ answer.txos \in Seq(Range(answer.txos)) /\ answer.extra \in Seq(Range(answer.extra))
      /\ answer.blocked \in Seq(Range(answer.blocked))
      /\ \A i \in DOMAIN answer.txos : MessageGood(answer.txos[i])
      /\ \A i \in DOMAIN answer.extra : MessageGood(answer.extra[i])
  BY <1>3 DEF AnswerGood, MessagesGood, IsList
<1>5. /\ \E n \in Nat : DOMAIN messages = 1..n
      /\ \A i \in DOMAIN answer.txos : \E j \in DOMAIN messages : messages[j] = answer.txos[i]
      /\ \A i \in DOMAIN answer.extra : \E j \in DOMAIN messages : messages[j] = answer.extra[i]
  <2> DEFINE a == answer.extra
             b == answer.txos
             c == answer.blocked
             A == Range(a) \cup Range(b) \cup Range(c)
  <2>1. a \in Seq(A) /\ b \in Seq(A) /\ c \in Seq(A)
    BY <1>4
  <2> HIDE DEF a, b, c, A
  <2> DEFINE ab == a \o b
             abc == ab \o c
  <2>2. ab \in Seq(A) /\ Len(ab) = Len(a) + Len(b) /\ (\A i \in 1..Len(a) : ab[i] = a[i])
        /\ \A i \in 1..Len(b) : ab[Len(a) + i] = b[i]
    BY <2>1
  <2>3. Len(a) \in Nat /\ Len(b) \in Nat /\ Len(c) \in Nat /\ DOMAIN a = 1..Len(a) /\ DOMAIN b = 1..Len(b)
    BY <2>1
  <2> HIDE DEF ab
  <2>9. ab \in Seq(A)
    BY <2>2
  <2>4. abc \in Seq(A) /\ Len(abc) = Len(ab) + Len(c) /\ \A i \in 1..Len(ab) : abc[i] = ab[i]
    BY <2>1, <2>9
  <2> HIDE DEF abc
  <2>5. Len(abc) \in Nat /\ DOMAIN abc = 1..Len(abc)
    BY <2>4
  <2>6. ASSUME NEW i \in 1..Len(a) PROVE i \in DOMAIN abc /\ abc[i] = a[i]
    <3>1. i \in 1..Len(ab) /\ i \in 1..Len(abc)
      BY <2>2, <2>3, <2>4
    <3> QED
      BY <2>2, <2>4, <2>5, <3>1
  <2>7. ASSUME NEW i \in 1..Len(b) PROVE Len(a) + i \in DOMAIN abc /\ abc[Len(a) + i] = b[i]
    <3>1. Len(a) + i \in 1..Len(ab) /\ Len(a) + i \in 1..Len(abc)
      BY <2>2, <2>3, <2>4
    <3> QED
      BY <2>2, <2>4, <2>5, <3>1
  <2>8. messages = abc
    BY DEF a, b, c, ab, abc
  <2> QED
    BY <2>3, <2>5, <2>6, <2>7, <2>8 DEF a, b
<1> HIDE DEF messages
<1>6. err = "none" => failing = {}
  <2> SUFFICES ASSUME failing # {} PROVE err # "none"
    OBVIOUS
  <2>1. failing \in SUBSET Nat
    BY <1>5
  <2>2. PICK i \in failing : \A j \in failing : i <= j
    <3> HIDE DEF failing
    <3> QED
      BY <2>1, Lowest
  <2>3. i \in reached
    BY <2>2
  <2> DEFINE x == CHOOSE j \in failing : j \in reached
  <2>4. x \in failing
    <3> HIDE DEF failing, reached
    <3> QED
      BY <2>2, <2>3
  <2> HIDE DEF x
  <2>5. Trouble(p, messages[x]) # "none"
    BY <2>4
  <2> HIDE DEF failing
  <2> QED
    BY <2>5 DEF x
<1>7. ASSUME NEW q \in Calls, NEW k \in DOMAIN objs[q]
      PROVE  /\ DOMAIN mem[q][k] = ObjFields /\ mem[q][k].txid = objs[q][k].txid
             /\ mem[q][k].meta = (IF told(<<q, k>>) = {} THEN objs[q][k].meta ELSE TagOf(p))
  <2> DEFINE o == <<q, k>>
             x == objs[q][k]
             a == meta(o)
             b == chan(o)
  <2>1. Obj(o) = x
    BY DEF Obj
  <2>2. mem[q][k] = [x EXCEPT !.meta = a, !.chan = b]
    <3> HIDE DEF meta, chan
    <3>1. mem[q] = [j \in DOMAIN objs[q] |-> inflated(<<q, j>>)]
      <4> HIDE DEF inflated
      <4> QED
        OBVIOUS
    <3>2. mem[q][k] = inflated(o)
      <4> HIDE DEF inflated, mem
      <4> QED
        BY <3>1
    <3> QED
      BY <2>1, <3>2
  <2>3. a = IF told(o) = {} THEN x.meta ELSE TagOf(p)
    BY <2>1
  <2>4. DOMAIN x = ObjFields
    BY <1>3
  <2> HIDE DEF a, b, x, mem, told
  <2>5. DOMAIN mem[q][k] = ObjFields /\ mem[q][k].txid = x.txid /\ mem[q][k].meta = a
    BY <2>2, <2>4 DEF ObjFields
  <2> QED
    BY <2>3, <2>5 DEF x
<1>8. ASSUME NEW q \in Calls PROVE IsList(mem[q]) /\ DOMAIN mem[q] = DOMAIN objs[q]
  <2> HIDE DEF inflated
  <2> DEFINE n == Len(objs[q])
             f == mem[q]
  <2>1. n \in Nat /\ DOMAIN objs[q] = 1..n
    BY <1>3, ListFacts
  <2>2. f = [k \in DOMAIN objs[q] |-> inflated(<<q, k>>)]
    OBVIOUS
  <2> HIDE DEF f, n
  <2>3. f = [k \in 1..n |-> f[k]]
    BY <2>1, <2>2
  <2>4. IsList(f)
    BY <2>1, <2>3, TableIsList
  <2> QED
    BY <2>2, <2>4 DEF f
<1>9. DOMAIN mem = Calls
  OBVIOUS
<1>10. ASSUME failing = {}, NEW j \in DOMAIN messages, MessageGood(messages[j]), messages[j].err = "none",
              NEW o \in Refs, o # NoObj, o = TransactionFor(txs, messages[j].tx)
       PROVE  o[1] \in Calls /\ o[2] \in DOMAIN objs[o[1]] /\ mem[o[1]][o[2]].meta[1] = p
  <2> DEFINE m == messages[j]
  <2>1. m.claim /\ m.nout \in {0, 1}
    BY <1>10 DEF MessageGood
  <2>2. Trouble(p, m) = "none"
    BY <1>10
  <2>3. ~(m.nout > 0)
    <3> SUFFICES ASSUME m.nout > 0 PROVE Trouble(p, m) = "IndexError"
      BY <2>2
    <3> HIDE DEF m
    <3>1. TransactionFor(call[p].txs, m.tx) = o
      BY <1>10 DEF m
    <3>2. m.err = "none"
      BY <1>10 DEF m
    <3> QED
      BY <1>10, <3>1, <3>2 DEF Trouble
  <2>4. m.nout = 0
    BY <2>1, <2>3
  <2>5. Describes(p, m, o)
    BY <1>10, <2>1, <2>4 DEF Describes
  <2>6. j \in told(o)
    BY <1>10, <2>5
  <2>7. o[1] \in Calls /\ o[2] \in DOMAIN objs[o[1]] /\ o = <<o[1], o[2]>>
    BY DEF Refs
  <2> HIDE DEF told, mem
  <2>8. mem[o[1]][o[2]].meta = TagOf(p)
    BY <1>7, <2>6, <2>7
  <2> QED
    BY <2>7, <2>8 DEF TagOf
<1>11. ASSUME failing = {}, NEW i \in DOMAIN answer.txos
       PROVE  InflatedGood(CloneForAnnotations(p, mem, InflatedItem(p, answer.txos[i])), p, mem)
  <2> HIDE DEF mem, failing
  <2> DEFINE m == answer.txos[i]
             o == TransactionFor(txs, m.tx)
             x == InflatedItem(p, m)
  <2>1. PICK j \in DOMAIN messages : messages[j] = m
    BY <1>5
  <2>2. MessageGood(m)
    BY <1>4
  <2>3. \A t : TransactionFor(txs, t) \in Refs \cup {NoObj}
    BY <1>3, TransactionForFacts
  <2> HIDE DEF o, txs
  <2>4. x = CASE m.err # "none" ->
                [Item("error", m.tx, NoObj) EXCEPT
                    !.chan = IF m.err = "BLOCKED" THEN TransactionFor(txs, m.chan) ELSE NoObj]
              [] m.err = "none" /\ o = NoObj -> Item("missing", m.tx, NoObj)
              [] OTHER -> Item("output", m.tx, o)
    <3>1. Item("error", m.tx, NoObj).chan = NoObj
      BY DEF Item
    <3> QED
      BY <3>1 DEF InflatedItem, o, txs
  <2>5. DOMAIN x = ItemFields /\ (x.kind = "output" => m.err = "none" /\ o # NoObj /\ x.obj = o)
    <3> HIDE DEF m, x
    <3>1. CASE m.err # "none"
      <4> DEFINE c == IF m.err = "BLOCKED" THEN TransactionFor(txs, m.chan) ELSE NoObj
      <4>1. x = [Item("error", m.tx, NoObj) EXCEPT !.chan = c]
        BY <2>4, <3>1
      <4> HIDE DEF c
      <4> QED
        BY <4>1 DEF Item, ItemFields
    <3>2. CASE m.err = "none" /\ o = NoObj
      <4>1. x = Item("missing", m.tx, NoObj)
        BY <2>4, <3>2
      <4> QED
        BY <4>1 DEF Item, ItemFields
    <3>3. CASE m.err = "none" /\ o # NoObj
      <4>1. x = Item("output", m.tx, o)
        BY <2>4, <3>3
      <4> QED
        BY <3>3, <4>1 DEF Item, ItemFields
    <3> QED
      BY <3>1, <3>2, <3>3
  <2> HIDE DEF x
  <2>6. CASE x.kind # "output"
    <3>1. CloneForAnnotations(p, mem, x) = x
      BY <2>6 DEF CloneForAnnotations
    <3>2. InflatedGood(x, p, mem)
      BY <2>5, <2>6 DEF InflatedGood
    <3> QED
      BY <3>1, <3>2 DEF x
  <2>7. CASE x.kind = "output"
    <3> DEFINE obj == mem[x.obj[1]][x.obj[2]]
               said == {n \in Range(answer.txos \o answer.extra) : n.claim}
               described == /\ obj.chan # NoObj
                            /\ \E n \in said : obj.chan = TransactionFor(txs, n.tx)
               y == CloneForAnnotations(p, mem, x)
    <3>1. y = [x EXCEPT !.meta = obj.meta, !.chan = obj.chan, !.described = described]
      BY <2>7 DEF CloneForAnnotations, txs
    <3>2. o \in Refs /\ o # NoObj /\ x.obj = o
      BY <2>3, <2>5, <2>7 DEF o
    <3>3. obj.meta[1] = p
      BY <1>10, <1>11, <2>1, <2>2, <2>5, <2>7, <3>2 DEF o, txs
    <3>4. ASSUME described PROVE obj.chan \in Refs /\ mem[obj.chan[1]][obj.chan[2]].meta[1] = p
      <4> HIDE DEF obj
      <4>1. PICK n \in said : obj.chan = TransactionFor(txs, n.tx)
        BY <3>4
      <4>2. n \in Range(answer.txos \o answer.extra) /\ n.claim
        OBVIOUS
      <4>3. (\E k \in DOMAIN answer.txos : answer.txos[k] = n) \/ (\E k \in DOMAIN answer.extra : answer.extra[k] = n)
        <5> DEFINE a == answer.txos
                   b == answer.extra
                   A == Range(a) \cup Range(b)
        <5>1. a \in Seq(A) /\ b \in Seq(A)
          BY <1>4
        <5> HIDE DEF a, b, A
        <5>2. PICK k \in DOMAIN (a \o b) : (a \o b)[k] = n
          BY <4>2 DEF Range, a, b
        <5>3. /\ Len(a) \in Nat /\ Len(b) \in Nat /\ DOMAIN a = 1..Len(a) /\ DOMAIN b = 1..Len(b)
              /\ DOMAIN (a \o b) = 1..Len(a) + Len(b)
          BY <5>1
        <5>4. CASE k \in 1..Len(a)
          <6>1. (a \o b)[k] = a[k]
            BY <5>1, <5>4
          <6> QED
            BY <5>2, <5>3, <5>4, <6>1 DEF a, b
        <5>5. CASE k \notin 1..Len(a)
          <6>1. k - Len(a) \in 1..Len(b)
            BY <5>2, <5>3, <5>5
          <6>2. (a \o b)[k] = b[k - Len(a)]
            BY <5>1, <5>2, <5>3, <5>5
          <6> QED
            BY <5>2, <5>3, <6>1, <6>2 DEF a, b
        <5> QED
          BY <5>4, <5>5
      <4>4. PICK k \in DOMAIN messages : messages[k] = n
        BY <1>5, <4>3
      <4>5. MessageGood(n) /\ n.err = "none"
        BY <1>4, <4>2, <4>3 DEF MessageGood
      <4>6. obj.chan \in Refs /\ obj.chan # NoObj
        BY <2>3, <3>4, <4>1
      <4> QED
        BY <1>10, <1>11, <4>1, <4>4, <4>5, <4>6 DEF txs
    <3> DEFINE om == obj.meta
               oc == obj.chan
    <3> HIDE DEF described, om, oc
    <3>5. y = [x EXCEPT !.meta = om, !.chan = oc, !.described = described]
      BY <3>1 DEF om, oc
    <3> HIDE DEF y
    <3>6. DOMAIN y = ItemFields /\ y.meta = om /\ y.chan = oc /\ y.described = described
      BY <2>5, <3>5 DEF ItemFields
    <3>7. InflatedGood(y, p, mem)
      BY <3>3, <3>4, <3>6 DEF InflatedGood, om, oc
    <3> QED
      BY <3>7 DEF y, x
  <2> QED
    BY <2>6, <2>7
<1> HIDE DEF mem, failing, err
<1>12. ASSUME failing = {} PROVE IsList(copies) /\ \A i \in DOMAIN copies : InflatedGood(copies[i], p, mem)
  <2> DEFINE n == Len(answer.txos)
  <2>1. n \in Nat /\ DOMAIN answer.txos = 1..n
    BY <1>4
  <2> HIDE DEF n, answer
  <2>2. \A i \in 1..n : copies[i] = CloneForAnnotations(p, mem, InflatedItem(p, answer.txos[i]))
    BY <2>1
  <2>3. DOMAIN copies = 1..n /\ copies = [i \in 1..n |-> copies[i]]
    BY <2>1
  <2> HIDE DEF copies
  <2>4. IsList(copies)
    BY <2>1, <2>3, TableIsList
  <2> QED
    BY <1>11, <1>12, <2>1, <2>2, <2>3, <2>4
<1>13. \A q \in Calls : \A k \in DOMAIN objs[q] : mem[q][k].meta \in {objs[q][k].meta, TagOf(p)}
  BY <1>7
<1> HIDE DEF copies
<1>14. MemGood(mem, p)
  <2>1. \A q \in Calls : \A k \in DOMAIN objs[q] : DOMAIN mem[q][k] = ObjFields /\ mem[q][k].txid = objs[q][k].txid
    BY <1>7
  <2> QED
    BY <1>8, <1>9, <1>13, <2>1 DEF MemGood
<1> QED
  BY <1>2, <1>6, <1>12, <1>14

\* What another call sees of a step that uses the transactions ids.
Bystander(q, ids) ==
    \/ call'[q] = call[q] /\ (ids = {} \/ call[q].pc \notin Fetching)
    \/ call[q].pc \in Fetching /\ call'[q] = [call[q] EXCEPT !.since = @ \cup ids]

LEMMA BystanderFacts ==
  ASSUME NEW q \in Calls, NEW ids, DOMAIN call[q] = CallFields, Bystander(q, ids)
  PROVE  /\ DOMAIN call'[q] = CallFields
         /\ \A f \in CallFields \ {"since"} : call'[q][f] = call[q][f]
         /\ (call'[q] = call[q] /\ (ids = {} \/ call[q].pc \notin Fetching)) \/ (call[q].pc \in Fetching /\ call'[q].since = call[q].since \cup ids)
<1>1. CASE call'[q] = call[q] /\ (ids = {} \/ call[q].pc \notin Fetching)
  BY <1>1
<1>2. CASE call[q].pc \in Fetching /\ call'[q] = [call[q] EXCEPT !.since = @ \cup ids]
  BY <1>2 DEF CallFields
<1> QED
  BY <1>1, <1>2 DEF Bystander

\* What a call holds does not depend on what it relies on.
LEMMA CallMoved ==
  ASSUME NEW c, NEW d, NEW p, NEW R, NEW T, R \subseteq T, CallGood(c, p, R),
         DOMAIN d = CallFields, \A f \in CallFields \ {"since", "cleared"} : d[f] = c[f]
  PROVE  CallGood(d, p, T)
<1>1. /\ d.job = c.job /\ d.query = c.query /\ d.txs = c.txs /\ d.fetched = c.fetched /\ d.answer = c.answer
      /\ d.page = c.page /\ d.pc = c.pc /\ d.attached = c.attached
  BY DEF CallFields
<1>2. c.txs \in Seq(T \cup {NoObj}) /\ c.fetched \in Seq(T)
  BY DEF CallGood
<1> QED
  BY <1>1, <1>2 DEF CallGood

\* A fetch goes on with its entries while others use the cache.
LEMMA FetchMoved ==
  ASSUME NEW q \in Calls, CallGood(call[q], q, Refs), FetchGood(call[q]),
         NEW ids, IsFiniteSet(ids), Bystander(q, ids),
         \A o \in Refs : Obj(o)'.txid = Obj(o).txid,
         \A V, U : /\ Keeps(cache, V, U) /\ ids \subseteq U /\ IsFiniteSet(U) /\ Cardinality(U) <= Capacity
                   => Keeps(cache', V, U),
         call[q].pc \in Fetching
  PROVE  FetchGood(call[q])'
<1> DEFINE c == call[q]
           d == call'[q]
<1>1. /\ DOMAIN d = CallFields /\ \A f \in CallFields \ {"since"} : d[f] = c[f]
      /\ (d = c /\ ids = {}) \/ d.since = c.since \cup ids
  BY BystanderFacts DEF CallGood
<1>2. /\ d.batches = c.batches /\ d.results = c.results /\ d.foreign = c.foreign /\ d.cleared = c.cleared
      /\ d.pc = c.pc /\ d.fetched = c.fetched
  BY <1>1 DEF CallFields
<1>3. d.since = c.since \cup ids
  BY <1>1
<1>4. c.fetched \in Seq(Refs)
  BY DEF CallGood
<1>5. \A i \in DOMAIN c.fetched : objs'[c.fetched[i][1]][c.fetched[i][2]].txid = Obj(c.fetched[i]).txid
  <2>1. \A i \in DOMAIN c.fetched : c.fetched[i] \in Refs
    BY <1>4
  <2>2. \A o \in Refs : objs'[o[1]][o[2]].txid = Obj(o).txid
    BY DEF Obj
  <2> QED
    BY <2>1, <2>2
<1>6. IsFiniteSet(d.since) /\ (Cardinality(d.since) <= Capacity => Cardinality(c.since) <= Capacity)
  <2>1. IsFiniteSet(c.since)
    BY DEF FetchGood
  <2>2. IsFiniteSet(d.since)
    BY <1>3, <2>1, FS_Union
  <2>3. Cardinality(c.since) <= Cardinality(d.since) /\ Cardinality(c.since) \in Nat /\ Cardinality(d.since) \in Nat
    BY <1>3, <2>1, <2>2, FS_Subset, FS_CardinalityType
  <2> QED
    BY <2>2, <2>3, ResolveAssumption
<1>7. Needed(d) = Needed(c)
  BY <1>2 DEF Needed
<1>8. ASSUME ~c.foreign, ~c.cleared, Cardinality(d.since) <= Capacity PROVE Keeps(cache', Needed(d), d.since)
  <2>1. Keeps(cache, Needed(c), c.since)
    BY <1>6, <1>8 DEF FetchGood
  <2>2. Keeps(cache, Needed(c), d.since)
    BY <1>3, <2>1 DEF Keeps
  <2>3. ids \subseteq d.since
    BY <1>3
  <2> QED
    BY <1>6, <1>7, <1>8, <2>2, <2>3
<1> QED
  BY <1>2, <1>3, <1>5, <1>6, <1>7, <1>8 DEF FetchGood, Obj

\* Whoever p disturbs, the others go on as they were.
LEMMA StepPreserves ==
  ASSUME ResolveInv, NEW p \in Calls, NEW ids, IsFiniteSet(ids), DOMAIN call' = Calls, hub' = hub,
         \A q \in Calls \ {p} : Bystander(q, ids),
         ObjsInv', \A o \in Refs : o \in Refs' /\ Obj(o)'.txid = Obj(o).txid,
         \A q \in Calls \ {p} : lock = q => \A o \in Refs : Obj(o)'.meta = Obj(o).meta,
         CacheGood(cache, Refs)',
         \A V, U : /\ Keeps(cache, V, U) /\ ids \subseteq U /\ IsFiniteSet(U) /\ Cardinality(U) <= Capacity
                   => Keeps(cache', V, U),
         lock' = lock \/ {lock, lock'} \subseteq {p, NoCall},
         CallGood(call[p], p, Refs)', HeldBy(call[p], p)', Explained(call[p])',
         call'[p].pc \in Fetching => FetchGood(call[p])',
         lock' = p => call'[p].pc \notin {"finish", "done"}
  PROVE  ResolveInv'
<1>1. /\ DOMAIN call = Calls /\ lock \in Calls \cup {NoCall} /\ LockReleased /\ hub \in DOMAIN Chains
      /\ \A q \in Calls : /\ CallGood(call[q], q, Refs) /\ HeldBy(call[q], q) /\ Explained(call[q])
                          /\ call[q].pc \in Fetching => FetchGood(call[q])
  BY DEF ResolveInv, Sound
<1>2. NoCall \notin Calls
  BY ResolveAssumption
<1>3. ASSUME NEW q \in Calls, q # p
      PROVE  /\ Sound(q)'
             /\ lock' = q => call'[q].pc \notin {"finish", "done"}
  <2> DEFINE c == call[q]
             d == call'[q]
  <2>1. DOMAIN c = CallFields /\ Bystander(q, ids)
    BY <1>1, <1>3 DEF CallGood
  <2>2. /\ DOMAIN d = CallFields /\ \A f \in CallFields \ {"since"} : d[f] = c[f]
        /\ d = c \/ c.pc \in Fetching
    BY <2>1, BystanderFacts
  <2>3. CallGood(d, q, Refs')
    <3>1. Refs \subseteq Refs'
      OBVIOUS
    <3>2. CallGood(c, q, Refs)
      BY <1>1
    <3>3. \A f \in CallFields \ {"since", "cleared"} : d[f] = c[f]
      BY <2>2
    <3> HIDE DEF c, d
    <3> QED
      BY <2>2, <3>1, <3>2, <3>3, CallMoved
  <2>4. d.items = c.items /\ d.pc = c.pc
    BY <2>2 DEF CallFields
  <2>5. HeldBy(call[q], q)'
    <3>1. lock' = q <=> lock = q
      BY <1>2, <1>3
    <3>2. IsList(c.items) /\ (\A i \in DOMAIN c.items : ItemGood(c.items[i], q)) /\ (c.items # <<>> \/ c.pc = "copy" => lock = q)
      BY <1>1 DEF HeldBy
    <3>3. ASSUME NEW i \in DOMAIN c.items PROVE ItemGood(c.items[i], q)'
      <4> DEFINE x == c.items[i]
      <4>1. lock = q
        <5>1. c.items # <<>>
          BY <3>3
        <5> QED
          BY <3>2, <5>1
      <4>2. \A o \in Refs : o \in Refs' /\ objs'[o[1]][o[2]].meta = Obj(o).meta
        BY <1>3, <4>1 DEF Obj
      <4>3. ItemGood(x, q)
        BY <3>2
      <4>4. d.items[i] = x
        BY <2>4
      <4> HIDE DEF x, d
      <4>5. /\ DOMAIN x = ItemFields
            /\ x.kind = "output" =>
                  x.meta[1] = q /\ (x.described => x.chan \in Refs' /\ objs'[x.chan[1]][x.chan[2]].meta[1] = q)
        BY <4>2, <4>3 DEF ItemGood
      <4> QED
        BY <4>4, <4>5 DEF ItemGood, Obj, d
    <3> QED
      BY <2>4, <3>1, <3>2, <3>3 DEF HeldBy
  <2>6. Explained(call[q])'
    <3>1. CASE d = c
      BY <1>1, <3>1 DEF Explained
    <3>2. CASE c.pc \in Fetching
      BY <2>4, <3>2 DEF Explained, Fetching
    <3> QED
      BY <2>2, <3>1, <3>2
  <2>7. d.pc \in Fetching => FetchGood(call[q])'
    <3> SUFFICES ASSUME c.pc \in Fetching PROVE FetchGood(call[q])'
      BY <2>4
    <3>1. FetchGood(c) /\ CallGood(c, q, Refs)
      BY <1>1
    <3>2. \A o \in Refs : Obj(o)'.txid = Obj(o).txid
      OBVIOUS
    <3> QED
      BY <2>1, <3>1, <3>2, FetchMoved
  <2>8. lock' = q => d.pc \notin {"finish", "done"}
    <3>1. lock' = q => lock = q
      BY <1>2, <1>3
    <3> QED
      BY <1>1, <1>2, <2>4, <3>1 DEF LockReleased
  <2> QED
    BY <2>3, <2>5, <2>6, <2>7, <2>8 DEF Sound
<1>4. Sound(p)'
  BY DEF Sound
<1>5. \A q \in Calls : Sound(q)'
  BY <1>3, <1>4
<1>6. (lock \in Calls \cup {NoCall})'
  BY <1>1
<1>7. LockReleased'
  BY <1>3, <1>6 DEF LockReleased
<1>8. (hub \in DOMAIN Chains)'
  BY <1>1
<1> QED
  BY <1>5, <1>6, <1>7, <1>8 DEF ResolveInv

LEMMA ObjsUnchanged ==
  ASSUME ObjsInv, objs' = objs
  PROVE  ObjsInv' /\ Refs' = Refs /\ \A o : Obj(o)' = Obj(o)
BY DEF ObjsInv, Refs, Obj

\* A call that has returned.
Ending(job, e, page, att) ==
    [Idle(job) EXCEPT !.pc = "done", !.err = e, !.page = page, !.attached = att]

LEMMA EndingFacts ==
  ASSUME NEW job, NEW e, NEW page, NEW att
  PROVE  LET x == Ending(job, e, page, att)
         IN  /\ DOMAIN x = CallFields /\ x.job = job /\ x.pc = "done" /\ x.query = 1
             /\ x.answer = [txos |-> <<>>, extra |-> <<>>, blocked |-> <<>>]
             /\ x.txs = <<>> /\ x.fetched = <<>> /\ x.items = <<>>
             /\ x.page = page /\ x.attached = att
BY DEF Ending, Idle, CallFields

LEMMA EndingFailed ==
  ASSUME NEW job, NEW e, NEW att
  PROVE  [Idle(job) EXCEPT !.pc = "done", !.err = e, !.attached = att] = Ending(job, e, <<>>, att)
<1> DEFINE y == Idle(job)
<1>1. /\ y = [f \in CallFields |-> y[f]] /\ DOMAIN y = CallFields
      /\ y.page = <<>> /\ y.attached = <<>> /\ y.err = "none"
  BY DEF Idle, CallFields
<1>2. Ending(job, e, <<>>, att) = [y EXCEPT !.pc = "done", !.err = e, !.page = <<>>, !.attached = att]
  BY DEF Ending
<1> HIDE DEF y
<1>3. [y EXCEPT !.pc = "done", !.err = e, !.attached = att] = Ending(job, e, <<>>, att)
  BY <1>1, <1>2 DEF CallFields
<1> QED
  BY <1>3 DEF y

LEMMA EndingRaised ==
  ASSUME NEW job, NEW e
  PROVE  [Idle(job) EXCEPT !.pc = "done", !.err = e] = Ending(job, e, <<>>, <<>>)
<1> DEFINE y == Idle(job)
<1>1. /\ y = [f \in CallFields |-> y[f]] /\ DOMAIN y = CallFields
      /\ y.page = <<>> /\ y.attached = <<>> /\ y.err = "none"
  BY DEF Idle, CallFields
<1>2. Ending(job, e, <<>>, <<>>) = [y EXCEPT !.pc = "done", !.err = e, !.page = <<>>, !.attached = <<>>]
  BY DEF Ending
<1> HIDE DEF y
<1>3. [y EXCEPT !.pc = "done", !.err = e] = Ending(job, e, <<>>, <<>>)
  BY <1>1, <1>2 DEF CallFields
<1> QED
  BY <1>3 DEF y

LEMMA EndingReturned ==
  ASSUME NEW job, NEW page, NEW att
  PROVE  [Idle(job) EXCEPT !.pc = "done", !.page = page, !.attached = att] = Ending(job, "none", page, att)
<1> DEFINE y == Idle(job)
<1>1. /\ y = [f \in CallFields |-> y[f]] /\ DOMAIN y = CallFields
      /\ y.page = <<>> /\ y.attached = <<>> /\ y.err = "none"
  BY DEF Idle, CallFields
<1>2. Ending(job, "none", page, att) = [y EXCEPT !.pc = "done", !.err = "none", !.page = page, !.attached = att]
  BY DEF Ending
<1> HIDE DEF y
<1>3. [y EXCEPT !.pc = "done", !.page = page, !.attached = att] = Ending(job, "none", page, att)
  BY <1>1, <1>2 DEF CallFields
<1> QED
  BY <1>3 DEF y

LEMMA EndingGood ==
  ASSUME NEW R, NEW p, NEW job \in Jobs, NEW e, NEW page, NEW att,
         IsList(page), \A i \in DOMAIN page : ResultGood(page[i], p),
         AllGiven(att, job, p)
  PROVE  CallGood(Ending(job, e, page, att), p, R)
<1> DEFINE x == Ending(job, e, page, att)
<1>1. /\ DOMAIN x = CallFields /\ x.job = job /\ x.pc = "done" /\ x.query = 1
      /\ x.answer = [txos |-> <<>>, extra |-> <<>>, blocked |-> <<>>]
      /\ x.txs = <<>> /\ x.fetched = <<>> /\ x.items = <<>>
      /\ x.page = page /\ x.attached = att
  BY EndingFacts
<1> HIDE DEF x
<1>2. /\ Len(Queries(job)) \in Nat /\ Len(Queries(job)) >= 1 /\ UrlQueries(job) \in Nat /\ UrlQueries(job) >= 1
  BY QueryFacts
<1>3. AnswerGood(x.answer)
  <2>1. x.answer.txos = <<>> /\ x.answer.extra = <<>> /\ x.answer.blocked = <<>>
    BY <1>1
  <2>2. IsList(<<>>) /\ MessagesGood(<<>>)
    BY DEF MessagesGood, IsList
  <2> QED
    BY <2>1, <2>2 DEF AnswerGood
<1>4. AllGiven(x.attached, x.job, p)
  BY <1>1
<1>5. x.query \in 1..Len(Queries(x.job)) /\ ~(x.query > UrlQueries(x.job))
  BY <1>1, <1>2
<1>6. CallGood(x, p, R)
  BY <1>1, <1>3, <1>4, <1>5 DEF CallGood
<1> QED
  BY <1>6 DEF x

\* A call returns, and gives the mutex back.
LEMMA EndPreserves ==
  ASSUME ResolveInv, NEW p \in Calls, NEW e, NEW page, NEW att,
         call' = [call EXCEPT ![p] = Ending(call[p].job, e, page, att)],
         IsList(page), \A i \in DOMAIN page : ResultGood(page[i], p),
         AllGiven(att, call[p].job, p),
         hub' = hub, cache' = cache,
         ObjsInv', \A o \in Refs : o \in Refs' /\ Obj(o)'.txid = Obj(o).txid,
         \A q \in Calls \ {p} : lock = q => \A o \in Refs : Obj(o)'.meta = Obj(o).meta,
         lock' # p, lock' = lock \/ {lock, lock'} \subseteq {p, NoCall}
  PROVE  ResolveInv'
<1> DEFINE x == Ending(call[p].job, e, page, att)
<1>1. DOMAIN call = Calls /\ CacheGood(cache, Refs) /\ CallGood(call[p], p, Refs)
  BY DEF ResolveInv, Sound
<1>2. call[p].job \in Jobs
  BY <1>1 DEF CallGood
<1>3. CallGood(x, p, Refs')
  <2> DEFINE job == call[p].job
  <2>1. /\ job \in Jobs
        /\ AllGiven(att, job, p)
    BY <1>2
  <2> HIDE DEF job
  <2>2. CallGood(Ending(job, e, page, att), p, Refs')
    BY <2>1, EndingGood
  <2> QED
    BY <2>2 DEF job
<1>4. x.items = <<>> /\ x.pc = "done"
  BY EndingFacts
<1> HIDE DEF x
<1>5. DOMAIN call' = Calls /\ call'[p] = x /\ \A q \in Calls \ {p} : call'[q] = call[q]
  BY <1>1 DEF x
<1>6. \A q \in Calls \ {p} : Bystander(q, {})
  BY <1>5 DEF Bystander
<1>7. CallGood(call[p], p, Refs)'
  BY <1>3, <1>5
<1>8. HeldBy(call[p], p)'
  <2>1. IsList(<<>>)
    BY DEF IsList
  <2> QED
    BY <1>4, <1>5, <2>1 DEF HeldBy
<1>9. Explained(call[p])' /\ call'[p].pc \notin Fetching
  BY <1>4, <1>5 DEF Explained, Fetching
<1>10. CacheGood(cache, Refs)'
  BY <1>1 DEF CacheGood
<1>11. IsFiniteSet({})
  BY FS_EmptySet
<1>12. /\ \A V, U : /\ Keeps(cache, V, U) /\ {} \subseteq U /\ IsFiniteSet(U) /\ Cardinality(U) <= Capacity
                    => Keeps(cache', V, U)
       /\ call'[p].pc \in Fetching => FetchGood(call[p])'
       /\ lock' = p => call'[p].pc \notin {"finish", "done"}
  BY <1>9
<1> QED
  BY <1>5, <1>6, <1>7, <1>8, <1>9, <1>10, <1>11, <1>12, StepPreserves

\* A failed call returns what it has to.
LEMMA FailFacts ==
  ASSUME NEW p \in Calls, DOMAIN call = Calls, CallGood(call[p], p, Refs), NEW why, Fail(p, why)
  PROVE  /\ lock' = IF lock = p THEN NoCall ELSE lock
         /\ \E e, att : /\ call' = [call EXCEPT ![p] = Ending(call[p].job, e, <<>>, att)]
                        /\ att = <<>> \/ (call[p].job.kind # "local" /\ att = Nothing(call[p].job))
<1> DEFINE job == call[p].job
           swallowed == job.kind \in {"purchases", "collection"} /\ why # "canceled"
           e == IF swallowed THEN "none" ELSE why
           att == IF swallowed THEN Nothing(job) ELSE <<>>
           x == [Idle(job) EXCEPT !.pc = "done", !.err = e, !.attached = att]
<1>1. /\ call' = [call EXCEPT ![p] = [Idle(@.job) EXCEPT !.pc = "done", !.err = e, !.attached = att]]
      /\ lock' = IF lock = p THEN NoCall ELSE lock
  BY DEF Fail
<1>2. att = <<>> \/ (job.kind # "local" /\ att = Nothing(job))
  OBVIOUS
<1> HIDE DEF e, att
<1>3. call' = [call EXCEPT ![p] = x]
  BY <1>1
<1>4. x = Ending(job, e, <<>>, att)
  BY EndingFailed
<1> QED
  BY <1>1, <1>2, <1>3, <1>4

LEMMA FailPreserves ==
  ASSUME ResolveInv, NEW p \in Calls, NEW why, Fail(p, why), hub' = hub, cache' = cache,
         ObjsInv', \A o \in Refs : o \in Refs' /\ Obj(o)'.txid = Obj(o).txid,
         \A q \in Calls \ {p} : lock = q => \A o \in Refs : Obj(o)'.meta = Obj(o).meta
  PROVE  ResolveInv'
<1>1. DOMAIN call = Calls /\ CallGood(call[p], p, Refs) /\ lock \in Calls \cup {NoCall}
  BY DEF ResolveInv, Sound
<1>2. lock' = IF lock = p THEN NoCall ELSE lock
  BY <1>1, FailFacts
<1>3. PICK e, att : /\ call' = [call EXCEPT ![p] = Ending(call[p].job, e, <<>>, att)]
                    /\ att = <<>> \/ (call[p].job.kind # "local" /\ att = Nothing(call[p].job))
  BY <1>1, FailFacts
<1>4. AllGiven(att, call[p].job, p)
  <2>1. \A i \in DOMAIN att : att[i] = NoTx
    BY <1>3 DEF Nothing
  <2> QED
    BY <2>1 DEF AllGiven, GivenGood
<1>5. lock' # p /\ (lock' = lock \/ {lock, lock'} \subseteq {p, NoCall})
  BY <1>2, ResolveAssumption
<1>6. IsList(<<>>) /\ \A i \in DOMAIN <<>> : ResultGood(<<>>[i], p)
  BY DEF IsList
<1> QED
  BY <1>3, <1>4, <1>5, <1>6, EndPreserves

LEMMA FailStep ==
  ASSUME ResolveInv, NEW p \in Calls, NEW why, Fail(p, why), UNCHANGED <<hub, cache, objs>>
  PROVE  ResolveInv'
<1>1. ObjsInv /\ objs' = objs /\ hub' = hub /\ cache' = cache
  BY DEF ResolveInv
<1>2. ObjsInv' /\ Refs' = Refs /\ \A o : Obj(o)' = Obj(o)
  BY <1>1, ObjsUnchanged
<1> QED
  BY <1>1, <1>2, FailPreserves

\* What the callers make of a result is still the caller's.
LEMMA CheckedFacts ==
  ASSUME NEW p, NEW x, ResultGood(x, p), NEW b
  PROVE  ResultGood(Checked(b, x), p) /\ ResultGood(Local(Checked(b, x)), p)
<1>1. ASSUME NEW y, ResultGood(y, p) PROVE ResultGood([y EXCEPT !.kind = "error"], p)
  BY <1>1 DEF ResultGood, ResultFields
<1>2. ResultGood(Checked(b, x), p)
  <2>1. Checked(b, x) \in {x, [x EXCEPT !.kind = "error"]}
    BY DEF Checked
  <2> QED
    BY <1>1, <2>1
<1>3. ASSUME NEW y, ResultGood(y, p) PROVE ResultGood(Local(y), p)
  <2> DEFINE c == ChannelOf[y.tx]
             z == [y EXCEPT !.chanTx = c, !.chanMeta = NoTag, !.described = FALSE]
  <2>1. Local(y) = y \/ Local(y) = z
    BY DEF Local
  <2> HIDE DEF c
  <2>2. ResultGood(z, p)
    <3>1. DOMAIN y = ResultFields
      BY <1>3 DEF ResultGood
    <3>2. DOMAIN z = ResultFields /\ z.kind = y.kind /\ z.meta = y.meta /\ z.described = FALSE
      BY <3>1 DEF ResultFields
    <3> HIDE DEF z
    <3> QED
      BY <1>3, <3>2 DEF ResultGood
  <2> QED
    BY <1>3, <2>1, <2>2
<1> QED
  BY <1>2, <1>3

\* What a finished call may return.
Answered(job, p, page, att) ==
    /\ IsList(page) /\ \A i \in DOMAIN page : ResultGood(page[i], p)
    /\ AllGiven(att, job, p)

\* A claim is given to what has its identifier, the last result or the first:
LEMMA GivenFacts ==
  ASSUME NEW p, NEW ids, NEW results, IsList(results), \A k \in DOMAIN results : ResultGood(results[k], p),
         AllOutputs(results), NEW i \in DOMAIN mapTransactionResolvedClaims(ids, results)
  PROVE  GivenGood(mapTransactionResolvedClaims(ids, results)[i], ids[i], p)
<1> DEFINE at == Matching(ids[i], results)
           last == CHOOSE k \in at : \A j \in at : j <= k
<1>1. mapTransactionResolvedClaims(ids, results)[i] = IF at = {} THEN NoTx ELSE results[last]
  BY DEF mapTransactionResolvedClaims
<1>2. Len(results) \in Nat /\ at \in SUBSET (1..Len(results)) /\ \A k \in at : k \in DOMAIN results /\ results[k].tx = ids[i]
  BY ListFacts DEF Matching
<1> HIDE DEF at
<1>3. at # {} => last \in at
  BY <1>2, Highest
<1> HIDE DEF last
<1>4. at # {} => results[last].tx = ids[i] /\ results[last].kind = "output" /\ results[last].meta[1] = p
  BY <1>2, <1>3 DEF AllOutputs, ResultGood
<1> QED
  BY <1>1, <1>4 DEF GivenGood

\* before the first one of a collection's entry there is no result that is no output.
LEMMA HydratedFacts ==
  ASSUME NEW p, NEW ids, NEW results, IsList(results), \A k \in DOMAIN results : ResultGood(results[k], p),
         CollectionReadable(ids, results), NEW i \in DOMAIN ids
  PROVE  GivenGood(hydrateTransactionCollectionHubResults(ids, results)[i], ids[i], p)
<1> DEFINE at == Matching(ids[i], results)
           first == CHOOSE k \in at : \A j \in at : k <= j
<1>1. hydrateTransactionCollectionHubResults(ids, results)[i] = IF at = {} THEN NoTx ELSE results[first]
  BY DEF hydrateTransactionCollectionHubResults
<1>2. Len(results) \in Nat /\ DOMAIN results = 1..Len(results) /\ at = {k \in DOMAIN results : results[k].tx = ids[i]}
  BY ListFacts DEF Matching
<1> HIDE DEF at
<1>3. at \in SUBSET Nat
  BY <1>2
<1>4. at # {} => first \in at /\ \A j \in at : first <= j
  BY <1>3, Lowest
<1> HIDE DEF first
<1>5. ASSUME at # {} PROVE results[first].kind = "output"
  <2> SUFFICES ASSUME results[first].kind # "output" PROVE FALSE
    OBVIOUS
  <2>1. first \in 1..Len(results) /\ \A j \in at : first <= j
    BY <1>2, <1>4, <1>5
  <2>2. PICK j \in 1..(first - 1) : results[j].tx = ids[i]
    BY <1>2, <2>1 DEF CollectionReadable
  <2>3. j \in at
    BY <1>2, <2>1, <2>2
  <2> QED
    BY <2>1, <2>3
<1>6. at # {} => results[first].tx = ids[i] /\ results[first].kind = "output" /\ results[first].meta[1] = p
  BY <1>2, <1>4, <1>5 DEF ResultGood
<1> QED
  BY <1>1, <1>6 DEF GivenGood

LEMMA RaiseFacts ==
  ASSUME NEW p \in Calls, NEW why
  PROVE  \E e, page, att : /\ Raise(p, why) = [call EXCEPT ![p] = Ending(call[p].job, e, page, att)]
                           /\ Answered(call[p].job, p, page, att)
<1> DEFINE x == [Idle(call[p].job) EXCEPT !.pc = "done", !.err = why]
<1>1. Raise(p, why) = [call EXCEPT ![p] = x]
  BY DEF Raise
<1>2. x = Ending(call[p].job, why, <<>>, <<>>)
  BY EndingRaised
<1>3. Answered(call[p].job, p, <<>>, <<>>)
  BY DEF Answered, IsList, AllGiven
<1> HIDE DEF x
<1> QED
  BY <1>1, <1>2, <1>3

LEMMA ReturnFacts ==
  ASSUME NEW p \in Calls, NEW page, NEW att, Answered(call[p].job, p, page, att)
  PROVE  \E e, list, given : /\ Return(p, page, att) = [call EXCEPT ![p] = Ending(call[p].job, e, list, given)]
                             /\ Answered(call[p].job, p, list, given)
<1> DEFINE x == [Idle(call[p].job) EXCEPT !.pc = "done", !.page = page, !.attached = att]
<1>1. Return(p, page, att) = [call EXCEPT ![p] = x]
  BY DEF Return
<1>2. x = Ending(call[p].job, "none", page, att)
  BY EndingReturned
<1> HIDE DEF x
<1> QED
  BY <1>1, <1>2

LEMMA FinishFacts ==
  ASSUME NEW p \in Calls, CallGood(call[p], p, Refs), Finish(p)
  PROVE  \E e, page, att : /\ call' = [call EXCEPT ![p] = Ending(call[p].job, e, page, att)]
                           /\ Answered(call[p].job, p, page, att)
<1> DEFINE job == call[p].job
           page == call[p].page
           n == Len(job.ask)
           good(c) == \E e, list, att : /\ c = [call EXCEPT ![p] = Ending(call[p].job, e, list, att)]
                                        /\ Answered(call[p].job, p, list, att)
<1>1. /\ job \in Jobs /\ IsList(page) /\ (\A i \in DOMAIN page : ResultGood(page[i], p))
      /\ job.kind = "local" => n <= Len(page)
  BY DEF CallGood, Finish, Stands
<1>2. /\ job.kind \in {"resolve", "local", "search", "lookup", "purchases", "collection"}
      /\ n \in Nat /\ Len(page) \in Nat /\ DOMAIN page = 1..Len(page)
  BY <1>1, ListFacts DEF Jobs
<1>3. \A why : good(Raise(p, why))
  BY RaiseFacts
<1>4. \A list, att : Answered(job, p, list, att) => good(Return(p, list, att))
  BY ReturnFacts
<1>5. AllGiven(<<>>, job, p)
  BY DEF AllGiven
<1> HIDE DEF good
<1>6. CASE job.kind \in {"resolve", "local"}
  <2> DEFINE found == SubSeq(page, n + 1, Len(page))
             checked(i) == Checked(job.inChannel, page[i])
             direct == [i \in 1..n |-> checked(i)]
             local == [i \in 1..n |-> Local(checked(i))]
             given == mapTransactionResolvedClaims(job.supports, found)
  <2>1. call' = FinishResolve(p)
    BY <1>6 DEF Finish
  <2>2. ASSUME n <= Len(page)
        PROVE  /\ IsList(direct) /\ \A i \in DOMAIN direct : ResultGood(direct[i], p)
               /\ IsList(local) /\ \A i \in DOMAIN local : ResultGood(local[i], p)
    <3>1. \A i \in 1..n : ResultGood(page[i], p)
      BY <1>1, <1>2, <2>2
    <3>2. \A i \in 1..n : ResultGood(checked(i), p) /\ ResultGood(Local(checked(i)), p)
      BY <3>1, CheckedFacts
    <3> HIDE DEF checked, n
    <3>3. direct = [i \in 1..n |-> direct[i]] /\ local = [i \in 1..n |-> local[i]]
          /\ DOMAIN direct = 1..n /\ DOMAIN local = 1..n
          /\ \A i \in 1..n : direct[i] = checked(i) /\ local[i] = Local(checked(i))
      OBVIOUS
    <3> HIDE DEF direct, local
    <3>4. IsList(direct) /\ IsList(local)
      BY <1>2, <3>3, TableIsList
    <3> QED
      BY <3>2, <3>3, <3>4
  <2>3. CASE job.kind = "resolve"
    <3>1. call' = IF Len(page) # n THEN Raise(p, "AssertionError") ELSE Return(p, direct, <<>>)
      BY <2>1, <2>3 DEF FinishResolve
    <3>2. CASE Len(page) # n
      BY <1>3, <3>1, <3>2 DEF good
    <3>3. CASE Len(page) = n
      <4> HIDE DEF direct
      <4>1. Answered(job, p, direct, <<>>)
        <5>1. n <= Len(page)
          BY <1>2, <3>3
        <5> QED
          BY <1>5, <2>2, <5>1 DEF Answered
      <4> QED
        BY <1>4, <3>1, <3>3, <4>1 DEF good
    <3> QED
      BY <3>2, <3>3
  <2>4. CASE job.kind = "local"
    <3>1. call' = IF AllOutputs(found) THEN Return(p, local, given) ELSE Raise(p, "AttributeError")
      BY <2>1, <2>4 DEF FinishResolve
    <3>2. ASSUME AllOutputs(found) PROVE Answered(job, p, local, given)
      <4>1. IsList(found) /\ \A k \in DOMAIN found : ResultGood(found[k], p)
        <5>1. page \in Seq(Range(page)) /\ n + 1 \in Nat /\ n + 1 >= 1 /\ Len(page) \in Int
          BY <1>1, <1>2, ListFacts
        <5>2. found \in Seq(Range(page))
          BY <5>1, PartFacts
        <5> HIDE DEF found
        <5>3. IsList(found) /\ \A k \in DOMAIN found : found[k] \in Range(page)
          BY <5>2, SeqIsList
        <5> QED
          BY <1>1, <5>3 DEF Range
      <4> HIDE DEF found
      <4>2. AskedFor(job) = job.supports
        BY <2>4 DEF AskedFor
      <4>3. \A i \in DOMAIN given : GivenGood(given[i], job.supports[i], p)
        BY <3>2, <4>1, GivenFacts
      <4> HIDE DEF local, given
      <4>4. AllGiven(given, job, p)
        BY <4>2, <4>3 DEF AllGiven
      <4> QED
        BY <1>1, <2>2, <2>4, <4>4 DEF Answered
    <3> HIDE DEF local, given, found
    <3> QED
      BY <1>3, <1>4, <3>1, <3>2 DEF good
  <2> QED
    BY <1>6, <2>3, <2>4
<1>7. CASE job.kind \notin {"resolve", "local"}
  <2> DEFINE given == mapTransactionResolvedClaims(job.ask, page)
             hydrated == hydrateTransactionCollectionHubResults(job.ask, page)
  <2>1. call' = FinishSearch(p)
    BY <1>7 DEF Finish
  <2>2. Answered(job, p, page, <<>>)
    BY <1>1, <1>5 DEF Answered
  <2>3. AskedFor(job) = job.ask
    BY <1>7 DEF AskedFor
  <2>4. ASSUME AllOutputs(page) PROVE Answered(job, p, page, given)
    <3>1. \A i \in DOMAIN given : GivenGood(given[i], job.ask[i], p)
      BY <1>1, <2>4, GivenFacts
    <3> HIDE DEF given
    <3>2. AllGiven(given, job, p)
      BY <2>3, <3>1 DEF AllGiven
    <3> QED
      BY <1>1, <3>2 DEF Answered
  <2>5. ASSUME CollectionReadable(job.ask, page) PROVE Answered(job, p, page, hydrated)
    <3>1. DOMAIN hydrated = DOMAIN job.ask
      BY DEF hydrateTransactionCollectionHubResults
    <3>2. \A i \in DOMAIN job.ask : GivenGood(hydrated[i], job.ask[i], p)
      BY <1>1, <2>5, HydratedFacts
    <3> HIDE DEF hydrated
    <3>3. AllGiven(hydrated, job, p)
      BY <2>3, <3>1, <3>2 DEF AllGiven
    <3> QED
      BY <1>1, <3>3 DEF Answered
  <2> HIDE DEF given, hydrated, job, page
  <2>6. \/ call' = Return(p, page, <<>>) \/ \E why : call' = Raise(p, why)
        \/ AllOutputs(page) /\ call' = Return(p, page, given)
        \/ CollectionReadable(job.ask, page) /\ call' = Return(p, page, hydrated)
    <3>1. CASE job.kind = "search"
      BY <2>1, <3>1 DEF FinishSearch, job, page
    <3>2. CASE job.kind = "lookup"
      BY <2>1, <3>2 DEF FinishSearch, job, page
    <3>3. CASE job.kind = "purchases"
      BY <2>1, <3>3 DEF FinishSearch, job, page, given
    <3>4. CASE job.kind = "collection"
      BY <2>1, <3>4 DEF FinishSearch, job, page, hydrated
    <3> QED
      BY <1>2, <1>7, <3>1, <3>2, <3>3, <3>4
  <2>7. good(call')
    BY <1>3, <1>4, <2>2, <2>4, <2>5, <2>6
  <2> QED
    BY <2>7 DEF good
<1> QED
  BY <1>6, <1>7

LEMMA FinishPreserves ==
  ASSUME ResolveInv, NEW p \in Calls, Finish(p)
  PROVE  ResolveInv'
<1>1. /\ CallGood(call[p], p, Refs) /\ ObjsInv /\ LockReleased /\ lock \in Calls \cup {NoCall}
      /\ call[p].pc = "finish" /\ hub' = hub /\ cache' = cache /\ objs' = objs /\ lock' = lock
  BY DEF ResolveInv, Sound, Finish, Stands
<1>2. PICK e, page, att : /\ call' = [call EXCEPT ![p] = Ending(call[p].job, e, page, att)]
                          /\ Answered(call[p].job, p, page, att)
  BY <1>1, FinishFacts
<1>3. ObjsInv' /\ Refs' = Refs /\ \A o : Obj(o)' = Obj(o)
  BY <1>1, ObjsUnchanged
<1>4. lock' # p
  BY <1>1, ResolveAssumption DEF LockReleased
<1>5. /\ IsList(page) /\ \A i \in DOMAIN page : ResultGood(page[i], p)
      /\ AllGiven(att, call[p].job, p)
  BY <1>2 DEF Answered
<1> QED
  BY <1>1, <1>2, <1>3, <1>4, <1>5, EndPreserves

\* A snapshot takes the metadata along.
LEMMA SnapshotFacts ==
  ASSUME NEW p \in Calls, NEW items, IsList(items), \A i \in DOMAIN items : ItemGood(items[i], p)
  PROVE  /\ IsList(SnapshotAll(items)) /\ Len(SnapshotAll(items)) = Len(items)
         /\ \A i \in DOMAIN SnapshotAll(items) : ResultGood(SnapshotAll(items)[i], p)
<1> DEFINE n == Len(items)
           s == SnapshotAll(items)
<1>1. n \in Nat /\ DOMAIN items = 1..n
  BY ListFacts
<1>2. s = [i \in 1..n |-> Snapshot(items[i])]
  BY <1>1 DEF SnapshotAll
<1> HIDE DEF s, n
<1>3. s = [i \in 1..n |-> s[i]] /\ DOMAIN s = 1..n /\ \A i \in 1..n : s[i] = Snapshot(items[i])
  BY <1>2
<1>4. IsList(s) /\ Len(s) = n
  BY <1>1, <1>3, TableIsList
<1>5. ASSUME NEW x, ItemGood(x, p) PROVE ResultGood(Snapshot(x), p)
  <2> DEFINE y == Snapshot(x)
  <2>1. /\ DOMAIN y = ResultFields /\ y.kind = x.kind /\ y.meta = x.meta /\ y.described = x.described
        /\ y.chanMeta = (IF x.chan = NoObj THEN NoTag ELSE Obj(x.chan).meta)
    BY DEF Snapshot, ResultFields
  <2>2. x.chan \in Refs => x.chan # NoObj
    <3>1. \A o \in Refs : o[1] \in Calls
      BY DEF Refs
    <3>2. NoObj[1] \notin Calls
      BY ResolveAssumption DEF NoObj
    <3> QED
      BY <3>1, <3>2
  <2> HIDE DEF y
  <2>3. ResultGood(y, p)
    BY <1>5, <2>1, <2>2 DEF ResultGood, ItemGood
  <2> QED
    BY <2>3 DEF y
<1>6. \A i \in DOMAIN s : ResultGood(s[i], p)
  BY <1>1, <1>3, <1>5
<1> QED
  BY <1>4, <1>6 DEF s, n

LEMMA JoinFacts ==
  ASSUME NEW a, NEW b, IsList(a), IsList(b)
  PROVE  /\ IsList(a \o b) /\ Len(a \o b) = Len(a) + Len(b)
         /\ \A i \in DOMAIN (a \o b) : \/ \E j \in DOMAIN a : (a \o b)[i] = a[j]
                                       \/ \E j \in DOMAIN b : (a \o b)[i] = b[j]
<1> DEFINE S == Range(a) \cup Range(b)
           ab == a \o b
<1>1. a \in Seq(S) /\ b \in Seq(S)
  BY DEF IsList
<1> HIDE DEF S
<1>2. /\ Len(a) \in Nat /\ Len(b) \in Nat /\ DOMAIN a = 1..Len(a) /\ DOMAIN b = 1..Len(b)
      /\ ab \in Seq(S) /\ Len(ab) = Len(a) + Len(b) /\ DOMAIN ab = 1..Len(a) + Len(b)
  BY <1>1
<1>3. ASSUME NEW i \in DOMAIN ab
      PROVE  (\E j \in DOMAIN a : ab[i] = a[j]) \/ (\E j \in DOMAIN b : ab[i] = b[j])
  <2>1. CASE i \in 1..Len(a)
    <3>1. ab[i] = a[i]
      BY <1>1, <2>1
    <3> QED
      BY <1>2, <2>1, <3>1
  <2>2. CASE i \notin 1..Len(a)
    <3>1. ab[i] = b[i - Len(a)]
      BY <1>1, <1>2, <2>2
    <3>2. i - Len(a) \in DOMAIN b
      BY <1>2, <2>2
    <3> QED
      BY <3>1, <3>2
  <2> QED
    BY <2>1, <2>2
<1>4. IsList(ab)
  BY <1>2, SeqIsList
<1> QED
  BY <1>2, <1>3, <1>4

LEMMA CopyPreserves ==
  ASSUME ResolveInv, NEW p \in Calls, Copy(p)
  PROVE  ResolveInv'
<1> DEFINE c == call[p]
           d == call'[p]
           more == KeepsLock(p) /\ ~LastQuery(p)
           page == IF more THEN c.page ELSE c.page \o SnapshotAll(c.items)
           items == IF more THEN c.items ELSE <<>>
           query == IF LastQuery(p) THEN c.query ELSE c.query + 1
           pc == IF LastQuery(p) THEN "finish" ELSE "query"
           none == Idle(c.job).answer
<1>1. /\ CallGood(c, p, Refs) /\ HeldBy(c, p) /\ ObjsInv /\ LockReleased /\ lock \in Calls \cup {NoCall}
      /\ DOMAIN call = Calls /\ CacheGood(cache, Refs)
      /\ c.pc = "copy" /\ hub' = hub /\ cache' = cache /\ objs' = objs
  BY DEF ResolveInv, Sound, Copy, Stands
<1>2. CASE Short(p)
  <2>1. Fail(p, "AssertionError")
    BY <1>2 DEF Copy
  <2> QED
    BY <1>1, <2>1, FailStep
<1>3. CASE ~Short(p)
  <2>1. /\ lock' = IF more THEN p ELSE NoCall
        /\ call' = [call EXCEPT
                    ![p].page = page, ![p].items = items,
                    ![p].answer = none, ![p].txs = <<>>,
                    ![p].since = {}, ![p].cleared = FALSE, ![p].foreign = FALSE,
                    ![p].query = query, ![p].pc = pc]
    BY <1>1, <1>3 DEF Copy
  <2> HIDE DEF page, items, query, pc, none
  <2>2. /\ DOMAIN call' = Calls /\ \A q \in Calls \ {p} : call'[q] = call[q]
        /\ d = [c EXCEPT !.page = page, !.items = items, !.answer = none, !.txs = <<>>,
                         !.since = {}, !.cleared = FALSE, !.foreign = FALSE, !.query = query, !.pc = pc]
    BY <1>1, <2>1
  <2>3. DOMAIN c = CallFields
    BY <1>1 DEF CallGood
  <2> HIDE DEF c, d
  <2>4. /\ DOMAIN d = CallFields /\ d.page = page /\ d.items = items /\ d.answer = none /\ d.txs = <<>>
        /\ d.query = query /\ d.pc = pc /\ d.job = c.job /\ d.fetched = c.fetched
    BY <2>2, <2>3 DEF CallFields
  <2>5. lock = p
    BY <1>1 DEF HeldBy
  <2>6. /\ IsList(c.page) /\ (\A i \in DOMAIN c.page : ResultGood(c.page[i], p))
        /\ IsList(c.items) /\ (\A i \in DOMAIN c.items : ItemGood(c.items[i], p))
        /\ c.job \in Jobs /\ c.query \in 1..Len(Queries(c.job)) /\ c.fetched \in Seq(Refs)
    BY <1>1 DEF CallGood, HeldBy
  <2>7. /\ IsList(SnapshotAll(c.items)) /\ Len(SnapshotAll(c.items)) = Len(c.items)
        /\ \A i \in DOMAIN SnapshotAll(c.items) : ResultGood(SnapshotAll(c.items)[i], p)
    BY <2>6, SnapshotFacts
  <2>8. /\ IsList(page) /\ \A i \in DOMAIN page : ResultGood(page[i], p)
        /\ Len(c.page) \in Nat /\ Len(c.items) \in Nat
        /\ ~more => Len(page) = Len(c.page) + Len(c.items)
    <3>1. Len(c.page) \in Nat /\ Len(c.items) \in Nat
      BY <2>6, ListFacts
    <3>2. CASE more
      BY <2>6, <3>1, <3>2 DEF page
    <3>3. CASE ~more
      <4> DEFINE s == SnapshotAll(c.items)
      <4>1. page = c.page \o s
        BY <3>3 DEF page
      <4>3. IsList(c.page) /\ IsList(s)
        BY <2>6, <2>7
      <4> HIDE DEF s
      <4>2. /\ IsList(page) /\ Len(page) = Len(c.page) + Len(s)
            /\ \A i \in DOMAIN page : (\E j \in DOMAIN c.page : page[i] = c.page[j]) \/ (\E j \in DOMAIN s : page[i] = s[j])
        <5> DEFINE a == c.page
        <5>1. IsList(a) /\ IsList(s) /\ page = a \o s
          BY <4>1, <4>3
        <5> HIDE DEF a, page
        <5>2. /\ IsList(a \o s) /\ Len(a \o s) = Len(a) + Len(s)
              /\ \A i \in DOMAIN (a \o s) : (\E j \in DOMAIN a : (a \o s)[i] = a[j]) \/ (\E j \in DOMAIN s : (a \o s)[i] = s[j])
          BY <5>1, JoinFacts
        <5>3. /\ IsList(page) /\ Len(page) = Len(a) + Len(s)
              /\ \A i \in DOMAIN page : (\E j \in DOMAIN a : page[i] = a[j]) \/ (\E j \in DOMAIN s : page[i] = s[j])
          BY <5>1, <5>2
        <5> QED
          BY <5>3 DEF a
      <4> QED
        BY <2>6, <2>7, <3>1, <4>2 DEF s
    <3> QED
      BY <3>2, <3>3
  <2>9. /\ Len(Queries(c.job)) \in Nat /\ Len(Queries(c.job)) >= 1
        /\ UrlQueries(c.job) \in Nat /\ UrlQueries(c.job) >= 1
        /\ c.job.kind = "local" => Len(Queries(c.job)) \in {UrlQueries(c.job), UrlQueries(c.job) + 1}
    BY <2>6, QueryFacts
  <2>10. /\ LastQuery(p) <=> c.query = Len(Queries(c.job))
         /\ query \in 1..Len(Queries(c.job)) /\ (query = c.query \/ query = c.query + 1)
    <3>1. LastQuery(p) <=> c.query = Len(Queries(c.job))
      BY DEF LastQuery, c
    <3> QED
      BY <2>6, <2>9, <3>1 DEF query
  <2>11. ASSUME c.job.kind = "local", query > UrlQueries(c.job) \/ pc = "finish" PROVE Len(c.job.ask) <= Len(page)
    <3>1. ~more
      BY <2>11 DEF KeepsLock, c
    <3>2. Len(page) = Len(c.page) + Len(c.items)
      BY <2>8, <3>1
    <3>6. Len(c.page) \in Nat /\ Len(c.items) \in Nat /\ Len(c.job.ask) \in Nat
      <4>1. c.job.ask \in Seq(Tx)
        BY <2>6 DEF Jobs
      <4> QED
        BY <2>8, <4>1
    <3>3. c.query >= UrlQueries(c.job)
      <4>1. CASE query > UrlQueries(c.job)
        BY <2>6, <2>9, <2>10, <4>1
      <4>2. CASE pc = "finish"
        BY <2>6, <2>9, <2>10, <2>11, <4>2 DEF pc
      <4> QED
        BY <2>11, <4>1, <4>2
    <3>4. CASE c.query = UrlQueries(c.job)
      <4>1. Len(c.page) + Len(c.items) = Len(c.job.ask)
        BY <1>3, <2>11, <3>4 DEF Short, c
      <4> DEFINE k == Len(c.job.ask)
      <4>2. Len(page) = k /\ k \in Nat
        BY <3>2, <3>6, <4>1
      <4> HIDE DEF k
      <4>3. k <= Len(page)
        BY <4>2
      <4> QED
        BY <4>3 DEF k
    <3>5. CASE c.query # UrlQueries(c.job)
      <4>1. c.query > UrlQueries(c.job)
        BY <2>6, <2>9, <3>3, <3>5
      <4>2. Len(c.job.ask) <= Len(c.page)
        BY <1>1, <2>11, <4>1 DEF CallGood
      <4> DEFINE x == Len(c.page)
                 y == Len(c.items)
                 k == Len(c.job.ask)
      <4>3. k \in Nat /\ x \in Nat /\ y \in Nat /\ Len(page) = x + y /\ k <= x
        BY <3>2, <3>6, <4>2
      <4> HIDE DEF x, y, k
      <4>4. k <= x + y
        BY <4>3
      <4> QED
        BY <4>3, <4>4 DEF k
    <3> QED
      BY <3>4, <3>5
  <2>12. AnswerGood(none)
    <3>1. none = [txos |-> <<>>, extra |-> <<>>, blocked |-> <<>>]
      BY DEF none, Idle
    <3>2. none.txos = <<>> /\ none.extra = <<>> /\ none.blocked = <<>>
      BY <3>1
    <3>3. IsList(<<>>) /\ MessagesGood(<<>>)
      BY DEF MessagesGood, IsList
    <3> QED
      BY <3>2, <3>3 DEF AnswerGood
  <2>13. pc \in {"finish", "query"}
    BY DEF pc
  <2>14. Refs' = Refs /\ ObjsInv' /\ \A o : Obj(o)' = Obj(o)
    BY <1>1, ObjsUnchanged
  <2>15. CallGood(d, p, Refs')
    BY <2>4, <2>6, <2>8, <2>10, <2>11, <2>12, <2>13, <2>14 DEF CallGood
  <2>16. CallGood(call[p], p, Refs)'
    BY <2>15 DEF d
  <2>17. HeldBy(call[p], p)'
    <3>1. CASE more
      <4>1. d.items = c.items /\ lock' = p
        BY <2>1, <2>4, <3>1 DEF items
      <4>2. \A i \in DOMAIN d.items : ItemGood(d.items[i], p)
        BY <2>6, <4>1
      <4>3. \A x : ItemGood(x, p) => ItemGood(x, p)'
        <5>1. \A o : objs'[o[1]][o[2]] = objs[o[1]][o[2]]
          BY <1>1
        <5> QED
          BY <2>14, <5>1 DEF ItemGood, Obj
      <4>4. (\A i \in DOMAIN call[p].items : ItemGood(call[p].items[i], p))'
        BY <1>1, <2>14, <4>2 DEF ItemGood, Obj, d
      <4>5. IsList(d.items)
        BY <2>6, <4>1
      <4> QED
        BY <4>1, <4>4, <4>5 DEF HeldBy, d
    <3>2. CASE ~more
      <4>1. d.items = <<>> /\ IsList(<<>>)
        BY <2>4, <3>2 DEF items, IsList
      <4> QED
        BY <2>4, <2>13, <4>1 DEF HeldBy, d
    <3> QED
      BY <3>1, <3>2
  <2>18. Explained(call[p])' /\ call'[p].pc \notin Fetching
    BY <2>4, <2>13 DEF Explained, Fetching, d
  <2>19. CacheGood(cache, Refs)'
    BY <1>1, <2>14 DEF CacheGood
  <2>20. IsFiniteSet({}) /\ \A q \in Calls \ {p} : Bystander(q, {})
    BY <2>2, FS_EmptySet DEF Bystander
  <2>21. lock' = p => call'[p].pc \notin {"finish", "done"}
    <3> SUFFICES ASSUME lock' = p PROVE pc = "query"
      BY <2>4 DEF d
    <3>1. more
      BY <2>1, ResolveAssumption
    <3> QED
      BY <3>1 DEF pc
  <2>22. /\ lock' = lock \/ {lock, lock'} \subseteq {p, NoCall}
         /\ call'[p].pc \in Fetching => FetchGood(call[p])'
         /\ \A V, U : /\ Keeps(cache, V, U) /\ {} \subseteq U /\ IsFiniteSet(U) /\ Cardinality(U) <= Capacity
                      => Keeps(cache', V, U)
         /\ \A o \in Refs : o \in Refs' /\ Obj(o)'.txid = Obj(o).txid
         /\ \A q \in Calls \ {p} : lock = q => \A o \in Refs : Obj(o)'.meta = Obj(o).meta
    BY <1>1, <2>1, <2>5, <2>14, <2>18
  <2> QED
    BY <1>1, <2>2, <2>14, <2>16, <2>17, <2>18, <2>19, <2>20, <2>21, <2>22, StepPreserves
<1> QED
  BY <1>2, <1>3

LEMMA InflatePreserves ==
  ASSUME ResolveInv, NEW p \in Calls, InflatePrepared(p)
  PROVE  ResolveInv'
<1> DEFINE c == call[p]
           d == call'[p]
           done == Inflate(p)
           mem == done.mem
           copies == Copies(p, done)
           items == c.items \o copies
<1>1. /\ CallGood(c, p, Refs) /\ HeldBy(c, p) /\ ObjsInv /\ lock \in Calls \cup {NoCall}
      /\ DOMAIN call = Calls /\ CacheGood(cache, Refs)
      /\ c.pc = "inflate" /\ lock \in {NoCall, p} /\ hub' = hub /\ cache' = cache /\ objs' = mem
  BY DEF ResolveInv, Sound, InflatePrepared, Stands, MayEnter
<1>2. /\ MemGood(mem, p)
      /\ done.err = "none" => IsList(copies) /\ \A i \in DOMAIN copies : InflatedGood(copies[i], p, mem)
  BY <1>1, InflateFacts
<1>3. \/ done.err # "none" /\ Fail(p, done.err)
      \/ /\ done.err = "none" /\ lock' = p
         /\ call' = [call EXCEPT ![p].pc = "copy", ![p].items = items]
  BY DEF InflatePrepared, Copies
<1> HIDE DEF done, mem, copies
<1>4. ObjsInv' /\ Refs' = Refs
  BY <1>1, <1>2 DEF MemGood, ObjsInv, Refs
<1>5. \A o \in Refs : Obj(o)'.txid = Obj(o).txid /\ Obj(o)'.meta \in {Obj(o).meta, TagOf(p)}
  <2> SUFFICES ASSUME NEW o \in Refs
               PROVE  mem[o[1]][o[2]].txid = objs[o[1]][o[2]].txid
                      /\ mem[o[1]][o[2]].meta \in {objs[o[1]][o[2]].meta, TagOf(p)}
    BY <1>1 DEF Obj
  <2>1. o[1] \in Calls /\ o[2] \in DOMAIN objs[o[1]]
    BY DEF Refs
  <2> QED
    BY <1>2, <2>1 DEF MemGood
<1>6. /\ \A o \in Refs : o \in Refs' /\ Obj(o)'.txid = Obj(o).txid
      /\ \A q \in Calls \ {p} : lock = q => \A o \in Refs : Obj(o)'.meta = Obj(o).meta
  BY <1>1, <1>4, <1>5, ResolveAssumption
<1>7. CASE done.err # "none" /\ Fail(p, done.err)
  BY <1>1, <1>4, <1>6, <1>7, FailPreserves
<1>8. CASE /\ done.err = "none" /\ lock' = p
           /\ call' = [call EXCEPT ![p].pc = "copy", ![p].items = items]
  <2> HIDE DEF items
  <2>1. /\ DOMAIN call' = Calls /\ \A q \in Calls \ {p} : call'[q] = call[q]
        /\ d = [c EXCEPT !.pc = "copy", !.items = items]
    BY <1>1, <1>8
  <2>2. DOMAIN c = CallFields
    BY <1>1 DEF CallGood
  <2> HIDE DEF c, d
  <2>3. /\ DOMAIN d = CallFields /\ d.pc = "copy" /\ d.items = items
        /\ \A f \in CallFields \ {"pc", "items"} : d[f] = c[f]
    BY <2>1, <2>2 DEF CallFields
  <2>4. /\ d.job = c.job /\ d.query = c.query /\ d.txs = c.txs /\ d.fetched = c.fetched /\ d.answer = c.answer
        /\ d.page = c.page
    BY <2>3 DEF CallFields
  <2>5. CallGood(d, p, Refs')
    BY <1>1, <1>4, <2>3, <2>4 DEF CallGood
  <2>6. CallGood(call[p], p, Refs)'
    BY <2>5 DEF d
  <2>7. /\ IsList(items)
        /\ \A i \in DOMAIN items : (\E j \in DOMAIN c.items : items[i] = c.items[j]) \/ (\E j \in DOMAIN copies : items[i] = copies[j])
    <3>1. IsList(c.items) /\ IsList(copies)
      BY <1>1, <1>2, <1>8 DEF HeldBy
    <3> DEFINE a == c.items
    <3> HIDE DEF a
    <3>2. IsList(a) /\ IsList(copies) /\ items = a \o copies
      BY <3>1 DEF a, items
    <3>3. /\ IsList(items)
          /\ \A i \in DOMAIN items : (\E j \in DOMAIN a : items[i] = a[j]) \/ (\E j \in DOMAIN copies : items[i] = copies[j])
      BY <3>2, JoinFacts
    <3> QED
      BY <3>3 DEF a
  <2>8. ASSUME NEW x, ItemGood(x, p) PROVE InflatedGood(x, p, mem)
    <3>1. x.chan \in Refs /\ Obj(x.chan).meta[1] = p => mem[x.chan[1]][x.chan[2]].meta[1] = p
      <4> SUFFICES ASSUME NEW o \in Refs, Obj(o).meta[1] = p PROVE mem[o[1]][o[2]].meta[1] = p
        OBVIOUS
      <4>1. mem[o[1]][o[2]].meta \in {Obj(o).meta, TagOf(p)}
        BY <1>1, <1>5 DEF Obj
      <4>2. TagOf(p)[1] = p
        BY DEF TagOf
      <4> QED
        BY <4>1, <4>2
    <3> QED
      BY <2>8, <3>1 DEF ItemGood, InflatedGood
  <2>10. ASSUME NEW i \in DOMAIN items PROVE InflatedGood(items[i], p, mem)
    <3>1. CASE \E j \in DOMAIN c.items : items[i] = c.items[j]
      <4>1. PICK j \in DOMAIN c.items : items[i] = c.items[j]
        BY <3>1
      <4>2. ItemGood(c.items[j], p)
        BY <1>1 DEF HeldBy
      <4> QED
        BY <2>8, <4>1, <4>2
    <3>2. CASE \E j \in DOMAIN copies : items[i] = copies[j]
      BY <1>2, <1>8, <3>2
    <3> QED
      BY <2>7, <3>1, <3>2
  <2>11. HeldBy(call[p], p)'
    <3>1. \A i \in DOMAIN d.items : InflatedGood(d.items[i], p, objs')
      BY <1>1, <2>3, <2>10
    <3>2. (\A i \in DOMAIN call[p].items : ItemGood(call[p].items[i], p))'
      BY <1>4, <3>1 DEF ItemGood, Obj, InflatedGood, d
    <3> QED
      BY <1>8, <2>3, <2>7, <3>2 DEF HeldBy, d
  <2>12. Explained(call[p])' /\ call'[p].pc \notin Fetching
    BY <2>3 DEF Explained, Fetching, d
  <2>13. CacheGood(cache, Refs)'
    BY <1>1, <1>4 DEF CacheGood
  <2>14. IsFiniteSet({}) /\ \A q \in Calls \ {p} : Bystander(q, {})
    BY <2>1, FS_EmptySet DEF Bystander
  <2>15. lock' = p => call'[p].pc \notin {"finish", "done"}
    BY <2>3 DEF d
  <2>16. /\ lock' = lock \/ {lock, lock'} \subseteq {p, NoCall}
         /\ call'[p].pc \in Fetching => FetchGood(call[p])'
         /\ \A V, U : /\ Keeps(cache, V, U) /\ {} \subseteq U /\ IsFiniteSet(U) /\ Cardinality(U) <= Capacity
                      => Keeps(cache', V, U)
    BY <1>1, <1>8, <2>12
  <2> QED
    BY <1>1, <1>4, <1>6, <2>1, <2>6, <2>11, <2>12, <2>13, <2>14, <2>15, <2>16, StepPreserves
<1> QED
  BY <1>3, <1>7, <1>8

\* A fetch under way keeps its plan.
LEMMA FetchStep ==
  ASSUME ResolveInv, NEW p \in Calls, call[p].pc \in Fetching,
         DOMAIN call' = Calls, \A q \in Calls \ {p} : call'[q] = call[q],
         DOMAIN call'[p] = CallFields,
         \A f \in CallFields \ {"pc", "results", "fetched", "foreign", "headerCount"} : call'[p][f] = call[p][f],
         call'[p].pc \in {"verify", "merkle"}, call'[p].fetched \in Seq(Refs'),
         IsList(call'[p].results), \A i \in DOMAIN call'[p].results : DOMAIN call'[p].results[i] = EntryFields,
         call[p].foreign => call'[p].foreign,
         ~call'[p].foreign =>
            /\ \A i \in DOMAIN call'[p].results : call'[p].results[i].txid \in TxidsOf(Head(call[p].batches))
            /\ \A i \in DOMAIN call'[p].fetched :
                  objs'[call'[p].fetched[i][1]][call'[p].fetched[i][2]].txid \in TxidsOf(Head(call[p].batches)),
         ObjsInv', \A o \in Refs : o \in Refs' /\ Obj(o)' = Obj(o),
         hub' = hub, cache' = cache, lock' = lock
  PROVE  ResolveInv'
<1> DEFINE c == call[p]
           d == call'[p]
<1>1. CallGood(c, p, Refs) /\ HeldBy(c, p) /\ FetchGood(c) /\ CacheGood(cache, Refs)
  BY DEF ResolveInv, Sound
<1>2. /\ d.job = c.job /\ d.query = c.query /\ d.txs = c.txs /\ d.answer = c.answer /\ d.page = c.page
      /\ d.items = c.items /\ d.batches = c.batches /\ d.since = c.since /\ d.cleared = c.cleared
  BY DEF CallFields
<1>3. c.pc \notin {"finish", "done", "copy"} /\ d.pc \notin {"finish", "done", "copy", "failed", "fetch"} /\ d.pc \in Fetching
  BY DEF Fetching
<1> HIDE DEF c, d
<1>4. CallGood(d, p, Refs')
  <2>1. c.txs \in Seq(Refs' \cup {NoObj})
    <3>1. Refs \cup {NoObj} \subseteq Refs' \cup {NoObj} /\ c.txs \in Seq(Refs \cup {NoObj})
      BY <1>1 DEF CallGood
    <3> QED
      BY <3>1
  <2>2. d.fetched \in Seq(Refs') /\ DOMAIN d = CallFields
    BY DEF d
  <2> QED
    BY <1>1, <1>2, <1>3, <2>1, <2>2 DEF CallGood
<1>5. CallGood(call[p], p, Refs)'
  BY <1>4 DEF d
<1>6. HeldBy(call[p], p)'
  <2>1. IsList(c.items) /\ (\A i \in DOMAIN c.items : ItemGood(c.items[i], p)) /\ (c.items # <<>> => lock = p)
    BY <1>1 DEF HeldBy
  <2>2. \A o \in Refs : o \in Refs' /\ objs'[o[1]][o[2]] = Obj(o)
    BY DEF Obj
  <2> DEFINE Fine(x) ==
               /\ DOMAIN x = ItemFields
               /\ x.kind = "output" => /\ x.meta[1] = p
                                       /\ x.described => x.chan \in Refs' /\ objs'[x.chan[1]][x.chan[2]].meta[1] = p
  <2>3. ASSUME NEW x, ItemGood(x, p) PROVE Fine(x)
    BY <2>2, <2>3 DEF ItemGood
  <2> HIDE DEF Fine
  <2>5. \A i \in DOMAIN c.items : Fine(c.items[i])
    BY <2>1, <2>3
  <2>6. \A i \in DOMAIN d.items : Fine(d.items[i])
    BY <1>2, <2>5
  <2>4. (\A i \in DOMAIN call[p].items : ItemGood(call[p].items[i], p))'
    BY <2>6 DEF Fine, ItemGood, Obj, d
  <2> QED
    BY <1>2, <1>3, <2>1, <2>4 DEF HeldBy, d
<1>7. Explained(call[p])'
  BY <1>3 DEF Explained, d
<1>8. FetchGood(call[p])'
  <2>1. Needed(d) = Needed(c)
    BY <1>2 DEF Needed
  <2>2. /\ IsList(d.results) /\ (\A i \in DOMAIN d.results : DOMAIN d.results[i] = EntryFields)
        /\ c.foreign => d.foreign
        /\ ~d.foreign =>
              /\ \A i \in DOMAIN d.results : d.results[i].txid \in TxidsOf(Head(d.batches))
              /\ \A i \in DOMAIN d.fetched : objs'[d.fetched[i][1]][d.fetched[i][2]].txid \in TxidsOf(Head(d.batches))
    BY <1>2 DEF c, d
  <2>3. ~d.foreign /\ ~d.cleared /\ Cardinality(d.since) <= Capacity => Keeps(cache', Needed(d), d.since)
    BY <1>1, <1>2, <2>1, <2>2 DEF FetchGood
  <2>4. /\ IsList(d.batches) /\ d.batches # <<>> /\ IsFiniteSet(d.since)
        /\ (\A i \in DOMAIN d.batches : IsList(d.batches[i])) /\ Needed(d) \subseteq d.since
    BY <1>1, <1>2, <2>1 DEF FetchGood
  <2> QED
    BY <1>3, <2>2, <2>3, <2>4 DEF FetchGood, Obj, d
<1>9. CacheGood(cache, Refs)'
  BY <1>1 DEF CacheGood
<1>10. IsFiniteSet({}) /\ \A q \in Calls \ {p} : Bystander(q, {})
  BY FS_EmptySet DEF Bystander
<1>11. /\ lock' = lock \/ {lock, lock'} \subseteq {p, NoCall}
       /\ call'[p].pc \in Fetching => FetchGood(call[p])'
       /\ lock' = p => call'[p].pc \notin {"finish", "done"}
       /\ \A V, U : /\ Keeps(cache, V, U) /\ {} \subseteq U /\ IsFiniteSet(U) /\ Cardinality(U) <= Capacity
                    => Keeps(cache', V, U)
       /\ \A o \in Refs : o \in Refs' /\ Obj(o)'.txid = Obj(o).txid
       /\ \A q \in Calls \ {p} : lock = q => \A o \in Refs : Obj(o)'.meta = Obj(o).meta
  BY <1>3, <1>8 DEF d
<1> QED
  BY <1>5, <1>6, <1>7, <1>8, <1>9, <1>10, <1>11, StepPreserves

LEMMA MerklePreserves ==
  ASSUME ResolveInv, NEW p \in Calls, FetchMerkle(p)
  PROVE  ResolveInv'
<1> DEFINE c == call[p]
           d == call'[p]
<1>1. /\ CallGood(c, p, Refs) /\ FetchGood(c) /\ ObjsInv /\ c.pc = "merkle" /\ c.pc \in Fetching /\ DOMAIN call = Calls
      /\ hub' = hub /\ cache' = cache /\ lock' = lock /\ objs' = objs
  BY DEF ResolveInv, Sound, FetchMerkle, Stands, Fetching
<1>2. PICK proof : call' = [call EXCEPT ![p].pc = "verify", ![p].results[1].proof = proof, ![p].results[1].asked = TRUE]
  BY DEF FetchMerkle
<1>3. DOMAIN c = CallFields /\ c.fetched \in Seq(Refs)
  BY <1>1 DEF CallGood
<1> DEFINE rs == [c.results EXCEPT ![1] = [[c.results[1] EXCEPT !.proof = proof] EXCEPT !.asked = TRUE]]
<1>4. /\ IsList(c.results) /\ \A i \in DOMAIN c.results : DOMAIN c.results[i] = EntryFields
      /\ Len(c.results) \in Nat /\ DOMAIN c.results = 1..Len(c.results)
  BY <1>1, ListFacts DEF FetchGood
<1>5. /\ DOMAIN call' = Calls /\ \A q \in Calls \ {p} : call'[q] = call[q]
      /\ DOMAIN d = CallFields /\ d.pc = "verify" /\ d.results = rs
      /\ \A f \in CallFields \ {"pc", "results"} : d[f] = c[f]
  <2>1. 1 \in DOMAIN c.results \/ 1 \notin DOMAIN c.results
    OBVIOUS
  <2>2. /\ DOMAIN call' = Calls /\ \A q \in Calls \ {p} : call'[q] = call[q]
        /\ DOMAIN d = CallFields /\ d.pc = "verify"
        /\ \A f \in CallFields \ {"pc", "results"} : d[f] = c[f]
    BY <1>1, <1>2, <1>3 DEF CallFields
  <2>3. d.results = rs
    BY <1>1, <1>2, <1>3, <1>4 DEF CallFields
  <2> QED
    BY <2>2, <2>3
<1> HIDE DEF d
<1>6. /\ IsList(rs) /\ DOMAIN rs = DOMAIN c.results
      /\ \A i \in DOMAIN rs : DOMAIN rs[i] = EntryFields /\ rs[i].txid = c.results[i].txid
  <2> HIDE DEF c
  <2> DEFINE n == Len(c.results)
             x == [[c.results[1] EXCEPT !.proof = proof] EXCEPT !.asked = TRUE]
  <2>1. 1 \in DOMAIN c.results => DOMAIN x = EntryFields /\ x.txid = c.results[1].txid
    BY <1>4 DEF EntryFields
  <2> HIDE DEF x
  <2>2. rs = [i \in 1..n |-> rs[i]] /\ DOMAIN rs = 1..n /\ \A i \in 1..n : rs[i] = IF i = 1 THEN x ELSE c.results[i]
    BY <1>4 DEF IsList, x
  <2> HIDE DEF rs
  <2>3. IsList(rs)
    BY <1>4, <2>2, TableIsList
  <2> QED
    BY <1>4, <2>1, <2>2, <2>3
<1> HIDE DEF rs
<1>7. d.foreign = c.foreign /\ d.fetched = c.fetched
  BY <1>5 DEF CallFields
<1>8. ObjsInv' /\ Refs' = Refs /\ \A o : Obj(o)' = Obj(o)
  BY <1>1, ObjsUnchanged
<1>9. ~d.foreign => /\ \A i \in DOMAIN d.results : d.results[i].txid \in TxidsOf(Head(c.batches))
                    /\ \A i \in DOMAIN d.fetched : objs'[d.fetched[i][1]][d.fetched[i][2]].txid \in TxidsOf(Head(c.batches))
  BY <1>1, <1>5, <1>6, <1>7 DEF FetchGood, Obj
<1>10. /\ \A f \in CallFields \ {"pc", "results", "fetched", "foreign", "headerCount"} : d[f] = c[f]
       /\ d.fetched \in Seq(Refs') /\ IsList(d.results) /\ \A i \in DOMAIN d.results : DOMAIN d.results[i] = EntryFields
       /\ \A o \in Refs : o \in Refs' /\ Obj(o)' = Obj(o)
  BY <1>3, <1>5, <1>6, <1>7, <1>8
<1>11. d.pc \in {"verify", "merkle"} /\ (c.foreign => d.foreign)
  BY <1>5, <1>7
<1> QED
  BY <1>1, <1>5, <1>8, <1>9, <1>10, <1>11, FetchStep DEF d

LEMMA PushPreserves ==
  ASSUME ResolveInv, NEW p \in Calls, Stands(p, "verify"), call[p].results # <<>>,
         NEW entry, entry = Head(call[p].results), NEW verified, Push(p, entry, verified),
         hub' = hub, cache' = cache, lock' = lock
  PROVE  ResolveInv'
<1> DEFINE c == call[p]
           d == call'[p]
           n == Len(objs[p])
           x == NewObject(p, entry, verified)
           os == Append(objs[p], x)
           ref == <<p, n + 1>>
           rest == Tail(c.results)
           fetched == Append(c.fetched, ref)
<1>1. /\ CallGood(c, p, Refs) /\ FetchGood(c) /\ ObjsInv /\ c.pc = "verify" /\ c.pc \in Fetching /\ DOMAIN call = Calls
  BY DEF ResolveInv, Sound, Stands, Fetching
<1>2. /\ objs' = [objs EXCEPT ![p] = os]
      /\ call' = [call EXCEPT ![p].results = rest, ![p].fetched = fetched, ![p].pc = "verify"]
  BY DEF Push
<1>3. DOMAIN c = CallFields /\ c.fetched \in Seq(Refs)
  BY <1>1 DEF CallGood
<1>4. /\ DOMAIN objs = Calls /\ IsList(objs[p]) /\ n \in Nat /\ DOMAIN objs[p] = 1..n
      /\ \A q \in Calls : IsList(objs[q]) /\ \A k \in DOMAIN objs[q] : DOMAIN objs[q][k] = ObjFields
  BY <1>1, ListFacts DEF ObjsInv
<1>5. DOMAIN x = ObjFields /\ x.txid = entry.txid
  BY DEF NewObject, ObjFields
<1> HIDE DEF x
<1>6. /\ IsList(os) /\ DOMAIN os = 1..n + 1 /\ os[n + 1] = x /\ \A k \in 1..n : os[k] = objs[p][k]
  <2> DEFINE a == objs[p]
             S == Range(a) \cup {x}
  <2>1. a \in Seq(S) /\ x \in S
    BY <1>4 DEF IsList
  <2> HIDE DEF a, S
  <2>2. /\ Append(a, x) \in Seq(S) /\ Len(Append(a, x)) = Len(a) + 1 /\ Append(a, x)[Len(a) + 1] = x
        /\ \A k \in 1..Len(a) : Append(a, x)[k] = a[k]
    BY <2>1
  <2>3. IsList(Append(a, x)) /\ DOMAIN Append(a, x) = 1..Len(a) + 1
    BY <2>2, SeqIsList
  <2> QED
    BY <2>2, <2>3 DEF a
<1> HIDE DEF os, n
<1>7. /\ DOMAIN objs' = Calls /\ objs'[p] = os /\ \A q \in Calls \ {p} : objs'[q] = objs[q]
  BY <1>2, <1>4
<1>8. ObjsInv'
  <2>1. ASSUME NEW q \in Calls PROVE IsList(objs'[q]) /\ \A k \in DOMAIN objs'[q] : DOMAIN objs'[q][k] = ObjFields
    <3>1. CASE q = p
      <4>1. \A k \in 1..n + 1 : k = n + 1 \/ k \in 1..n
        BY <1>4
      <4> QED
        BY <1>4, <1>5, <1>6, <1>7, <3>1, <4>1
    <3>2. CASE q # p
      BY <1>4, <1>7, <3>2
    <3> QED
      BY <3>1, <3>2
  <2> QED
    BY <1>7, <2>1 DEF ObjsInv
<1>9. ref \in Refs' /\ objs'[ref[1]][ref[2]] = x
  <2>1. n + 1 \in Nat /\ n + 1 \in 1..n + 1
    BY <1>4
  <2> QED
    BY <1>6, <1>7, <2>1 DEF Refs
<1>10. \A o \in Refs : o \in Refs' /\ objs'[o[1]][o[2]] = objs[o[1]][o[2]]
  <2> SUFFICES ASSUME NEW o \in Refs PROVE o \in Refs' /\ objs'[o[1]][o[2]] = objs[o[1]][o[2]]
    OBVIOUS
  <2>1. o \in Calls \X Nat /\ o[1] \in Calls /\ o[2] \in DOMAIN objs[o[1]]
    BY DEF Refs
  <2>2. o[2] \in DOMAIN objs'[o[1]] /\ objs'[o[1]][o[2]] = objs[o[1]][o[2]]
    <3>1. CASE o[1] = p
      BY <1>4, <1>6, <1>7, <2>1, <3>1
    <3>2. CASE o[1] # p
      BY <1>7, <2>1, <3>2
    <3> QED
      BY <3>1, <3>2
  <2> QED
    BY <2>1, <2>2 DEF Refs
<1>11. /\ IsList(c.results) /\ (\A i \in DOMAIN c.results : DOMAIN c.results[i] = EntryFields)
       /\ Len(c.results) \in Nat /\ DOMAIN c.results = 1..Len(c.results) /\ c.results \in Seq(Range(c.results))
  BY <1>1, ListFacts DEF FetchGood
<1>12. /\ IsList(rest) /\ 1 \in DOMAIN c.results /\ entry = c.results[1]
       /\ \A i \in DOMAIN rest : i + 1 \in DOMAIN c.results /\ rest[i] = c.results[i + 1]
  <2> DEFINE a == c.results
  <2> HIDE DEF c
  <2>1. a \in Seq(Range(a)) /\ a # <<>> /\ Len(a) \in Nat /\ DOMAIN a = 1..Len(a)
    BY <1>11 DEF c
  <2> HIDE DEF a
  <2>2. Tail(a) \in Seq(Range(a)) /\ Len(Tail(a)) = Len(a) - 1 /\ Len(a) >= 1 /\ \A i \in 1..Len(a) - 1 : Tail(a)[i] = a[i + 1]
    BY <2>1
  <2>3. IsList(Tail(a)) /\ DOMAIN Tail(a) = 1..Len(a) - 1
    BY <2>2, SeqIsList
  <2>4. Head(a) = a[1]
    BY <2>1
  <2>5. \A i \in 1..Len(a) - 1 : i + 1 \in 1..Len(a)
    BY <2>1
  <2> QED
    BY <2>1, <2>2, <2>3, <2>4, <2>5 DEF a, c
<1>13. /\ fetched \in Seq(Refs')
       /\ \A i \in DOMAIN fetched : fetched[i] = ref \/ (\E j \in DOMAIN c.fetched : fetched[i] = c.fetched[j])
  <2> DEFINE a == c.fetched
  <2> HIDE DEF c, ref
  <2>1. a \in Seq(Refs')
    <3>1. Refs \subseteq Refs'
      BY <1>10
    <3> QED
      BY <1>3, <3>1
  <2> HIDE DEF a
  <2>2. Append(a, ref) \in Seq(Refs') /\ Len(Append(a, ref)) = Len(a) + 1 /\ Append(a, ref)[Len(a) + 1] = ref
        /\ \A k \in 1..Len(a) : Append(a, ref)[k] = a[k]
    BY <1>9, <2>1
  <2>3. Len(a) \in Nat /\ DOMAIN a = 1..Len(a) /\ DOMAIN Append(a, ref) = 1..Len(a) + 1
    BY <2>1, <2>2
  <2>4. ASSUME NEW i \in DOMAIN Append(a, ref) PROVE Append(a, ref)[i] = ref \/ \E j \in DOMAIN a : Append(a, ref)[i] = a[j]
    <3>1. i = Len(a) + 1 \/ i \in 1..Len(a)
      BY <2>3
    <3> QED
      BY <2>2, <2>3, <3>1
  <2> QED
    BY <2>2, <2>4 DEF a
<1> HIDE DEF rest, fetched, ref
<1>14. /\ DOMAIN call' = Calls /\ \A q \in Calls \ {p} : call'[q] = call[q]
       /\ DOMAIN d = CallFields /\ d.pc = "verify" /\ d.results = rest /\ d.fetched = fetched
       /\ \A f \in CallFields \ {"pc", "results", "fetched"} : d[f] = c[f]
  BY <1>1, <1>2, <1>3 DEF CallFields
<1> HIDE DEF c, d
<1>15. d.foreign = c.foreign
  BY <1>14 DEF CallFields
<1>16. ASSUME ~d.foreign
       PROVE  /\ \A i \in DOMAIN d.results : d.results[i].txid \in TxidsOf(Head(c.batches))
              /\ \A i \in DOMAIN d.fetched : objs'[d.fetched[i][1]][d.fetched[i][2]].txid \in TxidsOf(Head(c.batches))
  <2>1. /\ \A i \in DOMAIN c.results : c.results[i].txid \in TxidsOf(Head(c.batches))
        /\ \A i \in DOMAIN c.fetched : Obj(c.fetched[i]).txid \in TxidsOf(Head(c.batches))
    BY <1>1, <1>15, <1>16 DEF FetchGood
  <2>2. \A i \in DOMAIN c.fetched : c.fetched[i] \in Refs
    BY <1>3
  <2>3. \A i \in DOMAIN d.results : d.results[i].txid \in TxidsOf(Head(c.batches))
    BY <1>12, <1>14, <2>1
  <2>4. x.txid \in TxidsOf(Head(c.batches))
    BY <1>5, <1>12, <2>1
  <2>5. ASSUME NEW i \in DOMAIN d.fetched PROVE objs'[d.fetched[i][1]][d.fetched[i][2]].txid \in TxidsOf(Head(c.batches))
    <3>1. CASE d.fetched[i] = ref
      BY <1>9, <2>4, <3>1
    <3>2. CASE \E j \in DOMAIN c.fetched : d.fetched[i] = c.fetched[j]
      <4>1. PICK j \in DOMAIN c.fetched : d.fetched[i] = c.fetched[j]
        BY <3>2
      <4> QED
        BY <1>10, <2>1, <2>2, <4>1 DEF Obj
    <3> QED
      BY <1>13, <1>14, <3>1, <3>2
  <2> QED
    BY <2>3, <2>5
<1>17. \A o \in Refs : o \in Refs' /\ Obj(o)' = Obj(o)
  BY <1>10 DEF Obj
<1>18. /\ \A f \in CallFields \ {"pc", "results", "fetched", "foreign", "headerCount"} : d[f] = c[f]
       /\ d.fetched \in Seq(Refs') /\ IsList(d.results) /\ \A i \in DOMAIN d.results : DOMAIN d.results[i] = EntryFields
       /\ d.pc \in {"verify", "merkle"} /\ (c.foreign => d.foreign)
  BY <1>11, <1>12, <1>13, <1>14, <1>15
<1> QED
  BY <1>1, <1>8, <1>14, <1>16, <1>17, <1>18, FetchStep DEF c, d

LEMMA VerifyPreserves ==
  ASSUME ResolveInv, NEW p \in Calls, Verify(p)
  PROVE  ResolveInv'
<1> DEFINE c == call[p]
           d == call'[p]
           entry == Head(call[p].results)
<1>1. /\ Stands(p, "verify") /\ call[p].results # <<>> /\ hub' = hub /\ cache' = cache /\ lock' = lock
  BY DEF Verify
<1>2. \/ \E verified : Push(p, entry, verified)
      \/ \E count : /\ call' = [call EXCEPT ![p].pc = "merkle", ![p].headerCount = count]
                    /\ objs' = objs
  <2> HIDE DEF entry
  <2> QED
    BY Zenon DEF Verify, entry
<1>3. CASE \E verified : Push(p, entry, verified)
  <2>1. PICK verified : Push(p, entry, verified)
    BY <1>3
  <2>2. entry = Head(call[p].results)
    OBVIOUS
  <2> HIDE DEF entry
  <2> QED
    BY <1>1, <2>1, <2>2, PushPreserves
<1>4. CASE \E count : /\ call' = [call EXCEPT ![p].pc = "merkle", ![p].headerCount = count]
                      /\ objs' = objs
  <2>1. PICK count : call' = [call EXCEPT ![p].pc = "merkle", ![p].headerCount = count] /\ objs' = objs
    BY <1>4
  <2>2. /\ CallGood(c, p, Refs) /\ FetchGood(c) /\ ObjsInv /\ c.pc = "verify" /\ c.pc \in Fetching /\ DOMAIN call = Calls
    BY <1>1 DEF ResolveInv, Sound, Stands, Fetching
  <2>3. DOMAIN c = CallFields /\ c.fetched \in Seq(Refs)
    BY <2>2 DEF CallGood
  <2>4. /\ DOMAIN call' = Calls /\ \A q \in Calls \ {p} : call'[q] = call[q]
        /\ DOMAIN d = CallFields /\ d.pc = "merkle"
        /\ \A f \in CallFields \ {"pc", "headerCount"} : d[f] = c[f]
    BY <2>1, <2>2, <2>3 DEF CallFields
  <2> HIDE DEF c, d
  <2>5. d.foreign = c.foreign /\ d.fetched = c.fetched /\ d.results = c.results
    BY <2>4 DEF CallFields
  <2>6. ObjsInv' /\ Refs' = Refs /\ \A o : Obj(o)' = Obj(o)
    BY <2>1, <2>2, ObjsUnchanged
  <2>7. ~d.foreign => /\ \A i \in DOMAIN d.results : d.results[i].txid \in TxidsOf(Head(c.batches))
                      /\ \A i \in DOMAIN d.fetched : objs'[d.fetched[i][1]][d.fetched[i][2]].txid \in TxidsOf(Head(c.batches))
    BY <2>1, <2>2, <2>5 DEF FetchGood, Obj
  <2>8. /\ \A f \in CallFields \ {"pc", "results", "fetched", "foreign", "headerCount"} : d[f] = c[f]
        /\ d.fetched \in Seq(Refs') /\ IsList(d.results) /\ \A i \in DOMAIN d.results : DOMAIN d.results[i] = EntryFields
        /\ \A o \in Refs : o \in Refs' /\ Obj(o)' = Obj(o)
        /\ d.pc \in {"verify", "merkle"} /\ (c.foreign => d.foreign)
    BY <2>2, <2>3, <2>4, <2>5, <2>6 DEF FetchGood
  <2> QED
    BY <1>1, <2>2, <2>4, <2>6, <2>7, <2>8, FetchStep DEF c, d
<1> QED
  BY <1>2, <1>3, <1>4

LEMMA EntryDomain ==
  ASSUME NEW p, NEW key, NEW t, NEW proof
  PROVE  DOMAIN Entry(p, key, t, proof) = EntryFields
BY DEF Entry, EntryFields

LEMMA BatchEntries ==
  ASSUME NEW plain, IsList(plain), \A i \in DOMAIN plain : DOMAIN plain[i] = EntryFields,
         NEW x, DOMAIN x = EntryFields, NEW results,
         results = plain \/ results = SubSeq(plain, 2, Len(plain)) \/ results = [plain EXCEPT ![1] = x]
  PROVE  IsList(results) /\ \A i \in DOMAIN results : DOMAIN results[i] = EntryFields
<1> DEFINE n == Len(plain)
           S == Range(plain)
<1>1. n \in Nat /\ DOMAIN plain = 1..n /\ plain \in Seq(S)
  BY ListFacts
<1>2. \A y \in S : DOMAIN y = EntryFields
  BY DEF Range
<1>3. CASE results = plain
  BY <1>3
<1>4. CASE results = SubSeq(plain, 2, Len(plain))
  <2> HIDE DEF S
  <2>1. results \in Seq(S)
    BY <1>1, <1>4, PartFacts
  <2>2. IsList(results) /\ Range(results) \subseteq S /\ \A i \in DOMAIN results : results[i] \in Range(results)
    BY <2>1, SeqIsList, ListFacts
  <2> QED
    BY <1>2, <2>2
<1>5. CASE results = [plain EXCEPT ![1] = x]
  <2> HIDE DEF n, S
  <2>1. DOMAIN results = 1..n /\ results = [i \in 1..n |-> results[i]] /\ \A i \in 1..n : results[i] \in {x, plain[i]}
    BY <1>1, <1>5
  <2>2. IsList(results)
    BY <1>1, <2>1, TableIsList
  <2> QED
    BY <1>1, <2>1, <2>2
<1> QED
  BY <1>3, <1>4, <1>5

LEMMA FetchBatchPreserves ==
  ASSUME ResolveInv, NEW p \in Calls, FetchBatch(p)
  PROVE  ResolveInv'
<1> DEFINE c == call[p]
           d == call'[p]
           ids == TxidsOf(Head(c.batches))
           keys == SetToSeq(ids)
           plain == [i \in DOMAIN keys |-> PlainEntry(p, keys[i])]
<1>1. /\ CallGood(c, p, Refs) /\ FetchGood(c) /\ ObjsInv /\ c.pc = "fetch" /\ c.pc \in Fetching /\ DOMAIN call = Calls
      /\ hub' = hub /\ cache' = cache /\ lock' = lock /\ objs' = objs
  BY DEF ResolveInv, Sound, FetchBatch, Stands, Fetching
<1>2. PICK results, x :
        /\ DOMAIN x = EntryFields
        /\ results = plain \/ results = SubSeq(plain, 2, Len(plain)) \/ results = [plain EXCEPT ![1] = x]
        /\ call' = [call EXCEPT ![p].results = results, ![p].fetched = <<>>,
                        ![p].foreign = @ \/ \E i \in DOMAIN results : results[i].txid \notin ids,
                        ![p].pc = "verify"]
  <2> DEFINE first == {[plain EXCEPT ![1] = Entry(p, keys[1], keys[1], proof)] :
                           proof \in Proofs(keys[1], plain[1].height) \cup {EmptyProof, BareProof}}
             other == {[plain EXCEPT ![1] = Entry(p, keys[1], t, plain[1].proof)] : t \in Tx \ {keys[1]}}
             same(r) == call' = [call EXCEPT ![p].results = r, ![p].fetched = <<>>,
                            ![p].foreign = @ \/ \E i \in DOMAIN r : r[i].txid \notin ids,
                            ![p].pc = "verify"]
  <2>1. \E r \in {plain} \cup ({SubSeq(plain, 2, Len(plain))} \cup first \cup other) : same(r)
    <3> HIDE DEF keys, plain
    <3> QED
      BY Zenon DEF FetchBatch, keys, plain
  <2> HIDE DEF same, first, other, keys, plain
  <2>2. PICK r \in {plain} \cup ({SubSeq(plain, 2, Len(plain))} \cup first \cup other) : same(r)
    BY <2>1
  <2>3. \E x : /\ DOMAIN x = EntryFields
               /\ r = plain \/ r = SubSeq(plain, 2, Len(plain)) \/ r = [plain EXCEPT ![1] = x]
    <3>1. CASE r \in {plain, SubSeq(plain, 2, Len(plain))}
      BY <3>1, EntryDomain
    <3>2. CASE r \in first
      <4>1. PICK proof : r = [plain EXCEPT ![1] = Entry(p, keys[1], keys[1], proof)]
        BY <3>2 DEF first
      <4> QED
        BY <4>1, EntryDomain
    <3>3. CASE r \in other
      <4>1. PICK t : r = [plain EXCEPT ![1] = Entry(p, keys[1], t, plain[1].proof)]
        BY <3>3 DEF other
      <4> QED
        BY <4>1, EntryDomain
    <3> QED
      BY <2>2, <3>1, <3>2, <3>3
  <2> QED
    BY <2>2, <2>3 DEF same
<1>3. IsList(keys)
  <2>1. IsList(c.batches) /\ c.batches # <<>> /\ \A i \in DOMAIN c.batches : IsList(c.batches[i])
    BY <1>1 DEF FetchGood
  <2> DEFINE b == c.batches
  <2>2. b \in Seq(Range(b)) /\ b # <<>> /\ \A i \in DOMAIN b : IsList(b[i])
    BY <2>1 DEF IsList
  <2> HIDE DEF b, c
  <2>3. 1 \in DOMAIN b /\ Head(b) = b[1]
    BY <2>2
  <2>4. IsFiniteSet(TxidsOf(Head(b)))
    BY <2>2, <2>3, TxidFacts
  <2> QED
    BY <2>4, ListedFacts DEF b
<1>4. IsList(plain) /\ \A i \in DOMAIN plain : DOMAIN plain[i] = EntryFields
  <2> DEFINE n == Len(keys)
  <2>1. n \in Nat /\ DOMAIN keys = 1..n
    BY <1>3, ListFacts
  <2>2. \A t : DOMAIN PlainEntry(p, t) = EntryFields
    BY EntryDomain DEF PlainEntry
  <2> HIDE DEF n, keys
  <2>3. /\ DOMAIN plain = 1..n /\ plain = [i \in 1..n |-> plain[i]] /\ \A i \in 1..n : DOMAIN plain[i] = EntryFields
    BY <2>1, <2>2
  <2> HIDE DEF plain
  <2> QED
    BY <2>1, <2>3, TableIsList
<1> HIDE DEF keys, plain
<1>5. IsList(results) /\ \A i \in DOMAIN results : DOMAIN results[i] = EntryFields
  BY <1>2, <1>4, BatchEntries
<1>6. DOMAIN c = CallFields
  BY <1>1 DEF CallGood
<1> DEFINE strange == \E i \in DOMAIN results : results[i].txid \notin ids
<1>7. /\ DOMAIN call' = Calls /\ \A q \in Calls \ {p} : call'[q] = call[q]
      /\ DOMAIN d = CallFields /\ d.pc = "verify" /\ d.results = results /\ d.fetched = <<>>
      /\ d.foreign = (c.foreign \/ strange)
      /\ \A f \in CallFields \ {"pc", "results", "fetched", "foreign"} : d[f] = c[f]
  <2> HIDE DEF strange
  <2>1. call' = [call EXCEPT ![p].results = results, ![p].fetched = <<>>, ![p].foreign = @ \/ strange, ![p].pc = "verify"]
    BY <1>2 DEF strange
  <2> QED
    BY <1>1, <1>6, <2>1 DEF CallFields
<1> HIDE DEF c, d, ids
<1>8. ObjsInv' /\ Refs' = Refs /\ \A o : Obj(o)' = Obj(o)
  BY <1>1, ObjsUnchanged
<1>9. ~d.foreign => \A i \in DOMAIN d.results : d.results[i].txid \in ids
  BY <1>7
<1> HIDE DEF strange
<1>10. /\ \A f \in CallFields \ {"pc", "results", "fetched", "foreign", "headerCount"} : d[f] = c[f]
       /\ d.fetched \in Seq(Refs') /\ IsList(d.results) /\ \A i \in DOMAIN d.results : DOMAIN d.results[i] = EntryFields
       /\ \A o \in Refs : o \in Refs' /\ Obj(o)' = Obj(o)
       /\ d.pc \in {"verify", "merkle"} /\ (c.foreign => d.foreign)
  <2>1. \A S : <<>> \in Seq(S)
    OBVIOUS
  <2> QED
    BY <1>5, <1>7, <1>8, <2>1
<1>11. ~d.foreign => /\ \A i \in DOMAIN d.results : d.results[i].txid \in TxidsOf(Head(c.batches))
                     /\ \A i \in DOMAIN d.fetched : objs'[d.fetched[i][1]][d.fetched[i][2]].txid \in TxidsOf(Head(c.batches))
  BY <1>7, <1>9 DEF ids
<1> QED
  BY <1>1, <1>7, <1>8, <1>10, <1>11, FetchStep DEF c, d

LEMMA TouchFacts ==
  ASSUME NEW p \in Calls, DOMAIN call = Calls, NEW x, NEW ids, call' = Touch([call EXCEPT ![p] = x], p, ids)
  PROVE  DOMAIN call' = Calls /\ call'[p] = x /\ \A q \in Calls \ {p} : Bystander(q, ids)
<1> DEFINE c == [call EXCEPT ![p] = x]
<1>1. c[p] = x /\ \A q \in Calls \ {p} : c[q] = call[q]
  OBVIOUS
<1> HIDE DEF c
<1>2. call' = [q \in Calls |-> IF q # p /\ c[q].pc \in Fetching
                               THEN [c[q] EXCEPT !.since = @ \cup ids] ELSE c[q]]
  BY DEF Touch, c
<1>3. \A q \in Calls \ {p} : call'[q] = IF call[q].pc \in Fetching THEN [call[q] EXCEPT !.since = @ \cup ids] ELSE call[q]
  BY <1>1, <1>2
<1> QED
  BY <1>1, <1>2, <1>3 DEF Bystander

\* The entries in the hands of p are as good after a step that leaves the objects.
LEMMA ItemsStay ==
  ASSUME NEW p \in Calls, HeldBy(call[p], p), objs' = objs, lock' = lock,
         call'[p].items = call[p].items, call'[p].pc # "copy"
  PROVE  HeldBy(call[p], p)'
<1> DEFINE c == call[p]
           d == call'[p]
<1>1. IsList(c.items) /\ (\A i \in DOMAIN c.items : ItemGood(c.items[i], p)) /\ (c.items # <<>> => lock = p)
  BY DEF HeldBy
<1> HIDE DEF c
<1>2. \A i \in DOMAIN c.items : (ItemGood(call[p].items[i], p))'
  <2>1. Refs' = Refs
    BY DEF Refs
  <2>2. \A i \in DOMAIN c.items :
            /\ DOMAIN c.items[i] = ItemFields
            /\ c.items[i].kind = "output" =>
                  /\ c.items[i].meta[1] = p
                  /\ c.items[i].described => c.items[i].chan \in Refs /\ objs[c.items[i].chan[1]][c.items[i].chan[2]].meta[1] = p
    BY <1>1 DEF ItemGood, Obj
  <2> QED
    BY <2>1, <2>2 DEF ItemGood, Obj, c
<1> QED
  BY <1>1, <1>2 DEF HeldBy, c

LEMMA RestFacts ==
  ASSUME NEW b, IsList(b), b # <<>>, \A i \in DOMAIN b : IsList(b[i])
  PROVE  /\ IsList(Tail(b)) /\ \A i \in DOMAIN Tail(b) : IsList(Tail(b)[i])
         /\ \A i \in DOMAIN Tail(b) : \E j \in DOMAIN b : Tail(b)[i] = b[j]
         /\ 1 \in DOMAIN b /\ Head(b) = b[1]
<1>1. b \in Seq(Range(b)) /\ Len(b) \in Nat /\ DOMAIN b = 1..Len(b)
  BY ListFacts
<1>2. /\ Tail(b) \in Seq(Range(b)) /\ Len(Tail(b)) = Len(b) - 1 /\ Len(b) >= 1 /\ Head(b) = b[1]
      /\ \A i \in 1..Len(b) - 1 : Tail(b)[i] = b[i + 1]
  BY <1>1
<1>3. IsList(Tail(b)) /\ DOMAIN Tail(b) = 1..Len(b) - 1
  BY <1>2, SeqIsList
<1>4. \A i \in 1..Len(b) - 1 : i + 1 \in DOMAIN b
  BY <1>1
<1>5. \A i \in DOMAIN Tail(b) : \E j \in DOMAIN b : Tail(b)[i] = b[j]
  BY <1>2, <1>3, <1>4
<1> QED
  BY <1>1, <1>2, <1>3, <1>5

LEMMA StorePreserves ==
  ASSUME ResolveInv, NEW p \in Calls, Store(p)
  PROVE  ResolveInv'
<1> DEFINE c == call[p]
           d == call'[p]
           order == BatchOrder(c.fetched)
           stored == storeBatch(order)
           rest == Tail(c.batches)
           ids == {Obj(order[i]).txid : i \in DOMAIN order}
           new == [c EXCEPT !.batches = rest, !.fetched = <<>>,
                            !.txs = IF stored.bad THEN c.txs ELSE c.txs \o order,
                            !.err = IF stored.bad THEN "cache" ELSE c.err,
                            !.headerCount = 0,
                            !.pc = IF stored.bad THEN "failed"
                                   ELSE IF rest = <<>> THEN "inflate" ELSE "fetch"]
<1>1. /\ CallGood(c, p, Refs) /\ HeldBy(c, p) /\ FetchGood(c) /\ ObjsInv /\ CacheGood(cache, Refs)
      /\ c.pc = "verify" /\ c.pc \in Fetching /\ DOMAIN call = Calls /\ LockReleased /\ c.results = <<>>
      /\ hub' = hub /\ lock' = lock /\ objs' = objs
  BY DEF ResolveInv, Sound, Store, Stands, Fetching
<1>2. cache' = stored.cache /\ call' = Touch([call EXCEPT ![p] = new], p, ids)
  <2> HIDE DEF order, stored, rest, ids
  <2> QED
    BY Zenon DEF Store, order, stored, rest, ids
<1> HIDE DEF new
<1>3. DOMAIN call' = Calls /\ d = new /\ \A q \in Calls \ {p} : Bystander(q, ids)
  <2> HIDE DEF ids
  <2> QED
    BY <1>1, <1>2, TouchFacts
<1>4. DOMAIN c = CallFields /\ c.fetched \in Seq(Refs) /\ c.txs \in Seq(Refs \cup {NoObj})
  BY <1>1 DEF CallGood
<1>5. /\ order \in Seq(Refs) /\ order \in Seq(Refs \cup {NoObj})
      /\ \A k \in DOMAIN order : \E i \in DOMAIN c.fetched : order[k] = c.fetched[i]
  <2> HIDE DEF c
  <2>1. /\ BatchOrder(c.fetched) \in Seq(Refs)
        /\ \A k \in DOMAIN BatchOrder(c.fetched) : \E i \in DOMAIN c.fetched : BatchOrder(c.fetched)[k] = c.fetched[i]
    BY <1>4, OrderFacts
  <2>2. Refs \subseteq Refs \cup {NoObj}
    OBVIOUS
  <2> QED
    BY <2>1, <2>2
<1> HIDE DEF order
<1>6. /\ CacheGood(stored.cache, Refs) /\ stored.bad \in BOOLEAN
      /\ (\A i \in DOMAIN order : Cached(cache, Obj(order[i]).txid)) => ~stored.bad
      /\ \A V, U : Keeps(cache, V, U) /\ (\A i \in DOMAIN order : Obj(order[i]).txid \in U) => Keeps(stored.cache, V, U)
  BY <1>1, <1>5, StoreFacts
<1> HIDE DEF stored, c
<1>7. /\ DOMAIN d = CallFields /\ d.batches = rest /\ d.fetched = <<>>
      /\ d.txs = IF stored.bad THEN c.txs ELSE c.txs \o order
      /\ d.pc = IF stored.bad THEN "failed" ELSE IF rest = <<>> THEN "inflate" ELSE "fetch"
      /\ \A f \in CallFields \ {"batches", "fetched", "txs", "err", "headerCount", "pc"} : d[f] = c[f]
  <2> HIDE DEF rest, d
  <2> QED
    BY <1>3, <1>4 DEF new, CallFields
<1> HIDE DEF d
<1>8. /\ d.job = c.job /\ d.query = c.query /\ d.answer = c.answer /\ d.page = c.page /\ d.items = c.items
      /\ d.since = c.since /\ d.cleared = c.cleared /\ d.foreign = c.foreign /\ d.results = <<>>
  BY <1>1, <1>7 DEF CallFields
<1>9. /\ IsList(c.batches) /\ c.batches # <<>> /\ IsFiniteSet(c.since) /\ (\A i \in DOMAIN c.batches : IsList(c.batches[i]))
      /\ Needed(c) \subseteq c.since
      /\ ~c.foreign => \A i \in DOMAIN c.fetched : Obj(c.fetched[i]).txid \in TxidsOf(Head(c.batches))
      /\ ~c.foreign /\ ~c.cleared /\ Cardinality(c.since) <= Capacity => Keeps(cache, Needed(c), c.since)
  BY <1>1 DEF FetchGood
<1>10. /\ IsList(rest) /\ (\A i \in DOMAIN rest : IsList(rest[i]))
       /\ (\A i \in DOMAIN rest : \E j \in DOMAIN c.batches : rest[i] = c.batches[j])
       /\ 1 \in DOMAIN c.batches /\ Head(c.batches) = c.batches[1]
  BY <1>9, RestFacts
<1> HIDE DEF rest
<1>11. TxidsOf(Head(c.batches)) \subseteq Needed(c) /\ Needed(d) \subseteq Needed(c)
  BY <1>7, <1>10 DEF Needed
<1>12. ASSUME ~c.foreign PROVE \A i \in DOMAIN order : Obj(order[i]).txid \in Needed(c)
  <2> SUFFICES ASSUME NEW k \in DOMAIN order PROVE Obj(order[k]).txid \in Needed(c)
    OBVIOUS
  <2>1. PICK i \in DOMAIN c.fetched : order[k] = c.fetched[i]
    BY <1>5
  <2> QED
    BY <1>9, <1>11, <1>12, <2>1
<1>13. ASSUME ~c.foreign, ~c.cleared, Cardinality(c.since) <= Capacity
       PROVE  ~stored.bad /\ Keeps(cache', Needed(d), c.since)
  <2>1. Keeps(cache, Needed(c), c.since) /\ \A i \in DOMAIN order : Obj(order[i]).txid \in Needed(c)
    BY <1>9, <1>12, <1>13
  <2>2. \A i \in DOMAIN order : Cached(cache, Obj(order[i]).txid) /\ Obj(order[i]).txid \in c.since
    BY <1>9, <2>1 DEF Keeps
  <2>3. Keeps(stored.cache, Needed(c), c.since)
    BY <1>6, <2>1, <2>2
  <2>4. Keeps(cache', Needed(c), c.since)
    BY <1>2, <2>3
  <2> QED
    BY <1>6, <1>11, <2>2, <2>4 DEF Keeps
<1>14. CallGood(d, p, Refs)
  <2>1. d.txs \in Seq(Refs \cup {NoObj})
    <3> DEFINE R == Refs \cup {NoObj}
    <3>1. c.txs \in Seq(R) /\ order \in Seq(R)
      BY <1>4, <1>5
    <3> HIDE DEF R
    <3>2. c.txs \o order \in Seq(R)
      BY <3>1
    <3> QED
      BY <1>7, <3>1, <3>2 DEF R
  <2>2. d.pc \notin {"finish", "done"} /\ c.pc # "finish" /\ d.fetched \in Seq(Refs)
    BY <1>1, <1>7
  <2> QED
    BY <1>1, <1>7, <1>8, <2>1, <2>2 DEF CallGood
<1>15. ObjsInv' /\ Refs' = Refs /\ \A o : Obj(o)' = Obj(o)
  BY <1>1, ObjsUnchanged
<1>16. CallGood(call[p], p, Refs)'
  BY <1>14, <1>15 DEF d
<1>17. HeldBy(call[p], p)'
  <2>1. d.pc # "copy" /\ HeldBy(call[p], p) /\ call'[p].items = call[p].items
    BY <1>1, <1>7, <1>8 DEF c, d
  <2> QED
    BY <1>1, <2>1, ItemsStay DEF d
<1>18. Explained(call[p])'
  <2>1. Cardinality(c.since) \in Nat /\ Capacity \in Nat
    BY <1>9, FS_CardinalityType, ResolveAssumption
  <2>2. stored.bad => c.cleared \/ c.foreign \/ Cardinality(c.since) > Capacity
    BY <1>13, <2>1
  <2>3. Explained(d)
    BY <1>7, <1>8, <2>2 DEF Explained
  <2> QED
    BY <2>3 DEF Explained, d
<1>19. d.pc \in Fetching => FetchGood(call[p])'
  <2> SUFFICES ASSUME d.pc \in Fetching PROVE FetchGood(call[p])'
    OBVIOUS
  <2>1. d.pc = "fetch" /\ rest # <<>>
    BY <1>7 DEF Fetching
  <2>2. Needed(d) \subseteq d.since
    BY <1>8, <1>9, <1>11
  <2>3. ~d.foreign /\ ~d.cleared /\ Cardinality(d.since) <= Capacity => Keeps(cache', Needed(d), d.since)
    BY <1>8, <1>13
  <2>4. IsList(d.results) /\ \A i \in DOMAIN d.results : DOMAIN d.results[i] = EntryFields
    BY <1>8 DEF IsList
  <2> QED
    BY <1>7, <1>8, <1>9, <1>10, <2>1, <2>2, <2>3, <2>4 DEF FetchGood, d
<1>20. IsFiniteSet(ids)
  <2> DEFINE f == [i \in DOMAIN order |-> Obj(order[i]).txid]
             n == Len(order)
  <2>1. n \in Nat /\ DOMAIN order = 1..n
    BY <1>5
  <2> HIDE DEF n
  <2>2. ids = {f[i] : i \in 1..n}
    BY <2>1
  <2> HIDE DEF f, ids
  <2> QED
    BY <2>1, <2>2, ImageFinite
<1>21. \A i \in DOMAIN order : Obj(order[i]).txid \in ids
  OBVIOUS
<1> HIDE DEF ids
<1>22. \A V, U : /\ Keeps(cache, V, U) /\ ids \subseteq U /\ IsFiniteSet(U) /\ Cardinality(U) <= Capacity
                 => Keeps(cache', V, U)
  BY <1>2, <1>6, <1>21
<1>23. CacheGood(cache, Refs)'
  BY <1>2, <1>6, <1>15
<1>24. /\ lock' = p => call'[p].pc \notin {"finish", "done"}
       /\ call'[p].pc \in Fetching => FetchGood(call[p])'
       /\ \A o \in Refs : o \in Refs' /\ Obj(o)'.txid = Obj(o).txid
       /\ \A q \in Calls \ {p} : lock = q => \A o \in Refs : Obj(o)'.meta = Obj(o).meta
       /\ lock' = lock \/ {lock, lock'} \subseteq {p, NoCall}
  BY <1>1, <1>7, <1>15, <1>19 DEF d
<1> QED
  BY <1>1, <1>3, <1>15, <1>16, <1>17, <1>18, <1>20, <1>22, <1>23, <1>24, StepPreserves

LEMMA PlannedNeeds ==
  ASSUME NEW Q, NEW c, c.batches \in Seq(Seq(Q)), NEW ids, \A r \in Q : r.txid \in ids
  PROVE  /\ Needed(c) \subseteq ids
         /\ IsList(c.batches) /\ \A i \in DOMAIN c.batches : IsList(c.batches[i])
<1> DEFINE b == c.batches
<1> HIDE DEF b
<1>1. b \in Seq(Seq(Q))
  BY DEF b
<1>2. IsList(b) /\ \A i \in DOMAIN b : b[i] \in Seq(Q)
  BY <1>1, SeqIsList
<1>3. \A i \in DOMAIN b : IsList(b[i]) /\ \A k \in DOMAIN b[i] : b[i][k] \in Q
  BY <1>2, SeqIsList
<1>4. \A i \in DOMAIN b : TxidsOf(b[i]) \subseteq ids
  BY <1>3 DEF TxidsOf
<1> QED
  BY <1>2, <1>3, <1>4 DEF Needed, b

LEMMA QueryPreserves ==
  ASSUME ResolveInv, NEW p \in Calls, Query(p)
  PROVE  ResolveInv'
<1> DEFINE c == call[p]
           d == call'[p]
           txs == Queries(c.job)[c.query]
<1>1. /\ CallGood(c, p, Refs) /\ HeldBy(c, p) /\ ObjsInv /\ CacheGood(cache, Refs)
      /\ c.pc = "query" /\ DOMAIN call = Calls /\ hub \in DOMAIN Chains
      /\ hub' = hub /\ lock' = lock /\ objs' = objs
  BY DEF ResolveInv, Sound, Query, Stands
<1>2. DOMAIN c = CallFields /\ c.job \in Jobs /\ c.query \in 1..Len(Queries(c.job)) /\ c.fetched \in Seq(Refs)
  BY <1>1 DEF CallGood
<1>3. txs \in Seq(Tx)
  <2> DEFINE s == Queries(c.job)
             k == c.query
  <2>1. s \in Seq(Seq(Tx)) /\ k \in 1..Len(s)
    BY <1>2, QueryFacts
  <2> HIDE DEF s, k
  <2> QED
    BY <2>1 DEF s, k
<1> DEFINE NewCall(answer, planned, ids) ==
             [c EXCEPT !.answer = answer,
                       !.txs = planned.txs,
                       !.batches = PlanTransactionFetchBatches(planned.misses),
                       !.since = ids, !.cleared = FALSE, !.foreign = FALSE,
                       !.err = IF planned.bad THEN "cache" ELSE "none",
                       !.pc = IF planned.bad THEN "failed"
                              ELSE IF planned.misses = <<>> THEN "inflate"
                              ELSE "fetch"]
<1>4. PICK answer \in {PlainAnswer(txs)} \cup OddAnswers(txs) :
        LET ordered == ByHeight(TransactionRequests(answer))
            planned == plan(ordered)
            ids     == TxidsOf(ordered)
        IN  cache' = planned.cache /\ call' = Touch([call EXCEPT ![p] = NewCall(answer, planned, ids)], p, ids)
  <2> QED
    BY Zenon DEF Query
<1> DEFINE ordered == ByHeight(TransactionRequests(answer))
           planned == plan(ordered)
           ids == TxidsOf(ordered)
           new == NewCall(answer, planned, ids)
<1>5. cache' = planned.cache /\ call' = Touch([call EXCEPT ![p] = new], p, ids)
  <2> HIDE DEF NewCall
  <2> QED
    BY <1>4
<1> HIDE DEF txs
<1>6. AnswerGood(answer)
  BY <1>1, <1>3, AnswerFacts
<1>7. IsList(ordered) /\ IsFiniteSet(ids) /\ \A r \in Range(ordered) : r.height \in Int
  BY <1>6, RequestFacts
<1>8. \A r \in Range(ordered) : r.txid \in ids
  <2> HIDE DEF ordered
  <2> QED
    BY DEF Range, TxidsOf
<1> HIDE DEF ordered
<1>9. /\ CacheGood(planned.cache, Refs) /\ planned.txs \in Seq(Refs \cup {NoObj}) /\ planned.misses \in Seq(Range(ordered))
      /\ \A V, U : /\ Keeps(cache, V, U) /\ ids \subseteq U /\ IsFiniteSet(U) /\ Cardinality(U) <= Capacity
                   => ~planned.bad /\ Keeps(planned.cache, V \cup ids, U)
  BY <1>1, <1>7, PlanFacts
<1> HIDE DEF planned
<1> DEFINE batches == PlanTransactionFetchBatches(planned.misses)
<1>10. batches \in Seq(Seq(Range(ordered))) /\ (planned.misses # <<>> => batches # <<>>)
  BY <1>7, <1>9, BatchFacts
<1> HIDE DEF ids, batches
<1>11. DOMAIN call' = Calls /\ d = new /\ \A q \in Calls \ {p} : Bystander(q, ids)
  <2> HIDE DEF new
  <2> QED
    BY <1>1, <1>5, TouchFacts
<1> HIDE DEF c, d
<1>12. /\ DOMAIN d = CallFields /\ d.batches = batches /\ d.answer = answer /\ d.txs = planned.txs
       /\ d.since = ids /\ d.foreign = FALSE /\ d.cleared = FALSE
       /\ d.pc = IF planned.bad THEN "failed" ELSE IF planned.misses = <<>> THEN "inflate" ELSE "fetch"
       /\ \A f \in CallFields \ {"answer", "batches", "txs", "since", "cleared", "foreign", "err", "pc"} : d[f] = c[f]
  BY <1>2, <1>11 DEF CallFields, batches
<1> HIDE DEF new, NewCall
<1>13. /\ d.job = c.job /\ d.query = c.query /\ d.page = c.page /\ d.items = c.items /\ d.fetched = c.fetched
  BY <1>12 DEF CallFields
<1>14. d.pc \in {"failed", "inflate", "fetch"}
  BY <1>12
<1>15. ASSUME Cardinality(ids) <= Capacity PROVE ~planned.bad /\ Keeps(cache', ids, ids)
  <2>1. Keeps(cache, {}, ids)
    BY DEF Keeps
  <2>2. ~planned.bad /\ Keeps(planned.cache, {} \cup ids, ids)
    BY <1>7, <1>9, <1>15, <2>1
  <2>3. {} \cup ids = ids
    OBVIOUS
  <2> QED
    BY <1>5, <2>2, <2>3
<1>16. CallGood(d, p, Refs)
  <2>1. d.pc \notin {"finish", "done"} /\ c.pc # "finish"
    BY <1>1, <1>14
  <2> QED
    BY <1>1, <1>6, <1>9, <1>12, <1>13, <2>1 DEF CallGood
<1>17. ObjsInv' /\ Refs' = Refs /\ \A o : Obj(o)' = Obj(o)
  BY <1>1, ObjsUnchanged
<1>18. CallGood(call[p], p, Refs)'
  BY <1>16, <1>17 DEF d
<1>19. HeldBy(call[p], p)'
  <2>1. d.pc # "copy" /\ HeldBy(call[p], p) /\ call'[p].items = call[p].items
    BY <1>1, <1>14, <1>13 DEF c, d
  <2> QED
    BY <1>1, <2>1, ItemsStay DEF d
<1>20. Explained(call[p])'
  <2>1. Cardinality(ids) \in Nat /\ Capacity \in Nat
    BY <1>7, FS_CardinalityType, ResolveAssumption
  <2>2. planned.bad => Cardinality(ids) > Capacity
    BY <1>15, <2>1
  <2>3. Explained(d)
    BY <1>12, <2>2 DEF Explained
  <2> QED
    BY <2>3 DEF Explained, d
<1>21. d.pc \in Fetching => FetchGood(call[p])'
  <2> SUFFICES ASSUME d.pc \in Fetching PROVE FetchGood(call[p])'
    OBVIOUS
  <2>1. d.pc = "fetch" /\ batches # <<>>
    BY <1>10, <1>12 DEF Fetching
  <2>2. Needed(d) \subseteq ids /\ IsList(d.batches) /\ \A i \in DOMAIN d.batches : IsList(d.batches[i])
    BY <1>8, <1>10, <1>12, PlannedNeeds
  <2>3. Cardinality(d.since) <= Capacity => Keeps(cache', Needed(d), d.since)
    BY <1>12, <1>15, <2>2 DEF Keeps
  <2> QED
    BY <1>7, <1>12, <2>1, <2>2, <2>3 DEF FetchGood, d
<1>22. \A V, U : /\ Keeps(cache, V, U) /\ ids \subseteq U /\ IsFiniteSet(U) /\ Cardinality(U) <= Capacity
                 => Keeps(cache', V, U)
  <2> SUFFICES ASSUME NEW V, NEW U, Keeps(cache, V, U) /\ ids \subseteq U /\ IsFiniteSet(U) /\ Cardinality(U) <= Capacity
               PROVE  Keeps(cache', V, U)
    OBVIOUS
  <2>1. Keeps(cache', V \cup ids, U)
    BY <1>5, <1>9
  <2> QED
    BY <2>1 DEF Keeps
<1>23. CacheGood(cache, Refs)'
  BY <1>5, <1>9, <1>17
<1>24. /\ lock' = p => call'[p].pc \notin {"finish", "done"}
       /\ call'[p].pc \in Fetching => FetchGood(call[p])'
       /\ \A o \in Refs : o \in Refs' /\ Obj(o)'.txid = Obj(o).txid
       /\ \A q \in Calls \ {p} : lock = q => \A o \in Refs : Obj(o)'.meta = Obj(o).meta
       /\ lock' = lock \/ {lock, lock'} \subseteq {p, NoCall}
  BY <1>1, <1>14, <1>17, <1>21 DEF d
<1> QED
  BY <1>1, <1>7, <1>11, <1>17, <1>18, <1>19, <1>20, <1>22, <1>23, <1>24, StepPreserves

\* What happens around the calls: the chain, the headers, an emptied cache.
LEMMA AroundPreserves ==
  ASSUME ResolveInv, objs' = objs, lock' = lock, hub' \in DOMAIN Chains, DOMAIN call' = Calls,
         \A q \in Calls : /\ DOMAIN call'[q] = CallFields
                          /\ \A f \in CallFields \ {"cleared"} : call'[q][f] = call[q][f]
                          /\ call[q].cleared => call'[q].cleared,
         \/ cache' = cache
         \/ cache' = <<>> /\ \A q \in Calls : call[q].pc \in Fetching => call'[q].cleared
  PROVE  ResolveInv'
<1>1. /\ ObjsInv /\ CacheGood(cache, Refs) /\ DOMAIN call = Calls
      /\ lock \in Calls \cup {NoCall} /\ LockReleased
  BY DEF ResolveInv
<1>2. ObjsInv' /\ Refs' = Refs /\ \A o : Obj(o)' = Obj(o)
  BY <1>1, ObjsUnchanged
<1>3. CacheGood(cache, Refs)'
  <2>1. CASE cache' = cache
    BY <1>1, <1>2, <2>1
  <2>2. CASE cache' = <<>>
    <3>1. IsList(<<>>) /\ Len(<<>>) = 0 /\ DOMAIN <<>> = {}
      BY DEF IsList, Range
    <3>2. Capacity \in Nat
      BY ResolveAssumption
    <3> QED
      BY <2>2, <3>1, <3>2 DEF CacheGood
  <2> QED
    BY <2>1, <2>2
<1>4. ASSUME NEW q \in Calls PROVE Sound(q)'
  <2> DEFINE c == call[q]
             d == call'[q]
  <2>1. /\ CallGood(c, q, Refs) /\ HeldBy(c, q) /\ Explained(c) /\ (c.pc \in Fetching => FetchGood(c))
    BY DEF ResolveInv, Sound
  <2>2. /\ DOMAIN d = CallFields /\ (\A f \in CallFields \ {"cleared"} : d[f] = c[f]) /\ (c.cleared => d.cleared)
        /\ cache' = cache \/ (c.pc \in Fetching => d.cleared)
    OBVIOUS
  <2> HIDE DEF c, d
  <2>3. /\ d.pc = c.pc /\ d.items = c.items /\ d.since = c.since /\ d.foreign = c.foreign /\ d.batches = c.batches
        /\ d.results = c.results /\ d.fetched = c.fetched
    BY <2>2 DEF CallFields
  <2>4. CallGood(d, q, Refs)
    BY <2>1, <2>2, CallMoved
  <2>5. CallGood(call[q], q, Refs)'
    BY <1>2, <2>4 DEF d
  <2>6. HeldBy(call[q], q)'
    <3>1. IsList(c.items) /\ (\A i \in DOMAIN c.items : ItemGood(c.items[i], q)) /\ (c.items # <<>> \/ c.pc = "copy" => lock = q)
      BY <2>1 DEF HeldBy
    <3> DEFINE Fine(x) ==
                 /\ DOMAIN x = ItemFields
                 /\ x.kind = "output" => /\ x.meta[1] = q
                                         /\ x.described => x.chan \in Refs' /\ objs'[x.chan[1]][x.chan[2]].meta[1] = q
    <3>2. ASSUME NEW x, ItemGood(x, q) PROVE Fine(x)
      BY <1>2, <3>2 DEF ItemGood, Obj
    <3> HIDE DEF Fine
    <3>4. \A i \in DOMAIN c.items : Fine(c.items[i])
      BY <3>1, <3>2
    <3>5. \A i \in DOMAIN d.items : Fine(d.items[i])
      BY <2>3, <3>4
    <3>3. (\A i \in DOMAIN call[q].items : ItemGood(call[q].items[i], q))'
      BY <3>5 DEF Fine, ItemGood, Obj, d
    <3> QED
      BY <2>3, <3>1, <3>3 DEF HeldBy, d
  <2>7. Explained(call[q])'
    <3>1. Explained(d)
      BY <2>1, <2>2, <2>3 DEF Explained
    <3> QED
      BY <3>1 DEF Explained, d
  <2>8. d.pc \in Fetching => FetchGood(call[q])'
    <3> SUFFICES ASSUME d.pc \in Fetching PROVE FetchGood(call[q])'
      OBVIOUS
    <3>1. Needed(d) = Needed(c) /\ FetchGood(c)
      BY <2>1, <2>3 DEF Needed
    <3>2. ~d.foreign /\ ~d.cleared /\ Cardinality(d.since) <= Capacity => Keeps(cache', Needed(d), d.since)
      BY <2>2, <2>3, <3>1 DEF FetchGood
    <3>3. /\ IsList(d.batches) /\ d.batches # <<>> /\ IsFiniteSet(d.since) /\ (\A i \in DOMAIN d.batches : IsList(d.batches[i]))
          /\ Needed(d) \subseteq d.since
          /\ d.pc # "fetch" =>
                IsList(d.results) /\ \A i \in DOMAIN d.results : DOMAIN d.results[i] = EntryFields
      BY <2>3, <3>1 DEF FetchGood
    <3>4. ~d.foreign /\ d.pc # "fetch" =>
             /\ \A i \in DOMAIN d.results : d.results[i].txid \in TxidsOf(Head(d.batches))
             /\ \A i \in DOMAIN d.fetched : objs'[d.fetched[i][1]][d.fetched[i][2]].txid \in TxidsOf(Head(d.batches))
      BY <2>3, <3>1 DEF FetchGood, Obj
    <3> QED
      BY <3>2, <3>3, <3>4 DEF FetchGood, Obj, d
  <2> QED
    BY <2>5, <2>6, <2>7, <2>8 DEF Sound, d
<1>5. LockReleased'
  <2>1. lock # NoCall => call'[lock].pc = call[lock].pc
    BY <1>1 DEF CallFields
  <2> QED
    BY <1>1, <2>1 DEF LockReleased
<1> QED
  BY <1>1, <1>2, <1>3, <1>4, <1>5 DEF ResolveInv

LEMMA RejectPreserves ==
  ASSUME ResolveInv, Reject
  PROVE  ResolveInv'
<1>1. /\ DOMAIN call = Calls /\ hub \in DOMAIN Chains /\ \A q \in Calls : DOMAIN call[q] = CallFields
  BY DEF ResolveInv, Sound, CallGood
<1>2. /\ cache' = <<>> /\ objs' = objs /\ lock' = lock /\ hub' = hub
      /\ call' = [p \in Calls |-> [call[p] EXCEPT !.cleared = @ \/ call[p].pc \in Fetching]]
  BY DEF Reject
<1>3. ASSUME NEW q \in Calls
      PROVE  /\ DOMAIN call'[q] = CallFields
             /\ \A f \in CallFields \ {"cleared"} : call'[q][f] = call[q][f]
             /\ call[q].cleared => call'[q].cleared
             /\ call[q].pc \in Fetching => call'[q].cleared
  <2> DEFINE c == call[q]
             b == c.pc \in Fetching
  <2>1. call'[q] = [c EXCEPT !.cleared = @ \/ b] /\ DOMAIN c = CallFields
    BY <1>1, <1>2
  <2> HIDE DEF c, b
  <2>2. /\ DOMAIN call'[q] = CallFields /\ \A f \in CallFields \ {"cleared"} : call'[q][f] = c[f]
        /\ call'[q].cleared = (c.cleared \/ b)
    BY <2>1 DEF CallFields
  <2> QED
    BY <2>2 DEF c, b
<1>4. DOMAIN call' = Calls
  BY <1>2
<1> QED
  BY <1>1, <1>2, <1>3, <1>4, AroundPreserves

LEMMA QuietPreserves ==
  ASSUME ResolveInv, UNCHANGED <<cache, objs, lock, call>>, hub' \in DOMAIN Chains
  PROVE  ResolveInv'
<1>1. /\ DOMAIN call = Calls /\ \A q \in Calls : DOMAIN call[q] = CallFields
  BY DEF ResolveInv, Sound, CallGood
<1>2. cache' = cache /\ objs' = objs /\ lock' = lock /\ call' = call
  OBVIOUS
<1> QED
  BY <1>1, <1>2, AroundPreserves

LEMMA InitSound ==
  ASSUME ResolveInit
  PROVE  ResolveInv
<1>1. PICK jobs \in Scenarios : call = [p \in Calls |-> Idle(jobs[p])]
  BY DEF ResolveInit
<1>2. \A p \in Calls : jobs[p] \in Jobs
  BY ClaimsAssumption
<1>3. IsList(<<>>) /\ Len(<<>>) = 0 /\ DOMAIN <<>> = {} /\ Capacity \in Nat
  BY ResolveAssumption DEF IsList, Range
<1>4. ObjsInv /\ CacheGood(cache, Refs)
  BY <1>3 DEF ResolveInit, ObjsInv, CacheGood
<1>5. hub \in DOMAIN Chains /\ lock = NoCall /\ NoCall \notin Calls
  BY ClaimsAssumption, ResolveAssumption DEF ResolveInit
<1>6. ASSUME NEW p \in Calls PROVE Sound(p)
  <2> DEFINE c == call[p]
             job == jobs[p]
  <2>1. c = Idle(job) /\ job \in Jobs
    BY <1>1, <1>2
  <2> HIDE DEF c, job
  <2>2. /\ DOMAIN c = CallFields /\ c.job = job /\ c.pc = "query" /\ c.query = 1
        /\ c.answer = [txos |-> <<>>, extra |-> <<>>, blocked |-> <<>>]
        /\ c.txs = <<>> /\ c.fetched = <<>> /\ c.items = <<>> /\ c.page = <<>>
    BY <2>1 DEF Idle, CallFields
  <2>3. /\ Len(Queries(job)) \in Nat /\ Len(Queries(job)) >= 1 /\ UrlQueries(job) \in Nat /\ UrlQueries(job) >= 1
    BY <2>1, QueryFacts
  <2>4. c.query \in 1..Len(Queries(c.job)) /\ ~(c.query > UrlQueries(c.job))
    BY <2>2, <2>3
  <2>5. AnswerGood(c.answer)
    <3>1. MessagesGood(<<>>)
      BY <1>3 DEF MessagesGood
    <3> QED
      BY <1>3, <2>2, <3>1 DEF AnswerGood
  <2>6. c.txs \in Seq(Refs \cup {NoObj}) /\ c.fetched \in Seq(Refs)
    BY <2>2
  <2>7. CallGood(c, p, Refs)
    BY <1>3, <2>1, <2>2, <2>4, <2>5, <2>6 DEF CallGood
  <2>8. HeldBy(c, p) /\ Explained(c) /\ c.pc \notin Fetching
    BY <1>3, <2>2 DEF HeldBy, Explained, Fetching
  <2> QED
    BY <2>7, <2>8 DEF Sound, c
<1>7. DOMAIN call = Calls
  BY <1>1
<1> QED
  BY <1>4, <1>5, <1>6, <1>7 DEF ResolveInv, LockReleased

LEMMA NextSound ==
  ASSUME ResolveInv, ResolveNext
  PROVE  ResolveInv'
<1>1. CASE \E p \in Calls : Step(p)
  <2>1. PICK p \in Calls : Step(p)
    BY <1>1
  <2>2. CASE Failed(p)
    BY <2>2, FailStep DEF Failed
  <2> QED
    BY <2>1, <2>2, QueryPreserves, FetchBatchPreserves, VerifyPreserves, MerklePreserves, StorePreserves,
       InflatePreserves, CopyPreserves, FinishPreserves DEF Step
<1>2. CASE \E p \in Calls : Fault(p)
  <2>1. PICK p \in Calls : (\E why \in {"canceled", "rpc"} : RPCFails(p, why)) \/ EnrichFails(p)
    BY <1>2 DEF Fault
  <2>2. \E why : Fail(p, why) /\ UNCHANGED <<hub, cache, objs>>
    BY <2>1 DEF RPCFails, EnrichFails
  <2> QED
    BY <2>2, FailStep
<1>3. CASE Reorganise
  <2>1. hub \in DOMAIN Chains /\ hub' \in hub + 1..Len(Chains) /\ UNCHANGED <<cache, objs, lock, call>>
    BY <1>3 DEF Reorganise, ResolveInv
  <2>2. hub' \in DOMAIN Chains
    BY <2>1, ClaimsAssumption
  <2> QED
    BY <2>1, <2>2, QuietPreserves
<1>4. CASE Reject
  BY <1>4, RejectPreserves
<1>5. CASE Connect
  BY <1>5, QuietPreserves DEF Connect, ResolveInv
<1>6. CASE ConnectNotified
  BY <1>6, QuietPreserves DEF ConnectNotified, ResolveInv
<1>7. CASE AbandonRewind
  BY <1>7, QuietPreserves DEF AbandonRewind, ResolveInv
<1>8. CASE UNCHANGED resolveVars
  BY <1>8, QuietPreserves DEF resolveVars, ResolveInv
<1> QED
  BY <1>1, <1>2, <1>3, <1>4, <1>5, <1>6, <1>7, <1>8 DEF ResolveNext

\* What a call holds is its own, what it relies on in the shared cache stays
\* there while nothing excuses its loss, and the mutex covers the outputs it
\* has inflated and not yet copied (fetchCachedHubTransactions,
\* hubOutputsInflateMu).
THEOREM ResolveInvariance == ResolveSpec => []ResolveInv
<1>1. ResolveInit => ResolveInv
  BY InitSound
<1>2. ResolveInv /\ [ResolveNext]_resolveVars => ResolveInv'
  <2> SUFFICES ASSUME ResolveInv, [ResolveNext]_resolveVars PROVE ResolveInv'
    OBVIOUS
  <2>1. CASE UNCHANGED resolveVars
    BY <2>1, QuietPreserves DEF resolveVars, ResolveInv
  <2> QED
    BY <2>1, NextSound
<1> QED
  BY <1>1, <1>2, PTL DEF ResolveSpec

\* Whatever other calls write into the shared cached outputs, and whatever the
\* hub answers, a returned claim carries the metadata of the call's own answer,
\* and a purchase, a collection entry or a support is given the claim with its
\* identifier, never an error, with the metadata of that same answer, or none.
THEOREM AnswersMatchHolds == ResolveSpec => []AnswersMatch
<1>1. ResolveInv => AnswersMatch
  <2> SUFFICES ASSUME ResolveInv, NEW p \in Calls
               PROVE  /\ \A i \in DOMAIN call[p].page : ResultGood(call[p].page[i], p)
                      /\ Stands(p, "done") => AllGiven(call[p].attached, call[p].job, p)
    BY DEF AnswersMatch, PageMatchesHub, AttachedAsAsked, ResultGood, AllGiven, GivenGood, AskedFor
  <2>1. CallGood(call[p], p, Refs)
    BY DEF ResolveInv, Sound
  <2> QED
    BY <2>1 DEF CallGood, Stands
<1> QED
  BY <1>1, ResolveInvariance, PTL

\* A call fails on the cache only for a reason that excuses it, and no call
\* that has ended keeps hubOutputsInflateMu.
THEOREM FailuresContainedHolds == ResolveSpec => []FailuresContained
<1>1. ResolveInv => FailuresContained
  BY DEF ResolveInv, Sound, Explained, FailuresContained, CacheErrorExplained, Stands
<1> QED
  BY <1>1, ResolveInvariance, PTL
=============================================================================
