--------------------------- MODULE RWBuffer_proofs ---------------------------
(* Machine-checked proofs about RWBuffer, for a ring of any length, words   *)
(* of any size, and any records.                                            *)
EXTENDS RWBuffer, Recursion, FiniteSetTheorems, SequenceTheorems, TLAPS

\* How far q is behind p, without a remainder.
Off(p, q) == IF p <= q THEN q - p ELSE q - p + NumberUints + 1

\* The word k words behind p.
Plus(p, k) == IF p + k <= NumberUints THEN p + k ELSE p + k - NumberUints - 1

\* The ring is the numbers from 0 to NumberUints.
LEMMA Ring == NumberUints \in Nat /\ NumberUints > 0 /\ Cells = 0 .. NumberUints
  BY RingAssumption DEF Cells

\* The remainder in Distance is one wrap at most.
LEMMA DistanceIsOff ==
  ASSUME NEW p \in Cells, NEW q \in Cells
  PROVE  Distance(p, q) = Off(p, q)
<1> DEFINE m == NumberUints + 1
<1>1. m \in Nat /\ m > 0 /\ p \in 0 .. (m - 1) /\ q \in 0 .. (m - 1)
  BY Ring
<1>2. CASE p <= q
  <2>1. (q - p) \in 0 .. (m - 1)
    BY <1>1, <1>2
  <2>2. (q - p) % m = q - p
    BY <1>1, <2>1
  <2> QED
    BY <1>2, <2>2 DEF Distance, Off
<1>3. CASE ~(p <= q)
  <2>1. (q - p) + m \in 0 .. (m - 1)
    BY <1>1, <1>3
  <2>2. (q - p) % m = (q - p) + m
    BY <1>1, <2>1
  <2>3. Off(p, q) = (q - p) + m
    BY <1>1, <1>3, Ring DEF Off
  <2>4. Distance(p, q) = (q - p) % m
    BY DEF Distance
  <2> QED
    BY <2>2, <2>3, <2>4
<1> QED
  BY <1>2, <1>3

\* A record has a natural number of whole words.
LEMMA WholeNat ==
  ASSUME NEW size \in Nat
  PROVE  Whole(size) \in Nat
  BY RingAssumption DEF Whole

\* The next word is one word on.
LEMMA AfterIsPlus ==
  ASSUME NEW p \in Cells
  PROVE  After(p) \in Cells /\ After(p) = Plus(p, 1) /\ Off(p, After(p)) = 1
  BY Ring DEF After, Plus, Off

Writers == [pc : {"idle", "words", "next", "publish"}, top : Cells, chunk : Cells,
            left : Nat, size : Nat, value : Nat]
Readers == [pc : {"idle", "size", "next", "words"}, size : Nat, next : Cells, chunk : Cells,
            left : Nat, result : Seq(Nat)]

Shape ==
  /\ cell \in [Cells -> Nat] /\ top_pointer \in Cells /\ bottom_pointer \in Cells
  /\ writer \in Writers /\ reader \in Readers

\* What the writer has found free: up to top_pointer as it was, or everything.
Room == IF writer.top = bottom_pointer THEN NumberUints + 1
                                       ELSE Off(bottom_pointer, writer.top)

\* How many words the writer has gone on from bottom_pointer.
Gone == 3 + Whole(writer.size) - writer.left

\* The writer keeps between bottom_pointer and where it saw top_pointer, and
\* the reader has not gone beyond bottom_pointer since.
WriterOK ==
  /\ writer.pc # "idle" =>
       /\ Off(top_pointer, bottom_pointer) <= Off(writer.top, bottom_pointer)
       /\ writer.left <= Whole(writer.size) + 1
       /\ Gone <= Room
       /\ writer.chunk = Plus(bottom_pointer, Gone)
  /\ writer.pc \in {"next", "publish"} =>
       /\ writer.left = 0 /\ Gone < Room
       /\ cell[bottom_pointer] = writer.size
  /\ writer.pc = "publish" => cell[After(bottom_pointer)] = writer.chunk

ReaderOK ==
  /\ reader.pc # "idle" => top_pointer # bottom_pointer
  /\ reader.pc = "words" => reader.next = cell[After(top_pointer)]

\* The records to be read begin at S: each where the one before it says.
Chain(S) ==
  /\ S \subseteq Cells
  /\ top_pointer # bottom_pointer => top_pointer \in S
  /\ \A p \in S :
       /\ cell[After(p)] \in S \cup {bottom_pointer}
       /\ Off(top_pointer, p) + 3 <= Off(top_pointer, cell[After(p)])
       /\ Off(top_pointer, cell[After(p)]) <= Off(top_pointer, bottom_pointer)

Chained == \E S : Chain(S)

RingInv == WriterOK /\ ReaderOK /\ Chained

\* What lies between the pointers of the ring, as numbers.
LEMMA OffFacts ==
  ASSUME NEW p \in Cells, NEW q \in Cells
  PROVE  /\ Off(p, q) \in 0 .. NumberUints /\ (Off(p, q) = 0 <=> p = q)
         /\ p # q => Off(p, q) + Off(q, p) = NumberUints + 1
  BY Ring DEF Off

\* The words that lie k on from a pointer.
LEMMA PlusFacts ==
  ASSUME NEW p \in Cells, NEW k \in 0 .. NumberUints + 1
  PROVE  /\ Plus(p, k) \in Cells
         /\ k <= NumberUints => Off(p, Plus(p, k)) = k
         /\ k <= NumberUints => After(Plus(p, k)) = Plus(p, k + 1)
  BY Ring DEF Off, Plus, After

\* The words of the writer lie behind those to be read.
LEMMA Behind ==
  ASSUME NEW top \in Cells, NEW bottom \in Cells, NEW seen \in Cells,
         Off(top, bottom) <= Off(seen, bottom),
         NEW k \in Nat, k < (IF seen = bottom THEN NumberUints + 1 ELSE Off(bottom, seen))
  PROVE  /\ Off(top, Plus(bottom, k)) = Off(top, bottom) + k
         /\ Plus(bottom, k) \in Cells
  BY Ring DEF Off, Plus

\* A pointer between two others.
LEMMA Between ==
  ASSUME NEW top \in Cells, NEW p \in Cells, NEW q \in Cells, Off(top, p) <= Off(top, q)
  PROVE  /\ Off(p, q) = Off(top, q) - Off(top, p)
  BY Ring DEF Off

\* What is to be read is nearer to the top than the bottom is.
LEMMA InUnread ==
  ASSUME Shape, NEW c \in Cells
  PROVE  c \in Unread <=> Off(top_pointer, c) < Off(top_pointer, bottom_pointer)
  BY DistanceIsOff DEF Unread, Shape

\* The room ends where the writer saw the top.
LEMMA RoomEnds ==
  ASSUME Shape
  PROVE  Plus(bottom_pointer, Room) = writer.top /\ Room <= NumberUints + 1
<1>1. /\ writer.top \in 0 .. NumberUints /\ bottom_pointer \in 0 .. NumberUints
      /\ NumberUints \in Nat
  BY Ring DEF Shape, Writers
<1>2. CASE writer.top = bottom_pointer
  <2>1. Room = NumberUints + 1
    BY <1>2 DEF Room
  <2> QED
    BY <1>1, <1>2, <2>1 DEF Plus
<1>3. CASE writer.top # bottom_pointer
  <2>1. Room = Off(bottom_pointer, writer.top)
    BY <1>3 DEF Room
  <2> QED
    BY <1>1, <1>3, <2>1 DEF Plus, Off
<1> QED
  BY <1>2, <1>3

\* What a writer has gone over is not to be read by anybody.
LEMMA Free ==
  ASSUME Shape, WriterOK, writer.pc # "idle"
  PROVE  /\ Gone \in Nat /\ Gone >= 2 /\ Room \in Nat
         /\ \A k \in Nat : k < Room =>
              /\ Plus(bottom_pointer, k) \in Cells \ Unread
              /\ Off(top_pointer, Plus(bottom_pointer, k)) =
                   Off(top_pointer, bottom_pointer) + k
         /\ bottom_pointer \notin Unread
         /\ After(bottom_pointer) \in Cells \ Unread
         /\ Gone < Room => writer.chunk \in Cells \ Unread
<1>1. /\ top_pointer \in Cells /\ bottom_pointer \in Cells /\ writer.top \in Cells
      /\ writer.left \in Nat /\ Whole(writer.size) \in Nat
  BY WholeNat DEF Shape, Writers
<1>2. Gone \in Nat /\ Gone >= 2
  BY <1>1 DEF WriterOK, Gone
<1>3. Room \in Nat
  <2>1. Off(bottom_pointer, writer.top) \in 0 .. NumberUints
    BY <1>1, OffFacts
  <2>2. NumberUints + 1 \in Nat /\ 0 .. NumberUints \subseteq Nat
    BY Ring
  <2> QED
    BY <2>1, <2>2 DEF Room
<1>4. \A c \in Cells : Off(top_pointer, c) \in Nat
  BY <1>1, OffFacts
<1>5. ASSUME NEW k \in Nat, k < Room
      PROVE  /\ Plus(bottom_pointer, k) \in Cells \ Unread
             /\ Off(top_pointer, Plus(bottom_pointer, k)) =
                  Off(top_pointer, bottom_pointer) + k
  <2>1. Off(top_pointer, bottom_pointer) <= Off(writer.top, bottom_pointer)
    BY DEF WriterOK
  <2>2. /\ Off(top_pointer, Plus(bottom_pointer, k)) = Off(top_pointer, bottom_pointer) + k
        /\ Plus(bottom_pointer, k) \in Cells
    BY <1>1, <1>5, <2>1, Behind DEF Room
  <2>3. ~(Off(top_pointer, Plus(bottom_pointer, k)) < Off(top_pointer, bottom_pointer))
    BY <1>1, <1>4, <1>5, <2>2
  <2> QED
    BY <2>2, <2>3, InUnread
<1>6. Room > 1 /\ Room > 0
  BY <1>2, <1>3 DEF WriterOK
<1>7. /\ Plus(bottom_pointer, 0) = bottom_pointer
      /\ Plus(bottom_pointer, 1) = After(bottom_pointer)
  BY <1>1, AfterIsPlus, Ring DEF Plus
<1>8. writer.chunk = Plus(bottom_pointer, Gone)
  BY DEF WriterOK
<1> QED
  BY <1>2, <1>3, <1>5, <1>6, <1>7, <1>8

\* The reader has a record before it.
LEMMA Ahead ==
  ASSUME Shape, NEW S, Chain(S), NEW p \in S
  PROVE  /\ p \in Unread /\ After(p) \in Unread /\ p \in Cells /\ After(p) \in Cells
         /\ cell[After(p)] \in Cells
<1>1. /\ top_pointer \in Cells /\ bottom_pointer \in Cells /\ p \in Cells
      /\ cell[After(p)] \in Cells
  BY DEF Shape, Chain
<1>2. Off(top_pointer, p) + 3 <= Off(top_pointer, bottom_pointer)
  <2>1. /\ Off(top_pointer, p) \in Nat /\ Off(top_pointer, cell[After(p)]) \in Nat
        /\ Off(top_pointer, bottom_pointer) \in Nat
    BY <1>1, OffFacts
  <2> QED
    BY <2>1 DEF Chain
<1>3. After(p) \in Cells /\ Off(top_pointer, After(p)) = Off(top_pointer, p) + 1
  BY <1>1, <1>2, Ring DEF Off, After
<1>4. Off(top_pointer, p) \in Nat /\ Off(top_pointer, bottom_pointer) \in Nat
  BY <1>1, OffFacts
<1> QED
  BY <1>1, <1>2, <1>3, <1>4, InUnread

\* No step touches what is to be read.
LEMMA UnreadStays ==
  ASSUME Shape, RingInv, Next
  PROVE  \A c \in Unread : cell'[c] = cell[c]
<1>1. CASE StoreWord
  <2>1. /\ writer.pc = "words" /\ writer.left > 0 /\ writer.chunk # writer.top
        /\ cell' = cell \/ cell' = [cell EXCEPT ![writer.chunk] = writer.value]
    BY <1>1 DEF StoreWord
  <2>2. Gone < Room
    <3>1. Gone <= Room /\ writer.chunk = Plus(bottom_pointer, Gone)
      BY <2>1 DEF RingInv, WriterOK
    <3>2. Gone \in Nat /\ Room \in Nat
      BY <2>1, Free DEF RingInv
    <3>3. Plus(bottom_pointer, Room) = writer.top
      BY RoomEnds
    <3> QED
      BY <2>1, <3>1, <3>2, <3>3
  <2>3. writer.chunk \notin Unread
    BY <2>1, <2>2, Free DEF RingInv
  <2> QED
    BY <2>1, <2>3 DEF Shape, Unread
<1>2. CASE StoreSize
  <2>1. writer.pc = "words" /\ cell' = [cell EXCEPT ![bottom_pointer] = writer.size]
    BY <1>2 DEF StoreSize
  <2> QED
    BY <2>1, Free DEF RingInv, Shape, Unread
<1>3. CASE StoreNext
  <2>1. writer.pc = "next" /\ cell' = [cell EXCEPT ![After(bottom_pointer)] = writer.chunk]
    BY <1>3 DEF StoreNext
  <2> QED
    BY <2>1, Free DEF RingInv, Shape, Unread
<1>4. CASE ~(StoreWord \/ StoreSize \/ StoreNext)
  BY <1>4 DEF Next, Write, Read, BeginWrite, Refuse, Publish, BeginRead, LoadSize, LoadNext,
              LoadWord, Advance, ring
<1> QED
  BY <1>1, <1>2, <1>3, <1>4

\* Every step keeps the types.
LEMMA ShapeStep ==
  ASSUME Shape, RingInv, Next
  PROVE  Shape'
<1> USE DEF ring
<1>1. CASE \E size \in Sizes, value \in Values : BeginWrite(size, value)
  <2>1. PICK size \in Sizes, value \in Values : BeginWrite(size, value)
    BY <1>1
  <2>2. /\ size \in Nat /\ value \in Nat /\ Whole(size) \in Nat
        /\ After(After(bottom_pointer)) \in Cells
    BY RingAssumption, WholeNat, AfterIsPlus DEF Shape
  <2>3. writer' = [pc |-> "words", top |-> top_pointer,
                   chunk |-> After(After(bottom_pointer)),
                   left |-> Whole(size) + 1, size |-> size, value |-> value]
    BY <2>1 DEF BeginWrite
  <2>4. writer' \in Writers
    BY <2>2, <2>3 DEF Writers, Shape
  <2> QED
    BY <2>1, <2>4 DEF BeginWrite, Shape
<1>2. CASE StoreWord
  <2>0. /\ writer \in Writers /\ writer.left > 0 /\ writer.left \in Nat
        /\ After(writer.chunk) \in Cells
    BY <1>2, AfterIsPlus DEF StoreWord, Shape, Writers
  <2>1. /\ writer \in Writers /\ After(writer.chunk) \in Cells /\ writer.left - 1 \in Nat
    BY <2>0
  <2>2. writer' = [writer EXCEPT !.chunk = After(writer.chunk), !.left = writer.left - 1]
    BY <1>2 DEF StoreWord
  <2>3. writer' \in Writers
    BY <2>1, <2>2 DEF Writers
  <2>4. cell' = cell \/ cell' = [cell EXCEPT ![writer.chunk] = writer.value]
    BY <1>2 DEF StoreWord
  <2>5. cell' \in [Cells -> Nat]
    BY <2>1, <2>4 DEF Writers, Shape
  <2> QED
    BY <1>2, <2>3, <2>5 DEF StoreWord, Shape
<1>3. CASE Refuse \/ Publish
  <2>1. IdleWriter \in Writers
    BY Ring DEF IdleWriter, Writers
  <2>2. writer.chunk \in Cells
    BY DEF Shape, Writers
  <2> QED
    BY <1>3, <2>1, <2>2 DEF Refuse, Publish, Shape
<1>4. CASE StoreSize \/ StoreNext
  <2>1. writer.size \in Nat /\ writer.chunk \in Nat /\ writer \in Writers
    BY Ring DEF Shape, Writers
  <2>2. cell' \in [Cells -> Nat]
    BY <1>4, <2>1 DEF StoreSize, StoreNext, Shape
  <2>3. writer' \in Writers
    BY <1>4, <2>1 DEF StoreSize, StoreNext, Writers
  <2> QED
    BY <1>4, <2>2, <2>3 DEF StoreSize, StoreNext, Shape
<1>5. CASE BeginRead
  <2>1. IdleReader \in Readers /\ [IdleReader EXCEPT !.pc = "size"] \in Readers
    <3>1. <<>> \in Seq(Nat) /\ 0 \in Cells
      BY Ring
    <3>2. IdleReader \in Readers
      BY <3>1 DEF IdleReader, Readers
    <3> QED
      BY <3>2 DEF Readers
  <2> QED
    BY <1>5, <2>1 DEF BeginRead, Shape
<1>6. CASE LoadSize
  <2>1. cell[top_pointer] \in Nat /\ reader \in Readers
    BY DEF Shape
  <2>2. reader' \in Readers
    BY <1>6, <2>1 DEF LoadSize, Readers
  <2> QED
    BY <1>6, <2>2 DEF LoadSize, Shape
<1>7. CASE LoadNext
  <2>1. cell[After(top_pointer)] \in Cells
    <3>1. PICK S : Chain(S)
      BY DEF RingInv, Chained
    <3>2. top_pointer \in S
      BY <1>7, <3>1 DEF LoadNext, Chain, RingInv, ReaderOK
    <3> QED
      BY <3>1, <3>2, Ahead
  <2>2. /\ reader \in Readers /\ After(After(top_pointer)) \in Cells
        /\ Whole(reader.size) \in Nat
    BY AfterIsPlus, WholeNat DEF Shape, Readers
  <2>3. Words(reader.size) \in Nat
    BY <2>2 DEF Words
  <2>4. reader' \in Readers
    BY <1>7, <2>1, <2>2, <2>3 DEF LoadNext, Readers
  <2> QED
    BY <1>7, <2>4 DEF LoadNext, Shape
<1>8. CASE LoadWord
  <2>1. reader \in Readers /\ reader.left > 0 /\ After(reader.chunk) \in Cells
        /\ cell[reader.chunk] \in Nat
    BY <1>8, AfterIsPlus DEF LoadWord, Shape, Readers
  <2>2. Append(reader.result, cell[reader.chunk]) \in Seq(Nat)
    BY <2>1 DEF Readers
  <2>3. reader.left - 1 \in Nat
    BY <2>1 DEF Readers
  <2>4. reader' = [reader EXCEPT !.chunk = After(reader.chunk), !.left = reader.left - 1,
                                 !.result = Append(reader.result, cell[reader.chunk])]
    BY <1>8 DEF LoadWord
  <2>5. reader' \in Readers
    BY <2>1, <2>2, <2>3, <2>4 DEF Readers
  <2> QED
    BY <1>8, <2>5 DEF LoadWord, Shape
<1>9. CASE Advance
  <2>1. IdleReader \in Readers
    BY Ring DEF IdleReader, Readers
  <2>2. reader.next \in Cells
    BY DEF Shape, Readers
  <2> QED
    BY <1>9, <2>1, <2>2 DEF Advance, Shape
<1> QED
  BY <1>1, <1>2, <1>3, <1>4, <1>5, <1>6, <1>7, <1>8, <1>9 DEF Next, Write, Read

\* A step that moves no pointer leaves the records where they are.
LEMMA ChainKept ==
  ASSUME Shape, NEW S, Chain(S), UNCHANGED <<top_pointer, bottom_pointer>>,
         \A c \in Unread : cell'[c] = cell[c]
  PROVE  Chain(S)'
<1>1. \A p \in S : cell'[After(p)] = cell[After(p)]
  BY Ahead
<1>2. Chain(S)' = (/\ S \subseteq Cells
                   /\ top_pointer # bottom_pointer => top_pointer \in S
                   /\ \A p \in S :
                       /\ cell'[After(p)] \in S \cup {bottom_pointer}
                       /\ Off(top_pointer, p) + 3 <= Off(top_pointer, cell'[After(p)])
                       /\ Off(top_pointer, cell'[After(p)])
                            <= Off(top_pointer, bottom_pointer))
  BY DEF Chain, Off, After
<1> QED
  BY <1>1, <1>2 DEF Chain

\* A writer begins two words on, in the room that it has seen.
LEMMA BeginWriteStep ==
  ASSUME Shape, Shape', RingInv, NEW size \in Sizes, NEW value \in Values,
         BeginWrite(size, value)
  PROVE  WriterOK'
<1>1. /\ writer' = [pc |-> "words", top |-> top_pointer,
                    chunk |-> After(After(bottom_pointer)),
                    left |-> Whole(size) + 1, size |-> size, value |-> value]
      /\ UNCHANGED <<cell, top_pointer, bottom_pointer>>
      /\ top_pointer # After(bottom_pointer) /\ top_pointer # After(After(bottom_pointer))
  BY DEF BeginWrite, ring
<1>2. /\ writer'.pc = "words" /\ writer'.top = top_pointer
      /\ writer'.chunk = After(After(bottom_pointer))
      /\ writer'.left = Whole(size) + 1 /\ writer'.size = size
  BY <1>1
<1>3. Whole(size) \in Nat /\ top_pointer \in Cells /\ bottom_pointer \in Cells
  BY WholeNat, RingAssumption DEF Shape
<1>4. Gone' = 2
  BY <1>2, <1>3 DEF Gone, Whole
<1>5. /\ 2 <= (IF top_pointer = bottom_pointer THEN NumberUints + 1
                                               ELSE Off(bottom_pointer, top_pointer))
      /\ After(After(bottom_pointer)) = Plus(bottom_pointer, 2)
  BY <1>1, <1>3, Ring DEF Off, After, Plus
<1>6. Room' = IF top_pointer = bottom_pointer THEN NumberUints + 1
                                              ELSE Off(bottom_pointer, top_pointer)
  BY <1>1, <1>2 DEF Room, Off
<1>7. Off(top_pointer, bottom_pointer)' = Off(top_pointer, bottom_pointer)
      /\ Off(writer.top, bottom_pointer)' = Off(top_pointer, bottom_pointer)
      /\ Plus(bottom_pointer, Gone)' = Plus(bottom_pointer, 2)
      /\ Off(top_pointer, bottom_pointer) \in Nat
  BY <1>1, <1>2, <1>3, <1>4, OffFacts DEF Off, Plus
<1>8. writer'.left <= Whole(writer.size)' + 1
  BY <1>2, <1>3 DEF Whole
<1> QED
  BY <1>2, <1>4, <1>5, <1>6, <1>7, <1>8 DEF WriterOK

\* PTR_TEST keeps the writer in its room.
LEMMA StoreWordStep ==
  ASSUME Shape, Shape', RingInv, StoreWord
  PROVE  WriterOK'
<1>1. /\ writer' = [writer EXCEPT !.chunk = After(writer.chunk), !.left = writer.left - 1]
      /\ UNCHANGED <<top_pointer, bottom_pointer>> /\ writer.pc = "words"
      /\ writer.left > 0 /\ writer.chunk # writer.top /\ writer \in Writers
      /\ top_pointer \in Cells /\ bottom_pointer \in Cells
  BY DEF StoreWord, Shape
<1>2. /\ writer'.pc = "words" /\ writer'.top = writer.top /\ writer'.size = writer.size
      /\ writer'.chunk = After(writer.chunk) /\ writer'.left = writer.left - 1
      /\ writer.left \in Nat /\ writer.top \in Cells /\ Whole(writer.size) \in Nat
  BY <1>1, WholeNat DEF Writers
<1>3. Gone' = Gone + 1 /\ Gone \in Nat /\ Room \in Nat
  BY <1>1, <1>2, Free DEF Gone, Whole, RingInv
<1>4. Room' = Room
  BY <1>1, <1>2 DEF Room, Off
<1>5. Gone < Room /\ writer.chunk = Plus(bottom_pointer, Gone)
  <2>1. Gone <= Room /\ writer.chunk = Plus(bottom_pointer, Gone)
    BY <1>1 DEF RingInv, WriterOK
  <2>2. Plus(bottom_pointer, Room) = writer.top
    BY RoomEnds
  <2> QED
    BY <1>1, <1>3, <2>1, <2>2
<1>6. After(writer.chunk) = Plus(bottom_pointer, Gone + 1)
  <2>1. Room <= NumberUints + 1
    BY RoomEnds
  <2> QED
    BY <1>1, <1>3, <1>5, <2>1, PlusFacts, Ring
<1>7. /\ Off(top_pointer, bottom_pointer)' = Off(top_pointer, bottom_pointer)
      /\ Off(writer.top, bottom_pointer)' = Off(writer.top, bottom_pointer)
      /\ Plus(bottom_pointer, Gone)' = Plus(bottom_pointer, Gone + 1)
      /\ Whole(writer.size)' = Whole(writer.size)
  BY <1>1, <1>2, <1>3 DEF Off, Plus, Whole
<1>8. Off(top_pointer, bottom_pointer) <= Off(writer.top, bottom_pointer)
      /\ writer.left <= Whole(writer.size) + 1
  BY <1>1 DEF RingInv, WriterOK
<1> QED
  BY <1>2, <1>3, <1>4, <1>5, <1>6, <1>7, <1>8 DEF WriterOK

\* The size is stored when the words have been, and the writer is in its room.
LEMMA StoreSizeStep ==
  ASSUME Shape, Shape', RingInv, StoreSize
  PROVE  WriterOK'
<1>1. /\ writer' = [writer EXCEPT !.pc = "next"]
      /\ cell' = [cell EXCEPT ![bottom_pointer] = writer.size]
      /\ UNCHANGED <<top_pointer, bottom_pointer>> /\ writer.pc = "words"
      /\ writer.left = 0 /\ writer.chunk # writer.top /\ writer \in Writers
      /\ top_pointer \in Cells /\ bottom_pointer \in Cells /\ cell \in [Cells -> Nat]
  BY DEF StoreSize, Shape
<1>2. /\ writer'.pc = "next" /\ writer'.top = writer.top /\ writer'.size = writer.size
      /\ writer'.chunk = writer.chunk /\ writer'.left = 0
  BY <1>1 DEF Writers
<1>3. Gone' = Gone /\ Gone \in Nat /\ Room \in Nat
  BY <1>1, <1>2, Free DEF Gone, Whole, RingInv
<1>4. Room' = Room
  BY <1>1, <1>2 DEF Room, Off
<1>5. Gone < Room /\ writer.chunk = Plus(bottom_pointer, Gone)
  <2>1. Gone <= Room /\ writer.chunk = Plus(bottom_pointer, Gone)
    BY <1>1 DEF RingInv, WriterOK
  <2>2. Plus(bottom_pointer, Room) = writer.top
    BY RoomEnds
  <2> QED
    BY <1>1, <1>3, <2>1, <2>2
<1>6. /\ Off(top_pointer, bottom_pointer)' = Off(top_pointer, bottom_pointer)
      /\ Off(writer.top, bottom_pointer)' = Off(writer.top, bottom_pointer)
      /\ Plus(bottom_pointer, Gone)' = Plus(bottom_pointer, Gone)
      /\ Whole(writer.size)' = Whole(writer.size)
  BY <1>1, <1>2, <1>3 DEF Off, Plus, Whole
<1>7. /\ Off(top_pointer, bottom_pointer) <= Off(writer.top, bottom_pointer)
      /\ writer.left <= Whole(writer.size) + 1
      /\ cell'[bottom_pointer] = writer.size
  BY <1>1 DEF RingInv, WriterOK
<1>8. cell'[bottom_pointer'] = writer'.size /\ Gone' < Room' /\ Gone' <= Room'
  BY <1>1, <1>2, <1>3, <1>4, <1>5, <1>7
<1> QED
  BY <1>1, <1>2, <1>3, <1>4, <1>5, <1>6, <1>7, <1>8 DEF WriterOK

\* The pointer to the next record is stored behind the size.
LEMMA StoreNextStep ==
  ASSUME Shape, Shape', RingInv, StoreNext
  PROVE  WriterOK'
<1>1. /\ writer' = [writer EXCEPT !.pc = "publish"]
      /\ cell' = [cell EXCEPT ![After(bottom_pointer)] = writer.chunk]
      /\ UNCHANGED <<top_pointer, bottom_pointer>> /\ writer.pc = "next"
      /\ writer \in Writers /\ top_pointer \in Cells /\ bottom_pointer \in Cells
      /\ cell \in [Cells -> Nat]
  BY DEF StoreNext, Shape
<1>2. /\ writer'.pc = "publish" /\ writer'.top = writer.top /\ writer'.size = writer.size
      /\ writer'.chunk = writer.chunk /\ writer'.left = writer.left
  BY <1>1 DEF Writers
<1>3. Gone' = Gone /\ Room' = Room
  BY <1>1, <1>2 DEF Gone, Room, Whole, Off
<1>4. After(bottom_pointer) \in Cells /\ After(bottom_pointer) # bottom_pointer
  BY <1>1, Ring DEF After
<1>5. /\ cell'[bottom_pointer] = cell[bottom_pointer]
      /\ cell'[After(bottom_pointer)] = writer.chunk
  BY <1>1, <1>4
<1>6. /\ Off(top_pointer, bottom_pointer)' = Off(top_pointer, bottom_pointer)
      /\ Off(writer.top, bottom_pointer)' = Off(writer.top, bottom_pointer)
      /\ Plus(bottom_pointer, Gone)' = Plus(bottom_pointer, Gone)
      /\ Whole(writer.size)' = Whole(writer.size)
      /\ After(bottom_pointer)' = After(bottom_pointer)
  BY <1>1, <1>2, <1>3 DEF Off, Plus, Whole, After
<1>7. /\ Off(top_pointer, bottom_pointer) <= Off(writer.top, bottom_pointer)
      /\ writer.left <= Whole(writer.size) + 1
      /\ writer.left = 0 /\ Gone < Room /\ Gone <= Room
      /\ cell[bottom_pointer] = writer.size /\ writer.chunk = Plus(bottom_pointer, Gone)
  BY <1>1 DEF RingInv, WriterOK
<1>8. cell'[bottom_pointer'] = writer'.size /\ cell'[After(bottom_pointer)'] = writer'.chunk
  BY <1>1, <1>2, <1>5, <1>6, <1>7
<1> QED
  BY <1>1, <1>2, <1>3, <1>6, <1>7, <1>8 DEF WriterOK

\* The reader's advance leaves the writer more room than it reckons with.
LEMMA AdvanceWriterStep ==
  ASSUME Shape, Shape', RingInv, Advance
  PROVE  WriterOK'
<1>1. /\ UNCHANGED <<cell, bottom_pointer, writer>> /\ top_pointer' = reader.next
      /\ reader.pc = "words" /\ top_pointer \in Cells /\ bottom_pointer \in Cells
      /\ writer \in Writers
  BY DEF Advance, Shape
<1>2. PICK S : Chain(S)
  BY DEF RingInv, Chained
<1>3. top_pointer \in S /\ reader.next = cell[After(top_pointer)]
  BY <1>1, <1>2 DEF RingInv, ReaderOK, Chain
<1>4. /\ reader.next \in Cells
      /\ Off(top_pointer, reader.next) <= Off(top_pointer, bottom_pointer)
  BY <1>2, <1>3, Ahead DEF Chain
<1>5. Off(reader.next, bottom_pointer) =
        Off(top_pointer, bottom_pointer) - Off(top_pointer, reader.next)
  BY <1>1, <1>4, Between
<1>6. /\ Off(top_pointer, bottom_pointer) \in Nat /\ Off(top_pointer, reader.next) \in Nat
      /\ Off(writer.top, bottom_pointer) \in Nat
  BY <1>1, <1>4, OffFacts DEF Writers
<1>7. /\ Off(top_pointer, bottom_pointer)' = Off(reader.next, bottom_pointer)
      /\ Off(writer.top, bottom_pointer)' = Off(writer.top, bottom_pointer)
      /\ Plus(bottom_pointer, Gone)' = Plus(bottom_pointer, Gone)
      /\ Whole(writer.size)' = Whole(writer.size) /\ Gone' = Gone /\ Room' = Room
      /\ After(bottom_pointer)' = After(bottom_pointer)
  BY <1>1 DEF Off, Plus, Whole, After, Gone, Room
<1>8. writer.pc # "idle" =>
        Off(top_pointer, bottom_pointer)' <= Off(writer.top, bottom_pointer)'
  BY <1>5, <1>6, <1>7 DEF RingInv, WriterOK
<1> QED
  BY <1>1, <1>7, <1>8 DEF RingInv, WriterOK

\* Every step keeps the writer in its room.
LEMMA WriterStep ==
  ASSUME Shape, Shape', RingInv, Next
  PROVE  WriterOK'
<1>1. CASE \E size \in Sizes, value \in Values : BeginWrite(size, value)
  BY <1>1, BeginWriteStep
<1>2. CASE StoreWord
  BY <1>2, StoreWordStep
<1>3. CASE Refuse \/ Publish
  <2>1. writer'.pc = "idle"
    BY <1>3 DEF Refuse, Publish, IdleWriter
  <2> QED
    BY <2>1 DEF WriterOK
<1>4. CASE StoreSize
  BY <1>4, StoreSizeStep
<1>5. CASE StoreNext
  BY <1>5, StoreNextStep
<1>6. CASE BeginRead \/ LoadSize \/ LoadNext \/ LoadWord
  <2>1. UNCHANGED <<cell, top_pointer, bottom_pointer, writer>>
    BY <1>6 DEF BeginRead, LoadSize, LoadNext, LoadWord, ring
  <2> QED
    BY <2>1 DEF RingInv, WriterOK, Off, Plus, Gone, Room, Whole, After
<1>7. CASE Advance
  BY <1>7, AdvanceWriterStep
<1> QED
  BY <1>1, <1>2, <1>3, <1>4, <1>5, <1>6, <1>7 DEF Next, Write, Read

\* The new bottom is as many words on as the record has.
LEMMA PublishFacts ==
  ASSUME Shape, RingInv, Publish
  PROVE  /\ bottom_pointer' = writer.chunk /\ writer.chunk \in Cells
         /\ UNCHANGED <<cell, top_pointer, reader>>
         /\ cell[After(bottom_pointer)] = writer.chunk
         /\ Off(top_pointer, bottom_pointer) + 3 <= Off(top_pointer, writer.chunk)
         /\ top_pointer # writer.chunk
<1>1. /\ bottom_pointer' = writer.chunk /\ UNCHANGED <<cell, top_pointer, reader>>
      /\ writer.pc = "publish" /\ writer \in Writers
      /\ top_pointer \in Cells /\ bottom_pointer \in Cells
  BY DEF Publish, Shape
<1>2. /\ writer.left = 0 /\ Gone < Room /\ writer.chunk = Plus(bottom_pointer, Gone)
      /\ cell[After(bottom_pointer)] = writer.chunk
  BY <1>1 DEF RingInv, WriterOK
<1>3. Gone \in Nat /\ Gone >= 3
  BY <1>1, <1>2, WholeNat DEF Gone, Writers
<1>4. Off(top_pointer, writer.chunk) = Off(top_pointer, bottom_pointer) + Gone
  BY <1>1, <1>2, <1>3, Free DEF RingInv
<1>5. writer.chunk \in Cells
  BY <1>1 DEF Writers
<1>6. Off(top_pointer, bottom_pointer) \in Nat
  BY <1>1, OffFacts
<1>7. Off(top_pointer, writer.chunk) # 0
  BY <1>3, <1>4, <1>6
<1> QED
  BY <1>1, <1>2, <1>3, <1>4, <1>5, <1>6, <1>7, OffFacts

\* The reader's loads give the pointer that the record still holds.
LEMMA ReaderStep ==
  ASSUME Shape, Shape', RingInv, Next
  PROVE  ReaderOK'
<1>1. CASE Publish
  <2>1. top_pointer # bottom_pointer' /\ UNCHANGED <<cell, top_pointer, reader>>
    BY <1>1, PublishFacts
  <2> QED
    BY <2>1 DEF RingInv, ReaderOK, After
<1>2. CASE Advance
  <2>1. reader'.pc = "idle"
    BY <1>2 DEF Advance, IdleReader
  <2> QED
    BY <2>1 DEF ReaderOK
<1>3. CASE BeginRead
  <2>1. /\ reader'.pc = "size" /\ top_pointer # bottom_pointer
        /\ UNCHANGED <<top_pointer, bottom_pointer>>
    BY <1>3 DEF BeginRead, IdleReader, ring
  <2> QED
    BY <2>1 DEF ReaderOK
<1>4. CASE LoadSize
  <2>1. /\ reader'.pc = "next" /\ reader.pc # "idle"
        /\ UNCHANGED <<top_pointer, bottom_pointer>>
    BY <1>4 DEF LoadSize, Shape, Readers, ring
  <2> QED
    BY <2>1 DEF RingInv, ReaderOK
<1>5. CASE LoadNext
  <2>1. /\ reader'.pc = "words" /\ reader'.next = cell[After(top_pointer)]
        /\ reader.pc # "idle" /\ UNCHANGED <<cell, top_pointer, bottom_pointer>>
    BY <1>5 DEF LoadNext, Shape, Readers, ring
  <2> QED
    BY <2>1 DEF RingInv, ReaderOK, After
<1>6. CASE LoadWord
  <2>1. /\ reader'.pc = "words" /\ reader'.next = reader.next
        /\ reader.pc = "words" /\ UNCHANGED <<cell, top_pointer, bottom_pointer>>
    BY <1>6 DEF LoadWord, Shape, Readers, ring
  <2> QED
    BY <2>1 DEF RingInv, ReaderOK, After
<1>7. CASE Write /\ ~Publish
  <2>1. UNCHANGED <<top_pointer, bottom_pointer, reader>>
    BY <1>7 DEF Write, BeginWrite, StoreWord, Refuse, StoreSize, StoreNext, ring
  <2>2. ASSUME reader.pc = "words"
        PROVE  cell'[After(top_pointer)] = cell[After(top_pointer)]
    <3>1. PICK S : Chain(S)
      BY DEF RingInv, Chained
    <3>2. top_pointer \in S
      BY <2>2, <3>1 DEF RingInv, ReaderOK, Chain
    <3>3. After(top_pointer) \in Unread
      BY <3>1, <3>2, Ahead
    <3> QED
      BY <3>3, UnreadStays
  <2> QED
    BY <2>1, <2>2 DEF RingInv, ReaderOK, After
<1> QED
  BY <1>1, <1>2, <1>3, <1>4, <1>5, <1>6, <1>7 DEF Next, Read

\* The record that is published is one more to read.
LEMMA PublishChain ==
  ASSUME Shape, RingInv, Publish, NEW S, Chain(S)
  PROVE  Chained'
<1> DEFINE T == S \cup {bottom_pointer}
           n == writer.chunk
<1>1. /\ bottom_pointer' = n /\ n \in Cells /\ UNCHANGED <<cell, top_pointer>>
      /\ cell[After(bottom_pointer)] = n
      /\ Off(top_pointer, bottom_pointer) + 3 <= Off(top_pointer, n)
  BY PublishFacts
<1>2. /\ top_pointer \in Cells /\ bottom_pointer \in Cells
      /\ Off(top_pointer, bottom_pointer) \in Nat /\ Off(top_pointer, n) \in Nat
  BY <1>1, OffFacts DEF Shape
<1>3. T \subseteq Cells /\ top_pointer \in T
  BY <1>2 DEF Chain
<1>4. ASSUME NEW p \in T
      PROVE  /\ cell[After(p)] \in T \cup {n}
             /\ Off(top_pointer, p) + 3 <= Off(top_pointer, cell[After(p)])
             /\ Off(top_pointer, cell[After(p)]) <= Off(top_pointer, n)
  <2>1. CASE p \in S
    <3>1. /\ cell[After(p)] \in T
          /\ Off(top_pointer, p) + 3 <= Off(top_pointer, cell[After(p)])
          /\ Off(top_pointer, cell[After(p)]) <= Off(top_pointer, bottom_pointer)
      BY <2>1 DEF Chain
    <3>2. Off(top_pointer, cell[After(p)]) \in Nat
      BY <1>2, <1>3, <3>1, OffFacts
    <3> QED
      BY <1>1, <1>2, <3>1, <3>2
  <2>2. CASE p = bottom_pointer
    BY <1>1, <1>2, <2>2
  <2> QED
    BY <2>1, <2>2
<1> HIDE DEF T
<1>5. PICK U : U = T
  OBVIOUS
<1>6. Chain(U)' = (/\ U \subseteq Cells
                   /\ top_pointer' # bottom_pointer' => top_pointer' \in U
                   /\ \A p \in U :
                       /\ cell'[After(p)] \in U \cup {bottom_pointer'}
                       /\ Off(top_pointer', p) + 3 <= Off(top_pointer', cell'[After(p)])
                       /\ Off(top_pointer', cell'[After(p)])
                            <= Off(top_pointer', bottom_pointer'))
  BY DEF Chain, Off, After
<1>7. Chain(U)'
  BY <1>1, <1>3, <1>4, <1>5, <1>6
<1> QED
  BY <1>7 DEF Chained

\* The record that has been read is left behind.
LEMMA AdvanceChain ==
  ASSUME Shape, RingInv, Advance, NEW S, Chain(S)
  PROVE  Chained'
<1>1. /\ UNCHANGED <<cell, bottom_pointer, writer>> /\ top_pointer' = reader.next
      /\ reader.pc = "words" /\ top_pointer \in Cells /\ bottom_pointer \in Cells
  BY DEF Advance, Shape
<1>2. top_pointer \in S /\ reader.next = cell[After(top_pointer)]
  BY <1>1 DEF RingInv, ReaderOK, Chain
<1>3. PICK n, U : /\ n = reader.next
                  /\ U = {p \in S : Off(top_pointer, n) <= Off(top_pointer, p)}
  OBVIOUS
<1>4. /\ n \in Cells /\ n \in S \cup {bottom_pointer} /\ S \subseteq Cells
      /\ Off(top_pointer, n) <= Off(top_pointer, bottom_pointer)
  BY <1>2, <1>3, Ahead DEF Chain
<1>5. \A c \in Cells : Off(top_pointer, c) \in Nat
  BY <1>1, OffFacts
<1>6. \A q \in Cells : Off(top_pointer, n) <= Off(top_pointer, q) =>
                         Off(n, q) = Off(top_pointer, q) - Off(top_pointer, n)
  BY <1>1, <1>4, Between
<1>7. n # bottom_pointer => n \in U
  BY <1>3, <1>4, <1>5
<1>8. ASSUME NEW p \in U
      PROVE  /\ cell[After(p)] \in U \cup {bottom_pointer}
             /\ Off(n, p) + 3 <= Off(n, cell[After(p)])
             /\ Off(n, cell[After(p)]) <= Off(n, bottom_pointer)
  <2>1. p \in S /\ p \in Cells /\ Off(top_pointer, n) <= Off(top_pointer, p)
    BY <1>3, <1>4
  <2>2. PICK q : q = cell[After(p)]
    OBVIOUS
  <2>3. /\ q \in S \cup {bottom_pointer} /\ q \in Cells
        /\ Off(top_pointer, p) + 3 <= Off(top_pointer, q)
        /\ Off(top_pointer, q) <= Off(top_pointer, bottom_pointer)
    BY <1>1, <1>4, <2>1, <2>2 DEF Chain
  <2>4. /\ Off(top_pointer, p) \in Nat /\ Off(top_pointer, q) \in Nat
        /\ Off(top_pointer, n) \in Nat /\ Off(top_pointer, bottom_pointer) \in Nat
    BY <1>1, <1>4, <1>5, <2>1, <2>3
  <2>5. Off(top_pointer, n) <= Off(top_pointer, q)
    BY <2>1, <2>3, <2>4
  <2>6. /\ Off(n, p) = Off(top_pointer, p) - Off(top_pointer, n)
        /\ Off(n, q) = Off(top_pointer, q) - Off(top_pointer, n)
        /\ Off(n, bottom_pointer) = Off(top_pointer, bottom_pointer) - Off(top_pointer, n)
    BY <1>1, <1>4, <1>6, <2>1, <2>3, <2>5
  <2>7. q \in U \cup {bottom_pointer}
    BY <1>3, <2>3, <2>5
  <2>8. Off(n, p) + 3 <= Off(n, q) /\ Off(n, q) <= Off(n, bottom_pointer)
    BY <2>3, <2>4, <2>6
  <2> QED
    BY <2>2, <2>7, <2>8
<1>9. Chain(U)' = (/\ U \subseteq Cells
                   /\ top_pointer' # bottom_pointer' => top_pointer' \in U
                   /\ \A p \in U :
                       /\ cell'[After(p)] \in U \cup {bottom_pointer'}
                       /\ Off(top_pointer', p) + 3 <= Off(top_pointer', cell'[After(p)])
                       /\ Off(top_pointer', cell'[After(p)])
                            <= Off(top_pointer', bottom_pointer'))
  BY DEF Chain, Off, After
<1>10. U \subseteq Cells
  BY <1>3, <1>4
<1>11. Chain(U)'
  BY <1>1, <1>3, <1>7, <1>8, <1>9, <1>10
<1> QED
  BY <1>11 DEF Chained

\* Every step leaves a chain of records between the pointers.
LEMMA ChainStep ==
  ASSUME Shape, RingInv, Next
  PROVE  Chained'
<1>1. PICK S : Chain(S)
  BY DEF RingInv, Chained
<1>2. CASE Publish
  BY <1>1, <1>2, PublishChain
<1>3. CASE Advance
  BY <1>1, <1>3, AdvanceChain
<1>4. CASE ~Publish /\ ~Advance
  <2>1. UNCHANGED <<top_pointer, bottom_pointer>>
    BY <1>4 DEF Next, Write, Read, BeginWrite, StoreWord, Refuse, StoreSize, StoreNext,
                BeginRead, LoadSize, LoadNext, LoadWord, ring
  <2>2. Chain(S)'
    BY <1>1, <2>1, UnreadStays, ChainKept
  <2> QED
    BY <2>2 DEF Chained
<1> QED
  BY <1>2, <1>3, <1>4

Inv == Shape /\ RingInv

\* The writer in its room, the reader on its record, and the chain between them.
LEMMA InvHolds == Spec => []Inv
<1>1. Init => Inv
  <2> SUFFICES ASSUME Init PROVE Inv
    OBVIOUS
  <2>1. 0 \in Cells /\ 0 \in Nat /\ <<>> \in Seq(Nat)
    BY Ring
  <2>2. IdleWriter \in Writers /\ IdleReader \in Readers
    BY <2>1 DEF IdleWriter, IdleReader, Writers, Readers
  <2>3. Shape
    BY <2>1, <2>2 DEF Init, Shape
  <2>4. WriterOK /\ ReaderOK
    BY DEF Init, IdleWriter, IdleReader, WriterOK, ReaderOK
  <2>5. Chain({})
    BY DEF Init, Chain
  <2> QED
    BY <2>3, <2>4, <2>5 DEF Inv, RingInv, Chained
<1>2. Inv /\ [Next]_vars => Inv'
  <2> SUFFICES ASSUME Inv, [Next]_vars PROVE Inv'
    OBVIOUS
  <2>1. CASE Next
    BY <2>1, ShapeStep, WriterStep, ReaderStep, ChainStep DEF Inv, RingInv
  <2>2. CASE UNCHANGED vars
    <3>1. Shape'
      BY <2>2 DEF Inv, Shape, vars, ring
    <3>2. WriterOK' /\ ReaderOK'
      BY <2>2 DEF Inv, RingInv, WriterOK, ReaderOK, vars, ring, Off, Plus, After, Gone,
                  Room, Whole
    <3>3. PICK S : Chain(S)
      BY DEF Inv, RingInv, Chained
    <3>4. Chain(S)'
      BY <2>2, <3>3, ChainKept DEF Inv, vars, ring
    <3> QED
      BY <3>1, <3>2, <3>4 DEF Inv, RingInv, Chained
  <2> QED
    BY <2>1, <2>2
<1> QED
  BY <1>1, <1>2, PTL DEF Spec

\* Every pointer of the ring, and of RWBuffer_Write and RWBuffer_Read, stays in
\* the ring.
THEOREM TypeCorrect == Spec => []TypeOK
<1>1. Inv => TypeOK
  BY DEF Inv, Shape, TypeOK, Writers, Readers
<1> QED
  BY <1>1, InvHolds, PTL

\* The writer, which looked at top_pointer once, stores nothing in a record that
\* the reader has still to read or is reading.
THEOREM NoOverwriteCorrect == Spec => NoOverwrite
<1>1. Inv /\ [Next]_vars => [\A c \in Unread : cell'[c] = cell[c]]_vars
  BY UnreadStays DEF Inv
<1> QED
  BY <1>1, InvHolds, PTL DEF Spec, NoOverwrite
-----------------------------------------------------------------------------
(* The ring as a queue of whole records. *)

\* The record that begins at p.
RecordAt(p) == <<cell[p], [i \in 1 .. Words(cell[p]) |-> cell[Plus(p, 1 + i)]]>>

\* The m records between the pointers begin at t[0], t[1], ...: each where the
\* one before it says, and behind what that one holds.
Listing(t, m) ==
  /\ m \in Nat /\ t \in [0 .. m -> Cells]
  /\ t[0] = top_pointer /\ t[m] = bottom_pointer
  /\ \A i \in 0 .. m - 1 :
       /\ t[i + 1] = cell[After(t[i])]
       /\ Off(top_pointer, t[i]) + 3 + Whole(cell[t[i]]) <= Off(top_pointer, t[i + 1])
       /\ Off(top_pointer, t[i + 1]) <= Off(top_pointer, bottom_pointer)

\* A record has a word of its own for its rest.
LEMMA WordsFacts ==
  ASSUME NEW size \in Nat
  PROVE  Words(size) \in Nat /\ Words(size) <= Whole(size) + 1 /\ Whole(size) \in Nat
  BY WholeNat DEF Words

\* The word k words behind p, as Records finds it.
LEMMA PlusIsRemainder ==
  ASSUME NEW p \in Cells, NEW k \in 0 .. NumberUints + 1
  PROVE  (p + k) % (NumberUints + 1) = Plus(p, k)
<1>1. NumberUints \in Nat /\ p \in 0 .. NumberUints
  BY Ring
<1>2. PICK n : n = NumberUints + 1
  OBVIOUS
<1>3. n \in Nat /\ n > 0 /\ p \in 0 .. n - 1 /\ k \in 0 .. n
  BY <1>1, <1>2
<1>4. CASE p + k < n
  <2>1. p + k \in 0 .. n - 1
    BY <1>3, <1>4
  <2>2. (p + k) % n = p + k
    BY <1>3, <2>1
  <2> QED
    BY <1>1, <1>2, <1>4, <2>2 DEF Plus
<1>5. CASE p + k >= n
  <2>1. p + k - n \in 0 .. n - 1
    BY <1>3, <1>5
  <2>2. (p + k) % n = p + k - n
    BY <1>3, <2>1
  <2> QED
    BY <1>1, <1>2, <1>3, <1>5, <2>2 DEF Plus
<1> QED
  BY <1>3, <1>4, <1>5

\* There are fewer records than words, and none begins at bottom_pointer.
LEMMA ListingFacts ==
  ASSUME Shape, NEW t, NEW m, Listing(t, m)
  PROVE  /\ m <= NumberUints
         /\ \A i \in 0 .. m : Off(top_pointer, t[i]) \in Nat
         /\ \A i \in 0 .. m - 1 :
              /\ t[i] \in Cells /\ cell[t[i]] \in Nat /\ t[i] # bottom_pointer
              /\ Off(top_pointer, t[i]) + 3 + Whole(cell[t[i]])
                   <= Off(top_pointer, bottom_pointer)
<1>1. /\ top_pointer \in Cells /\ bottom_pointer \in Cells /\ m \in Nat
      /\ cell \in [Cells -> Nat] /\ t \in [0 .. m -> Cells] /\ NumberUints \in Nat
  BY Ring DEF Shape, Listing
<1>2. \A c \in Cells : Off(top_pointer, c) \in 0 .. NumberUints /\ Off(top_pointer, c) \in Nat
  BY <1>1, OffFacts
<1>3. ASSUME NEW i \in 0 .. m - 1
      PROVE  /\ t[i] \in Cells /\ cell[t[i]] \in Nat /\ t[i + 1] \in Cells
             /\ Whole(cell[t[i]]) \in Nat
             /\ Off(top_pointer, t[i]) + 3 + Whole(cell[t[i]]) <= Off(top_pointer, t[i + 1])
             /\ Off(top_pointer, t[i + 1]) <= Off(top_pointer, bottom_pointer)
  <2>1. i \in 0 .. m /\ i + 1 \in 0 .. m
    BY <1>1
  <2>2. t[i] \in Cells /\ t[i + 1] \in Cells
    BY <1>1, <2>1
  <2>3. cell[t[i]] \in Nat
    BY <1>1, <2>2
  <2> QED
    BY <2>2, <2>3, WholeNat DEF Listing
<1>4. ASSUME NEW i \in 0 .. m - 1
      PROVE  /\ t[i] # bottom_pointer
             /\ Off(top_pointer, t[i]) + 3 + Whole(cell[t[i]])
                  <= Off(top_pointer, bottom_pointer)
  <2>1. /\ Off(top_pointer, t[i]) \in Nat /\ Off(top_pointer, t[i + 1]) \in Nat
        /\ Off(top_pointer, bottom_pointer) \in Nat
    BY <1>1, <1>2, <1>3
  <2> QED
    BY <1>3, <2>1
<1> DEFINE T == {i \in 0 .. m : i <= Off(top_pointer, t[i])}
<1>5. 0 \in T
  BY <1>1, <1>2
<1>6. ASSUME NEW i \in 0 .. m, i < m, i \in T
      PROVE  i + 1 \in T
  <2>1. i \in 0 .. m - 1 /\ i + 1 \in 0 .. m
    BY <1>1, <1>6
  <2>2. Off(top_pointer, t[i]) \in Nat /\ Off(top_pointer, t[i + 1]) \in Nat
    BY <1>2, <1>3, <2>1
  <2>3. i + 1 <= Off(top_pointer, t[i + 1])
    BY <1>3, <1>6, <2>1, <2>2
  <2> QED
    BY <2>1, <2>3
<1> HIDE DEF T
<1>7. m \in T
  <2>1. 0 .. m \subseteq T
    BY <1>1, <1>5, <1>6, UpTo
  <2> QED
    BY <1>1, <2>1
<1>8. m <= NumberUints
  <2>1. m <= Off(top_pointer, t[m]) /\ t[m] \in Cells
    BY <1>1, <1>7 DEF T
  <2> QED
    BY <1>1, <1>2, <2>1
<1> QED
  BY <1>1, <1>2, <1>3, <1>4, <1>8

\* The records of a listing are the queue.
LEMMA RecordsAre ==
  ASSUME Shape, NEW t, NEW m, Listing(t, m)
  PROVE  Records = [i \in 1 .. m |-> RecordAt(t[i - 1])]
<1> DEFINE P(f) == f = [i \in Cells |->
                          IF i = 0 THEN top_pointer
                          ELSE IF f[i - 1] = bottom_pointer THEN bottom_pointer
                          ELSE cell[After(f[i - 1])]]
           full == [i \in Cells |-> IF i <= m THEN t[i] ELSE bottom_pointer]
<1>1. /\ NumberUints \in Nat /\ Cells = 0 .. NumberUints /\ m \in 0 .. NumberUints
      /\ t \in [0 .. m -> Cells] /\ t[0] = top_pointer /\ t[m] = bottom_pointer
      /\ \A i \in 0 .. m - 1 : t[i + 1] = cell[After(t[i])] /\ t[i] # bottom_pointer
  <2>1. NumberUints \in Nat /\ Cells = 0 .. NumberUints /\ m \in Nat
    BY Ring DEF Listing
  <2>2. m <= NumberUints /\ \A i \in 0 .. m - 1 : t[i] # bottom_pointer
    BY ListingFacts
  <2>3. /\ t \in [0 .. m -> Cells] /\ t[0] = top_pointer /\ t[m] = bottom_pointer
        /\ \A i \in 0 .. m - 1 : t[i + 1] = cell[After(t[i])]
    BY DEF Listing
  <2> QED
    BY <2>1, <2>2, <2>3
<1>2. ASSUME NEW i \in Cells
      PROVE  full[i] = IF i = 0 THEN top_pointer
                       ELSE IF full[i - 1] = bottom_pointer THEN bottom_pointer
                       ELSE cell[After(full[i - 1])]
  <2>1. CASE i = 0
    BY <2>1, <1>1
  <2>2. CASE i > 0 /\ i <= m
    <3>1. i - 1 \in 0 .. m - 1 /\ i - 1 \in Cells /\ (i - 1) + 1 = i /\ i - 1 <= m
      BY <2>2, <1>1
    <3>2. t[i] = cell[After(t[i - 1])] /\ t[i - 1] # bottom_pointer
      BY <3>1, <1>1
    <3> QED
      BY <2>2, <3>1, <3>2
  <2>3. CASE i > m
    <3>1. i - 1 \in Cells /\ (i - 1 <= m => i - 1 = m)
      BY <2>3, <1>1
    <3>2. full[i - 1] = bottom_pointer
      BY <3>1, <1>1
    <3> QED
      BY <2>3, <3>2, <1>1
  <2> QED
    BY <2>1, <2>2, <2>3, <1>1
<1>3. full = [i \in Cells |-> full[i]]
  OBVIOUS
<1>4. \A i \in 0 .. NumberUints : full[i] = IF i <= m THEN t[i] ELSE bottom_pointer
  BY <1>1
<1> HIDE DEF full
<1>5. P(full)
  BY <1>2, <1>3, Zenon
<1> DEFINE start == CHOOSE f : P(f)
<1>6. P(start)
  BY <1>5, Zenon
<1> DEFINE count == Cardinality({i \in Cells : start[i] # bottom_pointer})
           word(p, i) == cell[(p + 1 + i) % (NumberUints + 1)]
           record(p) == <<cell[p], [i \in 1 .. Words(cell[p]) |-> word(p, i)]>>
<1>7. Records = [i \in 1 .. count |-> record(start[i - 1])]
  BY DEF Records
<1> HIDE DEF start
<1> DEFINE U == {i \in 0 .. NumberUints : start[i] = full[i]}
<1>8. 0 \in U
  BY <1>1, <1>2, <1>6
<1>9. ASSUME NEW i \in 0 .. NumberUints, i < NumberUints, i \in U
      PROVE  i + 1 \in U
  <2>1. i + 1 \in Cells /\ i + 1 # 0 /\ (i + 1) - 1 = i /\ i + 1 \in 0 .. NumberUints
    BY <1>1, <1>9
  <2> QED
    BY <2>1, <1>2, <1>6, <1>9
<1>10. 0 .. NumberUints \subseteq U
  <2> HIDE DEF U
  <2> QED
    BY <1>1, <1>8, <1>9, UpTo
<1>11. \A i \in 0 .. NumberUints : start[i] = IF i <= m THEN t[i] ELSE bottom_pointer
  BY <1>4, <1>10
<1>12. count = m
  <2>1. {i \in Cells : start[i] # bottom_pointer} = 0 .. m - 1
    <3> HIDE DEF P
    <3> QED
      BY <1>1, <1>11
  <2>2. Cardinality(0 .. m - 1) = m
    BY <1>1, FS_Interval
  <2> QED
    BY <2>1, <2>2
<1> HIDE DEF P, count
<1>13. ASSUME NEW i \in 1 .. m
       PROVE  record(start[i - 1]) = RecordAt(t[i - 1])
  <2>1. i - 1 \in 0 .. NumberUints /\ i - 1 <= m /\ i - 1 \in 0 .. m - 1
    BY <1>1
  <2>2. PICK p : p = t[i - 1]
    OBVIOUS
  <2>3. start[i - 1] = p
    BY <1>11, <2>1, <2>2
  <2>4. p \in Cells /\ cell[p] \in Nat /\ Words(cell[p]) \in Nat /\ Words(cell[p]) <= NumberUints
    <3>1. /\ p \in Cells /\ cell[p] \in Nat
          /\ Off(top_pointer, p) + 3 + Whole(cell[p]) <= Off(top_pointer, bottom_pointer)
      BY <2>1, <2>2, ListingFacts
    <3>2. /\ Off(top_pointer, p) \in Nat /\ Off(top_pointer, bottom_pointer) \in 0 .. NumberUints
      BY <3>1, OffFacts DEF Shape
    <3>3. /\ Words(cell[p]) \in Nat /\ Words(cell[p]) <= Whole(cell[p]) + 1
          /\ Whole(cell[p]) \in Nat
      BY <3>1, WordsFacts
    <3>4. NumberUints \in Nat /\ Off(top_pointer, bottom_pointer) <= NumberUints
      BY <1>1, <3>2
    <3> QED
      BY <3>1, <3>2, <3>3, <3>4
  <2>5. \A j \in 1 .. Words(cell[p]) : word(p, j) = cell[Plus(p, 1 + j)]
    <3>1. ASSUME NEW j \in 1 .. Words(cell[p])
          PROVE  word(p, j) = cell[Plus(p, 1 + j)]
      <4>1. 1 + j \in 0 .. NumberUints + 1 /\ p + 1 + j = p + (1 + j)
        BY <2>4, <1>1
      <4>2. (p + (1 + j)) % (NumberUints + 1) = Plus(p, 1 + j)
        BY <2>4, <4>1, PlusIsRemainder
      <4> QED
        BY <4>1, <4>2
    <3> QED
      BY <3>1
  <2>6. record(p) = <<cell[p], [j \in 1 .. Words(cell[p]) |-> word(p, j)]>>
    OBVIOUS
  <2> HIDE DEF word, record
  <2>7. [j \in 1 .. Words(cell[p]) |-> word(p, j)]
          = [j \in 1 .. Words(cell[p]) |-> cell[Plus(p, 1 + j)]]
    BY <2>5
  <2> QED
    BY <2>2, <2>3, <2>6, <2>7 DEF RecordAt
<1> HIDE DEF record
<1>14. Records = [i \in 1 .. m |-> record(start[i - 1])]
  BY <1>7, <1>12
<1> QED
  BY <1>13, <1>14

\* The pointers have such a list of records between them.
Listed == \E t, m : Listing(t, m)

\* What has been said of the queue, as one formula so that it can be said of
\* the state after a step.
RecordsFacts ==
  Shape => \A t, m : Listing(t, m) =>
             Records = [i \in 1 .. m |-> RecordAt(t[i - 1])]

\* The queue is what a listing says, at every state.
LEMMA RecordsFactsHold == RecordsFacts
  BY RecordsAre DEF RecordsFacts

\* ... and at the one after it.
LEMMA RecordsFactsNext == RecordsFacts'
  BY RecordsFactsHold, PTL

\* The words of a record that is to be read are to be read.
LEMMA RecordUnread ==
  ASSUME Shape, NEW p \in Cells,
         Off(top_pointer, p) + 3 + Whole(cell[p]) <= Off(top_pointer, bottom_pointer)
  PROVE  /\ p \in Unread /\ After(p) \in Unread
         /\ \A k \in 0 .. 2 + Whole(cell[p]) : Plus(p, k) \in Unread
<1>1. /\ top_pointer \in 0 .. NumberUints /\ bottom_pointer \in 0 .. NumberUints
      /\ NumberUints \in Nat /\ p \in 0 .. NumberUints /\ cell[p] \in Nat
      /\ Cells = 0 .. NumberUints /\ NumberUints > 0
  BY Ring DEF Shape
<1>2. Whole(cell[p]) \in Nat
  BY <1>1, WholeNat
<1>3. /\ Off(top_pointer, p) \in 0 .. NumberUints
      /\ Off(top_pointer, bottom_pointer) \in 0 .. NumberUints
  BY <1>1, OffFacts
<1>4. ASSUME NEW k \in 0 .. 2 + Whole(cell[p])
      PROVE  Plus(p, k) \in Unread
  <2>1. Off(top_pointer, p) + k < Off(top_pointer, bottom_pointer) /\ k \in Nat
    BY <1>2, <1>3
  <2>2. Plus(p, k) \in Cells /\ Off(top_pointer, Plus(p, k)) = Off(top_pointer, p) + k
    BY <1>1, <1>3, <2>1 DEF Off, Plus
  <2> QED
    BY <2>1, <2>2, InUnread
<1>5. Plus(p, 0) = p /\ Plus(p, 1) = After(p)
  BY <1>1 DEF Plus, After
<1>6. 0 \in 0 .. 2 + Whole(cell[p]) /\ 1 \in 0 .. 2 + Whole(cell[p])
  BY <1>2
<1> QED
  BY <1>4, <1>5, <1>6

\* A record stays the same while its words do.
LEMMA RecordSame ==
  ASSUME NEW p \in Cells, cell[p] \in Nat, cell'[p] = cell[p],
         \A k \in 0 .. 2 + Whole(cell[p]) : cell'[Plus(p, k)] = cell[Plus(p, k)]
  PROVE  RecordAt(p)' = RecordAt(p)
<1>1. /\ Words(cell[p]) \in Nat /\ Words(cell[p]) <= Whole(cell[p]) + 1
      /\ Whole(cell[p]) \in Nat
  BY WordsFacts
<1>2. PICK n : n = Words(cell[p])
  OBVIOUS
<1>3. Words(cell[p])' = n
  BY <1>2 DEF Words, Whole, Rest
<1>4. \A i \in 1 .. n : cell'[Plus(p, 1 + i)] = cell[Plus(p, 1 + i)]
  <2>1. \A i \in 1 .. n : 1 + i \in 0 .. 2 + Whole(cell[p])
    BY <1>1, <1>2
  <2> QED
    BY <2>1
<1>5. RecordAt(p) = <<cell[p], [i \in 1 .. n |-> cell[Plus(p, 1 + i)]]>>
  BY <1>2 DEF RecordAt
<1>6. RecordAt(p)' = <<cell'[p], [i \in 1 .. n |-> cell'[Plus(p, 1 + i)]]>>
  BY <1>3 DEF RecordAt, Plus
<1>7. [i \in 1 .. n |-> cell'[Plus(p, 1 + i)]] = [i \in 1 .. n |-> cell[Plus(p, 1 + i)]]
  BY <1>4
<1> QED
  BY <1>5, <1>6, <1>7

\* A step that moves no pointer leaves the queue as it is.
LEMMA QueueKept ==
  ASSUME Shape, Shape', NEW t, NEW m, Listing(t, m),
         UNCHANGED <<top_pointer, bottom_pointer>>,
         \A c \in Unread : cell'[c] = cell[c]
  PROVE  Listing(t, m)' /\ Records' = Records
<1>1. ASSUME NEW i \in 0 .. m - 1
      PROVE  /\ t[i] \in Cells /\ cell[t[i]] \in Nat /\ cell'[t[i]] = cell[t[i]]
             /\ cell'[After(t[i])] = cell[After(t[i])]
             /\ RecordAt(t[i])' = RecordAt(t[i])
  <2>1. PICK p : p = t[i]
    OBVIOUS
  <2>2. /\ p \in Cells /\ cell[p] \in Nat
        /\ Off(top_pointer, p) + 3 + Whole(cell[p]) <= Off(top_pointer, bottom_pointer)
    BY <2>1, ListingFacts
  <2>3. /\ cell'[p] = cell[p] /\ cell'[After(p)] = cell[After(p)]
        /\ \A k \in 0 .. 2 + Whole(cell[p]) : cell'[Plus(p, k)] = cell[Plus(p, k)]
    BY <2>2, RecordUnread
  <2>4. RecordAt(p)' = RecordAt(p)
    BY <2>2, <2>3, RecordSame
  <2> QED
    BY <2>1, <2>2, <2>3, <2>4 DEF RecordAt
<1>2. Listing(t, m)'
  <2>1. Listing(t, m)' =
          (/\ m \in Nat /\ t \in [0 .. m -> Cells]
           /\ t[0] = top_pointer' /\ t[m] = bottom_pointer'
           /\ \A i \in 0 .. m - 1 :
                /\ t[i + 1] = cell'[After(t[i])]
                /\ Off(top_pointer', t[i]) + 3 + Whole(cell'[t[i]])
                     <= Off(top_pointer', t[i + 1])
                /\ Off(top_pointer', t[i + 1]) <= Off(top_pointer', bottom_pointer'))
    BY DEF Listing, Off, After, Whole
  <2> QED
    BY <1>1, <2>1 DEF Listing
<1>3. Records = [i \in 1 .. m |-> RecordAt(t[i - 1])]
  BY RecordsAre
<1>4. Records' = [i \in 1 .. m |-> RecordAt(t[i - 1])']
  BY <1>2, RecordsFactsNext DEF RecordsFacts
<1>5. m \in Nat /\ \A i \in 1 .. m : i - 1 \in 0 .. m - 1
  BY DEF Listing
<1>6. [i \in 1 .. m |-> RecordAt(t[i - 1])'] = [i \in 1 .. m |-> RecordAt(t[i - 1])]
  BY <1>1, <1>5
<1> QED
  BY <1>2, <1>3, <1>4, <1>6

\* A sequence of m elements.
List(s, m) == s = [i \in 1 .. m |-> s[i]]

\* A sequence with one element more at its end.
LEMMA AppendIs ==
  ASSUME NEW m \in Nat, NEW s, NEW u, NEW r,
         List(s, m), List(u, m + 1),
         \A i \in 1 .. m : u[i] = s[i], u[m + 1] = r
  PROVE  u = Append(s, r)
<1> DEFINE S == {s[i] : i \in 1 .. m} \cup {r}
<1>1. s \in [1 .. m -> S] /\ r \in S
  BY DEF List
<1>2. s \in Seq(S) /\ Len(s) = m
  BY <1>1
<1> HIDE DEF S
<1>3. /\ Append(s, r) \in Seq(S) /\ Len(Append(s, r)) = m + 1
      /\ \A i \in 1 .. m : Append(s, r)[i] = s[i]
      /\ Append(s, r)[m + 1] = r
  BY <1>1, <1>2, AppendProperties
<1>4. Append(s, r) = [i \in 1 .. m + 1 |-> Append(s, r)[i]]
  <2>1. PICK q : q = Append(s, r)
    OBVIOUS
  <2>2. q \in Seq(S) /\ Len(q) = m + 1
    BY <1>3, <2>1
  <2>3. q = [i \in 1 .. m + 1 |-> q[i]]
    BY <2>2
  <2> QED
    BY <2>1, <2>3
<1>5. \A i \in 1 .. m + 1 : i \in 1 .. m \/ i = m + 1
  OBVIOUS
<1>6. \A i \in 1 .. m + 1 : Append(s, r)[i] = u[i]
  BY <1>3, <1>5
<1> QED
  BY <1>4, <1>6 DEF List

\* A sequence without its first element.
LEMMA TailIs ==
  ASSUME NEW m \in Nat, m > 0, NEW s, NEW u,
         List(s, m), List(u, m - 1),
         \A i \in 1 .. m - 1 : u[i] = s[i + 1]
  PROVE  u = Tail(s) /\ Head(s) = s[1] /\ s # <<>>
<1> DEFINE S == {s[i] : i \in 1 .. m}
<1>1. s \in [1 .. m -> S]
  BY DEF List
<1>2. s \in Seq(S) /\ Len(s) = m
  BY <1>1
<1> HIDE DEF S
<1>3. s # <<>> /\ Head(s) = s[1]
  BY <1>2
<1>4. /\ Tail(s) \in Seq(S) /\ Len(Tail(s)) = m - 1
      /\ \A i \in 1 .. m - 1 : Tail(s)[i] = s[i + 1]
  BY <1>2, <1>3, HeadTailProperties
<1>5. Tail(s) = [i \in 1 .. m - 1 |-> Tail(s)[i]]
  <2>1. PICK q : q = Tail(s)
    OBVIOUS
  <2>2. q \in Seq(S) /\ Len(q) = m - 1
    BY <1>4, <2>1
  <2>3. q = [i \in 1 .. m - 1 |-> q[i]]
    BY <2>2
  <2> QED
    BY <2>1, <2>3
<1> QED
  BY <1>3, <1>4, <1>5 DEF List

\* The record that is published goes to the end of the queue.
LEMMA PublishQueue ==
  ASSUME Shape, Shape', RingInv, Publish, NEW t, NEW m, Listing(t, m)
  PROVE  Listed' /\ Records' = Append(Records, RecordAt(bottom_pointer))
<1>1. PICK b, n : b = bottom_pointer /\ n = writer.chunk
  OBVIOUS
<1>2. PICK u : u = [i \in 0 .. m + 1 |-> IF i <= m THEN t[i] ELSE n]
  OBVIOUS
<1>3. /\ bottom_pointer' = n /\ UNCHANGED <<cell, top_pointer>>
      /\ n \in Cells /\ b \in Cells /\ top_pointer \in Cells /\ cell[After(b)] = n
  BY <1>1, PublishFacts DEF Shape
<1>4. Off(top_pointer, b) + 3 + Whole(cell[b]) = Off(top_pointer, n)
  <2>1. writer.pc = "publish" /\ writer \in Writers
    BY DEF Publish, Shape
  <2>2. /\ writer.left = 0 /\ Gone < Room /\ n = Plus(b, Gone) /\ cell[b] = writer.size
    BY <1>1, <2>1 DEF RingInv, WriterOK
  <2>3. Whole(writer.size) \in Nat
    BY <2>1, WholeNat DEF Writers
  <2>4. Gone = 3 + Whole(cell[b]) /\ Gone \in Nat
    BY <2>2, <2>3 DEF Gone
  <2>5. Off(top_pointer, n) = Off(top_pointer, b) + Gone
    BY <1>1, <2>1, <2>2, <2>4, Free DEF RingInv
  <2>6. Off(top_pointer, b) \in Nat
    BY <1>3, OffFacts
  <2> QED
    BY <2>2, <2>3, <2>4, <2>5, <2>6
<1>5. /\ m \in Nat /\ t \in [0 .. m -> Cells] /\ t[0] = top_pointer /\ t[m] = b
      /\ \A i \in 0 .. m - 1 :
           /\ t[i + 1] = cell[After(t[i])]
           /\ Off(top_pointer, t[i]) + 3 + Whole(cell[t[i]]) <= Off(top_pointer, t[i + 1])
           /\ Off(top_pointer, t[i + 1]) <= Off(top_pointer, b)
  BY <1>1 DEF Listing
<1>6. \A i \in 0 .. m : u[i] = t[i]
  BY <1>2, <1>5
<1>7. u \in [0 .. m + 1 -> Cells] /\ u[m + 1] = n /\ u[0] = top_pointer
  <2>1. \A i \in 0 .. m + 1 : i <= m => i \in 0 .. m
    BY <1>5
  <2>2. 0 \in 0 .. m /\ m + 1 \in 0 .. m + 1 /\ ~(m + 1 <= m)
    BY <1>5
  <2> QED
    BY <1>2, <1>3, <1>5, <1>6, <2>1, <2>2
<1>8. ASSUME NEW i \in 0 .. m
      PROVE  /\ u[i + 1] = cell[After(u[i])]
             /\ Off(top_pointer, u[i]) + 3 + Whole(cell[u[i]]) <= Off(top_pointer, u[i + 1])
             /\ Off(top_pointer, u[i + 1]) <= Off(top_pointer, n)
  <2>1. Off(top_pointer, n) \in Nat /\ Off(top_pointer, b) \in Nat /\ cell[b] \in Nat
    BY <1>3, OffFacts DEF Shape
  <2>2. Whole(cell[b]) \in Nat
    BY <2>1, WholeNat
  <2>3. CASE i = m
    <3>1. u[i] = b /\ u[i + 1] = n
      BY <1>5, <1>6, <1>7, <2>3
    <3>2. Off(top_pointer, n) <= Off(top_pointer, n)
      BY <2>1
    <3>3. Off(top_pointer, b) + 3 + Whole(cell[b]) <= Off(top_pointer, n)
      BY <1>4, <2>1, <2>2
    <3> QED
      BY <1>3, <3>1, <3>2, <3>3
  <2>4. CASE i # m
    <3>1. i \in 0 .. m - 1 /\ i + 1 \in 0 .. m
      BY <1>5, <2>4
    <3>2. u[i] = t[i] /\ u[i + 1] = t[i + 1] /\ t[i + 1] \in Cells
      BY <1>5, <1>6, <3>1
    <3>3. /\ t[i + 1] = cell[After(t[i])]
          /\ Off(top_pointer, t[i]) + 3 + Whole(cell[t[i]]) <= Off(top_pointer, t[i + 1])
          /\ Off(top_pointer, t[i + 1]) <= Off(top_pointer, b)
      BY <1>5, <3>1
    <3>4. Off(top_pointer, t[i + 1]) \in Nat
      BY <1>3, <3>2, OffFacts
    <3>5. Off(top_pointer, t[i + 1]) <= Off(top_pointer, n)
      <4>1. Off(top_pointer, b) <= Off(top_pointer, n)
        BY <1>4, <2>1, <2>2
      <4> QED
        BY <2>1, <3>3, <3>4, <4>1
    <3> QED
      BY <3>2, <3>3, <3>5
  <2> QED
    BY <2>3, <2>4
<1>9. (m + 1) - 1 = m /\ m + 1 \in Nat
  BY <1>5
<1>10. Listing(u, m + 1)'
  <2>1. Listing(u, m + 1)' =
          (/\ m + 1 \in Nat /\ u \in [0 .. m + 1 -> Cells]
           /\ u[0] = top_pointer' /\ u[m + 1] = bottom_pointer'
           /\ \A i \in 0 .. (m + 1) - 1 :
                /\ u[i + 1] = cell'[After(u[i])]
                /\ Off(top_pointer', u[i]) + 3 + Whole(cell'[u[i]])
                     <= Off(top_pointer', u[i + 1])
                /\ Off(top_pointer', u[i + 1]) <= Off(top_pointer', bottom_pointer'))
    BY DEF Listing, Off, After, Whole
  <2> QED
    BY <1>3, <1>7, <1>8, <1>9, <2>1
<1>11. Listed'
  BY <1>10 DEF Listed
<1>12. \A p : RecordAt(p)' = RecordAt(p)
  BY <1>3 DEF RecordAt, Words, Whole, Rest, Plus
<1>13. Records = [i \in 1 .. m |-> RecordAt(t[i - 1])]
  BY RecordsAre
<1>14. Records' = [i \in 1 .. m + 1 |-> RecordAt(u[i - 1])']
  BY <1>10, RecordsFactsNext DEF RecordsFacts
<1>15. Records' = [i \in 1 .. m + 1 |-> RecordAt(u[i - 1])]
  BY <1>12, <1>14
<1>16. /\ \A i \in 1 .. m : i \in 1 .. m + 1 /\ i - 1 \in 0 .. m
       /\ m + 1 \in 1 .. m + 1 /\ (m + 1) - 1 = m /\ m \in 0 .. m
  BY <1>5
<1>17. \A i \in 1 .. m : Records'[i] = Records[i]
  BY <1>6, <1>13, <1>15, <1>16
<1>18. Records'[m + 1] = RecordAt(b)
  BY <1>5, <1>6, <1>15, <1>16
<1>19. List(Records, m) /\ List(Records', m + 1)
  BY <1>13, <1>15 DEF List
<1>20. Records' = Append(Records, RecordAt(b))
  BY <1>5, <1>17, <1>18, <1>19, AppendIs
<1> QED
  BY <1>1, <1>11, <1>20

\* The record that has been read is no longer in the queue.
LEMMA AdvanceQueue ==
  ASSUME Shape, Shape', RingInv, Advance, NEW t, NEW m, Listing(t, m)
  PROVE  /\ Listed' /\ Records # <<>>
         /\ Head(Records) = RecordAt(top_pointer) /\ Records' = Tail(Records)
<1>1. PICK p, n : p = top_pointer /\ n = reader.next
  OBVIOUS
<1>2. PICK u : u = [i \in 0 .. m - 1 |-> t[i + 1]]
  OBVIOUS
<1>3. /\ top_pointer' = n /\ UNCHANGED <<cell, bottom_pointer>> /\ n = cell[After(p)]
      /\ p # bottom_pointer /\ p \in Cells /\ bottom_pointer \in Cells
  BY <1>1 DEF Advance, RingInv, ReaderOK, Shape
<1>4. /\ m \in Nat /\ t \in [0 .. m -> Cells] /\ t[0] = p /\ t[m] = bottom_pointer
      /\ \A i \in 0 .. m - 1 :
           /\ t[i + 1] = cell[After(t[i])]
           /\ Off(p, t[i]) + 3 + Whole(cell[t[i]]) <= Off(p, t[i + 1])
           /\ Off(p, t[i + 1]) <= Off(p, bottom_pointer)
  BY <1>1 DEF Listing
<1>5. /\ m > 0 /\ m - 1 \in Nat /\ 0 \in 0 .. m - 1 /\ (m - 1) + 1 = m
      /\ \A i \in 0 .. m - 1 : i + 1 \in 0 .. m /\ i \in 0 .. m
      /\ \A i \in 0 .. m - 2 : i \in 0 .. m - 1 /\ i + 1 \in 0 .. m - 1
      /\ m - 1 \in 0 .. m - 1
  <2>1. m # 0
    BY <1>3, <1>4
  <2> QED
    BY <1>4, <2>1
<1>6. /\ u \in [0 .. m - 1 -> Cells] /\ u[0] = n /\ u[m - 1] = bottom_pointer
      /\ \A i \in 0 .. m - 1 : u[i] = t[i + 1]
  <2>1. \A i \in 0 .. m - 1 : u[i] = t[i + 1] /\ t[i + 1] \in Cells
    BY <1>2, <1>4, <1>5
  <2>2. t[0 + 1] = n
    BY <1>3, <1>4, <1>5
  <2> QED
    BY <1>2, <1>4, <1>5, <2>1, <2>2
<1>7. ASSUME NEW i \in 0 .. m
      PROVE  t[i] \in Cells /\ Off(p, t[i]) \in Nat
  BY <1>3, <1>4, OffFacts
<1> DEFINE T == {i \in 0 .. m - 1 : Off(p, n) <= Off(p, u[i])}
<1>8. 0 \in T
  <2>1. n \in Cells
    BY <1>5, <1>6
  <2>2. Off(p, n) \in Nat
    BY <1>3, <2>1, OffFacts
  <2> QED
    BY <1>5, <1>6, <2>2
<1>9. ASSUME NEW i \in 0 .. m - 1, i < m - 1, i \in T
      PROVE  i + 1 \in T
  <2>1. i + 1 \in 0 .. m - 1 /\ (i + 1) + 1 \in 0 .. m /\ i + 1 \in 0 .. m /\ i \in 0 .. m - 1
    BY <1>5, <1>9
  <2>2. u[i + 1] = t[(i + 1) + 1] /\ u[i] = t[i + 1]
    BY <1>6, <2>1
  <2>3. Off(p, t[i + 1]) + 3 + Whole(cell[t[i + 1]]) <= Off(p, t[(i + 1) + 1])
    BY <1>4, <2>1
  <2>4. t[i + 1] \in Cells /\ Off(p, t[i + 1]) \in Nat /\ Off(p, t[(i + 1) + 1]) \in Nat
    BY <1>7, <2>1
  <2>5. Whole(cell[t[i + 1]]) \in Nat
    BY <2>4, WholeNat DEF Shape
  <2>6. n \in Cells
    BY <1>5, <1>6
  <2>7. Off(p, n) \in Nat
    BY <1>3, <2>6, OffFacts
  <2>8. Off(p, n) <= Off(p, t[i + 1])
    BY <1>9, <2>2
  <2>9. Off(p, n) <= Off(p, t[(i + 1) + 1])
    BY <2>3, <2>4, <2>5, <2>7, <2>8
  <2> QED
    BY <2>1, <2>2, <2>9
<1> HIDE DEF T
<1>10. 0 .. m - 1 \subseteq T
  BY <1>5, <1>8, <1>9, UpTo
<1>11. ASSUME NEW i \in 0 .. m - 1
       PROVE  u[i] \in Cells /\ Off(p, u[i]) \in Nat /\ Off(n, u[i]) = Off(p, u[i]) - Off(p, n)
  <2>1. Off(p, n) <= Off(p, u[i])
    BY <1>10 DEF T
  <2>2. u[i] \in Cells /\ n \in Cells
    BY <1>5, <1>6
  <2>3. Off(n, u[i]) = Off(p, u[i]) - Off(p, n)
    BY <1>3, <2>1, <2>2, Between
  <2>4. Off(p, u[i]) \in Nat
    BY <1>3, <2>2, OffFacts
  <2> QED
    BY <2>2, <2>3, <2>4
<1>12. ASSUME NEW i \in 0 .. m - 2
       PROVE  /\ u[i + 1] = cell[After(u[i])]
              /\ Off(n, u[i]) + 3 + Whole(cell[u[i]]) <= Off(n, u[i + 1])
              /\ Off(n, u[i + 1]) <= Off(n, bottom_pointer)
  <2>1. i \in 0 .. m - 1 /\ i + 1 \in 0 .. m - 1
    BY <1>5
  <2>2. u[i] = t[i + 1] /\ u[i + 1] = t[(i + 1) + 1]
    BY <1>6, <2>1
  <2>3. /\ u[i + 1] = cell[After(u[i])]
        /\ Off(p, u[i]) + 3 + Whole(cell[u[i]]) <= Off(p, u[i + 1])
        /\ Off(p, u[i + 1]) <= Off(p, bottom_pointer)
    BY <1>4, <2>1, <2>2
  <2>4. /\ Off(n, u[i]) = Off(p, u[i]) - Off(p, n)
        /\ Off(n, u[i + 1]) = Off(p, u[i + 1]) - Off(p, n)
        /\ u[i] \in Cells /\ Off(p, u[i]) \in Nat /\ Off(p, u[i + 1]) \in Nat
    BY <1>11, <2>1
  <2>5. /\ Off(n, bottom_pointer) = Off(p, bottom_pointer) - Off(p, n)
        /\ Off(p, bottom_pointer) \in Nat
    BY <1>5, <1>6, <1>11
  <2>6. Whole(cell[u[i]]) \in Nat
    BY <2>4, WholeNat DEF Shape
  <2>7. Off(p, n) \in Nat
    <3>1. n \in Cells
      BY <1>5, <1>6
    <3> QED
      BY <1>3, <3>1, OffFacts
  <2> QED
    BY <2>3, <2>4, <2>5, <2>6, <2>7
<1>13. Listing(u, m - 1)'
  <2>1. Listing(u, m - 1)' =
          (/\ m - 1 \in Nat /\ u \in [0 .. m - 1 -> Cells]
           /\ u[0] = top_pointer' /\ u[m - 1] = bottom_pointer'
           /\ \A i \in 0 .. (m - 1) - 1 :
                /\ u[i + 1] = cell'[After(u[i])]
                /\ Off(top_pointer', u[i]) + 3 + Whole(cell'[u[i]])
                     <= Off(top_pointer', u[i + 1])
                /\ Off(top_pointer', u[i + 1]) <= Off(top_pointer', bottom_pointer'))
    BY DEF Listing, Off, After, Whole
  <2>2. (m - 1) - 1 = m - 2
    BY <1>4
  <2> QED
    BY <1>3, <1>5, <1>6, <1>12, <2>1, <2>2
<1>14. Listed'
  BY <1>13 DEF Listed
<1>15. \A q : RecordAt(q)' = RecordAt(q)
  BY <1>3 DEF RecordAt, Words, Whole, Rest, Plus
<1>16. Records = [i \in 1 .. m |-> RecordAt(t[i - 1])]
  BY RecordsAre
<1>17. Records' = [i \in 1 .. m - 1 |-> RecordAt(u[i - 1])']
  BY <1>13, RecordsFactsNext DEF RecordsFacts
<1>18. Records' = [i \in 1 .. m - 1 |-> RecordAt(u[i - 1])]
  BY <1>15, <1>17
<1>19. /\ \A i \in 1 .. m - 1 : i - 1 \in 0 .. m - 1 /\ (i - 1) + 1 = i
                                 /\ i + 1 \in 1 .. m /\ (i + 1) - 1 = i
       /\ 1 \in 1 .. m /\ 1 - 1 = 0
  BY <1>5
<1>20. \A i \in 1 .. m - 1 : Records'[i] = Records[i + 1]
  BY <1>6, <1>16, <1>18, <1>19
<1>21. Records[1] = RecordAt(p)
  BY <1>4, <1>16, <1>19
<1>22. List(Records, m) /\ List(Records', m - 1)
  BY <1>16, <1>18 DEF List
<1>23. Records' = Tail(Records) /\ Head(Records) = Records[1] /\ Records # <<>>
  BY <1>4, <1>5, <1>20, <1>22, TailIs
<1> QED
  BY <1>1, <1>14, <1>21, <1>23

\* What the writer has stored of its record.
WroteOK ==
  writer.pc # "idle" =>
    /\ writer.size \in Sizes /\ writer.value \in Values
    /\ \A k \in 2 .. Gone - 1 :
         k < 2 + Words(writer.size) => cell[Plus(bottom_pointer, k)] = writer.value

\* What the reader has loaded of the oldest record.
LoadedOK ==
  /\ reader.pc = "size" => reader.result = <<>>
  /\ reader.pc = "next" => reader.result = <<>> /\ reader.size = cell[top_pointer]
  /\ reader.pc = "words" =>
       /\ reader.size = cell[top_pointer]
       /\ reader.left <= Words(reader.size)
       /\ reader.chunk = Plus(top_pointer, 2 + Words(reader.size) - reader.left)
       /\ reader.result = [i \in 1 .. Words(reader.size) - reader.left
                             |-> cell[Plus(top_pointer, 1 + i)]]

\* The words of a record are apart from each other.
LEMMA PlusApart ==
  ASSUME NEW p \in Cells, NEW j \in 0 .. NumberUints, NEW k \in 0 .. NumberUints, j # k
  PROVE  Plus(p, j) # Plus(p, k)
  BY PlusFacts, Ring

\* A writer that has gone over g words has stored value in those of the record.
LEMMA StoreWordWrote ==
  ASSUME Shape, Shape', RingInv, WroteOK, StoreWord
  PROVE  WroteOK'
<1>1. /\ writer.pc = "words" /\ writer.left > 0 /\ writer.chunk # writer.top
      /\ writer' = [writer EXCEPT !.chunk = After(writer.chunk), !.left = writer.left - 1]
      /\ UNCHANGED <<top_pointer, bottom_pointer>>
      /\ writer \in Writers /\ bottom_pointer \in Cells /\ cell \in [Cells -> Nat]
  BY DEF StoreWord, Shape
<1>2. PICK g, size, value, b : /\ g = Gone /\ size = writer.size /\ value = writer.value
                               /\ b = bottom_pointer
  OBVIOUS
<1>3. /\ writer'.size = size /\ writer'.value = value /\ writer'.left = writer.left - 1
      /\ b \in Cells /\ bottom_pointer' = b
      /\ writer.left \in Nat /\ size \in Nat
  BY <1>1, <1>2 DEF Writers
<1>4. Whole(size) \in Nat /\ Words(size) \in Nat /\ writer.left <= Whole(size) + 1
  BY <1>1, <1>2, <1>3, WordsFacts DEF RingInv, WriterOK
<1>5. /\ g = 3 + Whole(size) - writer.left /\ g \in Nat /\ g >= 2
      /\ Gone' = g + 1
  BY <1>2, <1>3, <1>4 DEF Gone, Whole
<1>6. writer.chunk = Plus(b, g) /\ g <= NumberUints
  <2>1. Gone <= Room /\ writer.chunk = Plus(b, g)
    BY <1>1, <1>2 DEF RingInv, WriterOK
  <2>2. Plus(b, Room) = writer.top /\ Room <= NumberUints + 1 /\ Room \in Nat
    BY <1>1, <1>2, RoomEnds, Free DEF RingInv
  <2>3. g # Room
    BY <1>1, <2>1, <2>2
  <2> QED
    BY <1>2, <1>5, <2>1, <2>2, <2>3, Ring
<1>7. ASSUME NEW k \in 2 .. g, k < 2 + Words(size)
      PROVE  cell'[Plus(b, k)] = value
  <2>1. k \in 0 .. NumberUints /\ g \in 0 .. NumberUints /\ k \in 0 .. NumberUints + 1
    BY <1>5, <1>6, Ring
  <2>2. Plus(b, k) \in Cells
    BY <1>3, <2>1, PlusFacts
  <2>3. cell' = cell \/ cell' = [cell EXCEPT ![Plus(b, g)] = value]
    BY <1>2, <1>6 DEF StoreWord
  <2>4. CASE k = g
    <3>1. writer.left > 1 \/ Rest(size)
      <4>1. CASE writer.left = 1
        <5>1. g = 2 + Whole(size)
          BY <1>5, <1>4, <4>1
        <5>2. Words(size) # Whole(size)
          BY <1>4, <1>7, <2>4, <5>1
        <5> QED
          BY <1>4, <5>2 DEF Words
      <4> QED
        BY <1>1, <1>3, <4>1
    <3>2. cell' = [cell EXCEPT ![Plus(b, g)] = value]
      BY <1>2, <1>6, <3>1 DEF StoreWord
    <3> QED
      BY <1>1, <2>2, <2>4, <3>2
  <2>5. CASE k # g
    <3>1. Plus(b, k) # Plus(b, g)
      BY <1>3, <2>1, <2>5, PlusApart
    <3>2. k \in 2 .. g - 1
      BY <1>5, <2>5
    <3>3. cell[Plus(b, k)] = value
      BY <1>1, <1>2, <1>7, <3>2 DEF WroteOK
    <3> QED
      BY <1>1, <2>2, <2>3, <3>1, <3>3
  <2> QED
    BY <2>4, <2>5
<1>8. size \in Sizes /\ value \in Values
  BY <1>1, <1>2 DEF WroteOK
<1>9. (g + 1) - 1 = g
  BY <1>5
<1>10. WroteOK' = (writer'.pc # "idle" =>
                     /\ writer'.size \in Sizes /\ writer'.value \in Values
                     /\ \A k \in 2 .. Gone' - 1 :
                          k < 2 + Words(writer'.size) =>
                            cell'[Plus(bottom_pointer', k)] = writer'.value)
  BY DEF WroteOK, Words, Whole, Rest, Plus
<1> QED
  BY <1>3, <1>5, <1>7, <1>8, <1>9, <1>10

\* Storing the size and the next pointer leaves the words of the record.
LEMMA StoreHeadWrote ==
  ASSUME Shape, Shape', RingInv, WroteOK, StoreSize \/ StoreNext
  PROVE  WroteOK'
<1>1. PICK b, a : b = bottom_pointer /\ a = After(bottom_pointer)
  OBVIOUS
<1>2. /\ writer.pc \in {"words", "next"} /\ UNCHANGED bottom_pointer
      /\ \/ cell' = [cell EXCEPT ![b] = writer.size]
         \/ cell' = [cell EXCEPT ![a] = writer.chunk]
      /\ writer \in Writers /\ b \in Cells /\ cell \in [Cells -> Nat]
  BY <1>1 DEF StoreSize, StoreNext, Shape
<1>3. UNCHANGED <<writer.size, writer.value, writer.left>>
  BY <1>2 DEF StoreSize, StoreNext, Writers
<1>4. PICK g, size, value : g = Gone /\ size = writer.size /\ value = writer.value
  OBVIOUS
<1>5. Gone' = g
  BY <1>3, <1>4 DEF Gone, Whole
<1>6. g \in Nat /\ g <= NumberUints + 1
  <2>1. Gone <= Room /\ Room <= NumberUints + 1 /\ Gone \in Nat /\ Room \in Nat
    BY <1>2, Free, RoomEnds DEF RingInv, WriterOK
  <2> QED
    BY <1>4, <2>1, Ring
<1>7. b = Plus(b, 0) /\ a = Plus(b, 1)
  BY <1>1, <1>2, AfterIsPlus, Ring DEF Plus
<1>8. \A k \in 2 .. g - 1 : cell'[Plus(b, k)] = cell[Plus(b, k)]
  <2>1. ASSUME NEW k \in 2 .. g - 1
        PROVE  cell'[Plus(b, k)] = cell[Plus(b, k)]
    <3>1. /\ k \in 0 .. NumberUints /\ k # 0 /\ k # 1
          /\ k \in 0 .. NumberUints + 1 /\ 0 \in 0 .. NumberUints /\ 1 \in 0 .. NumberUints
      BY <1>6, Ring
    <3>2. Plus(b, k) # b /\ Plus(b, k) # a
      BY <1>2, <1>7, <3>1, PlusApart
    <3>3. Plus(b, k) \in Cells
      BY <1>2, <3>1, PlusFacts
    <3> QED
      BY <1>2, <3>2, <3>3
  <2> QED
    BY <2>1
<1>9. WroteOK' = (writer'.pc # "idle" =>
                    /\ writer'.size \in Sizes /\ writer'.value \in Values
                    /\ \A k \in 2 .. Gone' - 1 :
                         k < 2 + Words(writer'.size) =>
                           cell'[Plus(bottom_pointer', k)] = writer'.value)
  BY DEF WroteOK, Words, Whole, Rest, Plus
<1>10. /\ size \in Sizes /\ value \in Values
       /\ \A k \in 2 .. g - 1 : k < 2 + Words(size) => cell[Plus(b, k)] = value
  BY <1>1, <1>2, <1>4 DEF WroteOK
<1> QED
  BY <1>1, <1>2, <1>3, <1>4, <1>5, <1>8, <1>9, <1>10

\* Every step keeps the words that the writer has stored.
LEMMA WroteStep ==
  ASSUME Shape, Shape', RingInv, WroteOK, Next
  PROVE  WroteOK'
<1>1. CASE \E size \in Sizes, value \in Values : BeginWrite(size, value)
  <2>1. PICK size \in Sizes, value \in Values : BeginWrite(size, value)
    BY <1>1
  <2>2. writer'.left = Whole(size) + 1 /\ writer'.size = size /\ writer'.value = value
    BY <2>1 DEF BeginWrite
  <2>3. Whole(size) \in Nat
    BY RingAssumption, WholeNat
  <2>4. Gone' = 2
    BY <2>2, <2>3 DEF Gone, Whole
  <2>5. \A k \in 2 .. 2 - 1 : FALSE
    OBVIOUS
  <2> QED
    BY <2>2, <2>4, <2>5 DEF WroteOK
<1>2. CASE StoreWord
  BY <1>2, StoreWordWrote
<1>3. CASE StoreSize \/ StoreNext
  BY <1>3, StoreHeadWrote
<1>4. CASE Refuse \/ Publish
  <2>1. writer'.pc = "idle"
    BY <1>4 DEF Refuse, Publish, IdleWriter
  <2> QED
    BY <2>1 DEF WroteOK
<1>5. CASE Read
  <2>1. UNCHANGED <<cell, bottom_pointer, writer>>
    BY <1>5 DEF Read, BeginRead, LoadSize, LoadNext, LoadWord, Advance, ring
  <2> QED
    BY <2>1 DEF WroteOK, Gone, Words, Whole, Rest, Plus
<1> QED
  BY <1>1, <1>2, <1>3, <1>4, <1>5 DEF Next, Write

\* The oldest record, which the reader is on, lies in the ring, and is to be read.
LEMMA TopRecord ==
  ASSUME Shape, Listed, top_pointer # bottom_pointer
  PROVE  /\ cell[top_pointer] \in Nat
         /\ 3 + Whole(cell[top_pointer]) <= NumberUints
         /\ 2 + Words(cell[top_pointer]) <= NumberUints
         /\ Words(cell[top_pointer]) \in Nat
         /\ top_pointer \in Unread
         /\ \A k \in 0 .. 1 + Words(cell[top_pointer]) : Plus(top_pointer, k) \in Unread
<1>1. PICK t, m : Listing(t, m)
  BY DEF Listed
<1>2. /\ top_pointer \in Cells /\ bottom_pointer \in Cells /\ NumberUints \in Nat
      /\ cell[top_pointer] \in Nat
  BY Ring DEF Shape
<1>3. 0 \in 0 .. m - 1 /\ t[0] = top_pointer
  <2>1. m \in Nat /\ m # 0 /\ t[0] = top_pointer
    BY <1>1 DEF Listing
  <2> QED
    BY <2>1
<1>4. Off(top_pointer, top_pointer) + 3 + Whole(cell[top_pointer])
        <= Off(top_pointer, bottom_pointer)
  BY <1>1, <1>3, ListingFacts
<1>5. /\ Off(top_pointer, top_pointer) = 0
      /\ Off(top_pointer, bottom_pointer) \in 0 .. NumberUints
  BY <1>2, OffFacts
<1>6. /\ Words(cell[top_pointer]) \in Nat
      /\ Words(cell[top_pointer]) <= Whole(cell[top_pointer]) + 1
      /\ Whole(cell[top_pointer]) \in Nat
  BY <1>2, WordsFacts
<1>7. /\ top_pointer \in Unread
      /\ \A k \in 0 .. 2 + Whole(cell[top_pointer]) : Plus(top_pointer, k) \in Unread
  BY <1>2, <1>4, RecordUnread
<1>8. 0 .. 1 + Words(cell[top_pointer]) \subseteq 0 .. 2 + Whole(cell[top_pointer])
  BY <1>6
<1>9. /\ 3 + Whole(cell[top_pointer]) <= NumberUints
      /\ 2 + Words(cell[top_pointer]) <= NumberUints
  BY <1>2, <1>4, <1>5, <1>6
<1> QED
  BY <1>2, <1>6, <1>7, <1>8, <1>9

\* What the reader has loaded stays what the record holds, while the writer runs.
LEMMA WriteLoaded ==
  ASSUME Shape, Shape', RingInv, Listed, LoadedOK, Next, UNCHANGED <<reader, top_pointer>>
  PROVE  LoadedOK'
<1>1. CASE reader.pc \notin {"next", "words"}
  <2>1. LoadedOK' = (/\ reader'.pc = "size" => reader'.result = <<>>
                     /\ reader'.pc = "next" => (/\ reader'.result = <<>>
                                                /\ reader'.size = cell'[top_pointer'])
                     /\ reader'.pc = "words" =>
                          /\ reader'.size = cell'[top_pointer']
                          /\ reader'.left <= Words(reader.size)'
                          /\ reader'.chunk = Plus(top_pointer, 2 + Words(reader.size) - reader.left)'
                          /\ reader'.result = [i \in 1 .. Words(reader.size) - reader.left
                                                 |-> cell[Plus(top_pointer, 1 + i)]]')
    BY DEF LoadedOK
  <2> QED
    BY <1>1, <2>1 DEF LoadedOK
<1>2. CASE reader.pc \in {"next", "words"}
  <2>1. top_pointer # bottom_pointer
    BY <1>2 DEF RingInv, ReaderOK
  <2>2. PICK w, l : w = Words(reader.size) /\ l = reader.left
    OBVIOUS
  <2>3. Words(reader.size)' = w /\ reader.size = cell[top_pointer] /\ l \in Nat
    BY <1>2, <2>2 DEF Words, Whole, Rest, LoadedOK, Shape, Readers
  <2>4. \A k \in 0 .. 1 + w : cell'[Plus(top_pointer, k)] = cell[Plus(top_pointer, k)]
    BY <2>1, <2>2, <2>3, TopRecord, UnreadStays
  <2>5. cell'[top_pointer] = cell[top_pointer]
    BY <2>1, TopRecord, UnreadStays
  <2>6. w \in Nat
    BY <2>1, <2>2, <2>3, TopRecord
  <2>7. \A i \in 1 .. w - l : 1 + i \in 0 .. 1 + w
    BY <2>3, <2>6
  <2>8. [i \in 1 .. w - l |-> cell[Plus(top_pointer, 1 + i)]]
          = [i \in 1 .. w - l |-> cell'[Plus(top_pointer, 1 + i)]]
    BY <2>4, <2>7
  <2>9. LoadedOK' = (/\ reader'.pc = "size" => reader'.result = <<>>
                     /\ reader'.pc = "next" => (/\ reader'.result = <<>>
                                                /\ reader'.size = cell'[top_pointer'])
                     /\ reader'.pc = "words" =>
                          /\ reader'.size = cell'[top_pointer']
                          /\ reader'.left <= Words(reader.size)'
                          /\ reader'.chunk
                               = Plus(top_pointer', 2 + Words(reader.size)' - reader'.left)
                          /\ reader'.result = [i \in 1 .. Words(reader.size)' - reader'.left
                                                 |-> cell'[Plus(top_pointer', 1 + i)]])
    BY DEF LoadedOK, Plus
  <2> QED
    BY <2>2, <2>3, <2>5, <2>8, <2>9 DEF LoadedOK
<1> QED
  BY <1>1, <1>2

\* Each load of the reader adds a word of the oldest record.
LEMMA ReadLoaded ==
  ASSUME Shape, Shape', RingInv, Listed, LoadedOK, Read
  PROVE  LoadedOK'
<1>1. CASE BeginRead
  <2>1. reader'.pc = "size" /\ reader'.result = <<>>
    BY <1>1 DEF BeginRead, IdleReader
  <2> QED
    BY <2>1 DEF LoadedOK
<1>2. CASE LoadSize
  <2>1. /\ reader'.pc = "next" /\ reader'.result = <<>>
        /\ reader'.size = cell[top_pointer] /\ UNCHANGED <<cell, top_pointer>>
    BY <1>2 DEF LoadSize, LoadedOK, Shape, Readers, ring
  <2> QED
    BY <2>1 DEF LoadedOK
<1>3. CASE LoadNext
  <2>1. PICK w, p : w = Words(reader.size) /\ p = top_pointer
    OBVIOUS
  <2>2. /\ reader'.pc = "words" /\ reader'.result = <<>> /\ reader'.size = cell[p]
        /\ reader'.size = reader.size
        /\ reader'.left = w /\ reader'.chunk = After(After(p))
        /\ UNCHANGED <<cell, top_pointer>> /\ p \in Cells
    BY <1>3, <2>1 DEF LoadNext, LoadedOK, Shape, Readers, Words, ring
  <2>3. Words(reader.size)' = w
    BY <2>1, <2>2 DEF Words, Whole, Rest
  <2>4. w \in Nat
    BY <2>1, WordsFacts DEF Shape, Readers
  <2>5. After(After(p)) = Plus(p, 2)
    BY <2>2, AfterIsPlus, PlusFacts, Ring
  <2>6. 2 + w - w = 2 /\ w - w = 0 /\ w <= w
    BY <2>4
  <2>7. <<>> = [i \in 1 .. 0 |-> cell[Plus(p, 1 + i)]]
    OBVIOUS
  <2>8. LoadedOK' = (/\ reader'.pc = "size" => reader'.result = <<>>
                     /\ reader'.pc = "next" => (/\ reader'.result = <<>>
                                                /\ reader'.size = cell'[top_pointer'])
                     /\ reader'.pc = "words" =>
                          /\ reader'.size = cell'[top_pointer']
                          /\ reader'.left <= Words(reader.size)'
                          /\ reader'.chunk
                               = Plus(top_pointer', 2 + Words(reader.size)' - reader'.left)
                          /\ reader'.result = [i \in 1 .. Words(reader.size)' - reader'.left
                                                 |-> cell'[Plus(top_pointer', 1 + i)]])
    BY DEF LoadedOK, Plus
  <2> QED
    BY <2>1, <2>2, <2>3, <2>5, <2>6, <2>7, <2>8
<1>4. CASE LoadWord
  <2>1. PICK w, l, p, s, c : /\ w = Words(reader.size) /\ l = reader.left /\ p = top_pointer
                             /\ s = reader.result /\ c = reader.chunk
    OBVIOUS
  <2>2. /\ reader.pc = "words" /\ l > 0 /\ l \in Nat /\ p \in Cells
        /\ reader'.pc = "words" /\ reader'.result = Append(s, cell[c])
        /\ reader'.size = reader.size /\ reader'.left = l - 1 /\ reader'.chunk = After(c)
        /\ UNCHANGED <<cell, top_pointer>>
    BY <1>4, <2>1 DEF LoadWord, Shape, Readers, ring
  <2>3. /\ reader.size = cell[p] /\ l <= w /\ c = Plus(p, 2 + w - l)
        /\ s = [i \in 1 .. w - l |-> cell[Plus(p, 1 + i)]]
    BY <2>1, <2>2 DEF LoadedOK
  <2>4. Words(reader.size)' = w
    BY <2>1, <2>2 DEF Words, Whole, Rest
  <2>5. w \in Nat /\ 2 + w <= NumberUints
    <3>1. top_pointer # bottom_pointer
      BY <2>2 DEF RingInv, ReaderOK
    <3> QED
      BY <2>1, <2>3, <3>1, TopRecord
  <2>6. PICK n : n = w - l
    OBVIOUS
  <2>7. /\ n \in Nat /\ 2 + w - l = n + 2 /\ w - (l - 1) = n + 1 /\ 2 + w - (l - 1) = n + 3
        /\ n + 2 \in 0 .. NumberUints /\ l - 1 <= w /\ n + 2 \in 0 .. NumberUints + 1
        /\ n + 2 <= NumberUints /\ (n + 2) + 1 = n + 3 /\ 1 + (n + 1) = n + 2
    BY <2>2, <2>3, <2>5, <2>6, Ring
  <2>8. After(c) = Plus(p, n + 3)
    BY <2>2, <2>3, <2>7, PlusFacts
  <2>9. PICK u : u = [i \in 1 .. n + 1 |-> cell[Plus(p, 1 + i)]]
    OBVIOUS
  <2>10. u = Append(s, cell[c])
    <3>1. List(s, n) /\ List(u, n + 1)
      BY <2>3, <2>6, <2>9 DEF List
    <3>2. \A i \in 1 .. n : i \in 1 .. n + 1
      BY <2>7
    <3>3. \A i \in 1 .. n : u[i] = s[i]
      BY <2>3, <2>6, <2>9, <3>2
    <3>4. u[n + 1] = cell[c]
      <4>1. n + 1 \in 1 .. n + 1
        BY <2>7
      <4> QED
        BY <2>3, <2>7, <2>9, <4>1
    <3>5. PICK r : r = cell[c]
      OBVIOUS
    <3>6. n \in Nat /\ u[n + 1] = r
      BY <2>7, <3>4, <3>5
    <3>7. u = Append(s, r)
      BY <3>1, <3>3, <3>6, AppendIs
    <3> QED
      BY <3>5, <3>7
  <2>11. LoadedOK' = (/\ reader'.pc = "size" => reader'.result = <<>>
                      /\ reader'.pc = "next" => (/\ reader'.result = <<>>
                                                 /\ reader'.size = cell'[top_pointer'])
                      /\ reader'.pc = "words" =>
                           /\ reader'.size = cell'[top_pointer']
                           /\ reader'.left <= Words(reader.size)'
                           /\ reader'.chunk
                                = Plus(top_pointer', 2 + Words(reader.size)' - reader'.left)
                           /\ reader'.result = [i \in 1 .. Words(reader.size)' - reader'.left
                                                  |-> cell'[Plus(top_pointer', 1 + i)]])
    BY DEF LoadedOK, Plus
  <2>12. reader'.size = cell'[top_pointer'] /\ reader'.left <= Words(reader.size)'
    BY <2>1, <2>2, <2>3, <2>4, <2>7
  <2>13. reader'.chunk = Plus(top_pointer', 2 + Words(reader.size)' - reader'.left)
    BY <2>1, <2>2, <2>4, <2>7, <2>8
  <2>14. reader'.result = [i \in 1 .. Words(reader.size)' - reader'.left
                            |-> cell'[Plus(top_pointer', 1 + i)]]
    <3>1. [i \in 1 .. Words(reader.size)' - reader'.left |-> cell'[Plus(top_pointer', 1 + i)]]
            = [i \in 1 .. n + 1 |-> cell[Plus(p, 1 + i)]]
      BY <2>1, <2>2, <2>4, <2>7
    <3> QED
      BY <2>2, <2>9, <2>10, <3>1
  <2> QED
    BY <2>2, <2>11, <2>12, <2>13, <2>14
<1>5. CASE Advance
  <2>1. reader'.pc = "idle"
    BY <1>5 DEF Advance, IdleReader
  <2> QED
    BY <2>1 DEF LoadedOK
<1> QED
  BY <1>1, <1>2, <1>3, <1>4, <1>5 DEF Read

\* The record that the writer publishes is the one that it was given.
LEMMA PublishPuts ==
  ASSUME Shape, Shape', RingInv, Listed, WroteOK, Publish
  PROVE  Listed' /\ Records' = Append(Records, RecordOf(writer.size, writer.value))
<1>1. PICK t, m : Listing(t, m)
  BY DEF Listed
<1>2. Listed' /\ Records' = Append(Records, RecordAt(bottom_pointer))
  BY <1>1, PublishQueue
<1>3. PICK size, value, b : size = writer.size /\ value = writer.value /\ b = bottom_pointer
  OBVIOUS
<1>4. writer.pc = "publish" /\ writer \in Writers
  BY DEF Publish, Shape
<1>5. /\ writer.left = 0 /\ cell[b] = size /\ size \in Nat
  BY <1>3, <1>4 DEF RingInv, WriterOK, Writers
<1>6. /\ Words(size) \in Nat /\ Words(size) <= Whole(size) + 1 /\ Whole(size) \in Nat
  BY <1>5, WordsFacts
<1>7. Gone = 3 + Whole(size)
  BY <1>3, <1>5, <1>6 DEF Gone
<1>8. \A i \in 1 .. Words(size) : cell[Plus(b, 1 + i)] = value
  <2>1. ASSUME NEW i \in 1 .. Words(size)
        PROVE  cell[Plus(b, 1 + i)] = value
    <3>1. 1 + i \in 2 .. Gone - 1 /\ 1 + i < 2 + Words(size)
      BY <1>6, <1>7
    <3> QED
      BY <1>3, <1>4, <3>1 DEF WroteOK
  <2> QED
    BY <2>1
<1>9. RecordAt(b) = RecordOf(size, value)
  BY <1>5, <1>8 DEF RecordAt, RecordOf
<1> QED
  BY <1>2, <1>3, <1>9

\* What the reader returns is the oldest record.
LEMMA AdvanceTakes ==
  ASSUME Shape, Shape', RingInv, Listed, LoadedOK, Advance
  PROVE  /\ Listed' /\ Records # <<>>
         /\ Head(Records) = <<reader.size, reader.result>> /\ Records' = Tail(Records)
<1>1. PICK t, m : Listing(t, m)
  BY DEF Listed
<1>2. /\ Listed' /\ Records # <<>>
      /\ Head(Records) = RecordAt(top_pointer) /\ Records' = Tail(Records)
  BY <1>1, AdvanceQueue
<1>3. PICK w : w = Words(reader.size)
  OBVIOUS
<1>4. /\ reader.pc = "words" /\ reader.left = 0 /\ reader.size = cell[top_pointer]
      /\ reader.result = [i \in 1 .. w - 0 |-> cell[Plus(top_pointer, 1 + i)]]
  BY <1>3 DEF Advance, LoadedOK
<1>5. w \in Nat
  BY <1>3, WordsFacts DEF Shape, Readers
<1>6. w - 0 = w
  BY <1>5
<1>7. <<reader.size, reader.result>> = RecordAt(top_pointer)
  BY <1>3, <1>4, <1>6 DEF RecordAt
<1> QED
  BY <1>2, <1>7

\* The histories: a call is pending while its function is inside, and the
\* writer still has the arguments that it was given.
HistoryOK ==
  /\ offer = [record |-> offer.record, outcome |-> offer.outcome]
  /\ (offer.outcome = "pending") <=> (writer.pc # "idle")
  /\ (answer.outcome = "pending") <=> (reader.pc # "idle")
  /\ writer.pc # "idle" => offer.record = RecordOf(writer.size, writer.value)

\* Every step of the writer keeps the histories.
LEMMA WriteHistory ==
  ASSUME Shape, HistoryOK, Write
  PROVE  HistoryOK'
<1>1. UNCHANGED <<reader, answer>> /\ writer \in Writers
  BY DEF Write, BeginWrite, StoreWord, Refuse, StoreSize, StoreNext, Publish, Shape, ring,
         history
<1>2. ASSUME NEW size \in Sizes, NEW value \in Values, BeginWrite(size, value)
      PROVE  HistoryOK'
  <2>1. /\ writer'.pc = "words" /\ writer'.size = size /\ writer'.value = value
        /\ offer' = [record |-> RecordOf(size, value), outcome |-> "pending"]
    BY <1>2 DEF BeginWrite
  <2>2. RecordOf(writer.size, writer.value)' = RecordOf(size, value)
    BY <2>1 DEF RecordOf, Words, Whole, Rest
  <2> QED
    BY <1>1, <2>1, <2>2 DEF HistoryOK
<1>3. CASE StoreWord \/ StoreSize \/ StoreNext
  <2>1. /\ writer'.pc # "idle" /\ writer.pc # "idle" /\ offer' = offer
        /\ writer'.size = writer.size /\ writer'.value = writer.value
    BY <1>1, <1>3 DEF StoreWord, StoreSize, StoreNext, Writers, history
  <2>2. RecordOf(writer.size, writer.value)' = RecordOf(writer.size, writer.value)
    BY <2>1 DEF RecordOf, Words, Whole, Rest
  <2> QED
    BY <1>1, <2>1, <2>2 DEF HistoryOK
<1>4. CASE Refuse \/ Publish
  <2>1. /\ writer'.pc = "idle"
        /\ \/ offer' = [offer EXCEPT !.outcome = "false"]
           \/ offer' = [offer EXCEPT !.outcome = "true"]
    BY <1>4 DEF Refuse, Publish, IdleWriter
  <2> QED
    BY <1>1, <2>1 DEF HistoryOK
<1> QED
  BY <1>2, <1>3, <1>4 DEF Write

\* So does every step of the reader.
LEMMA ReadHistory ==
  ASSUME Shape, HistoryOK, Read
  PROVE  HistoryOK'
<1>1. UNCHANGED <<writer, offer>> /\ reader \in Readers
  BY DEF Read, BeginRead, LoadSize, LoadNext, LoadWord, Advance, Shape, history
<1>2. (answer.outcome = "pending" <=> reader.pc # "idle")'
  <2>1. CASE BeginRead
    BY <2>1 DEF BeginRead, IdleReader
  <2>2. CASE LoadSize \/ LoadNext \/ LoadWord
    BY <1>1, <2>2 DEF LoadSize, LoadNext, LoadWord, Readers, HistoryOK, history
  <2>3. CASE Advance
    BY <2>3 DEF Advance, IdleReader
  <2> QED
    BY <2>1, <2>2, <2>3 DEF Read
<1>3. RecordOf(writer.size, writer.value)' = RecordOf(writer.size, writer.value)
  BY <1>1 DEF RecordOf, Words, Whole, Rest
<1> QED
  BY <1>1, <1>2, <1>3 DEF HistoryOK

\* Together: what is between the pointers, on both sides of it, and what the
\* callers have been told.
Stored == Listed /\ WroteOK /\ LoadedOK /\ HistoryOK

\* The record of the writer's call goes into the queue when the call returns
\* true, the oldest one goes out when a read does, and every other step leaves
\* the queue as it is.
QueueMoves ==
  /\ Publish => Records' = Append(Records, RecordOf(writer.size, writer.value))
  /\ Advance => /\ Records # <<>> /\ Head(Records) = <<reader.size, reader.result>>
                /\ Records' = Tail(Records)
  /\ ~Publish /\ ~Advance => Records' = Records

\* A step is not both.
LEMMA NotBoth ==
  ASSUME Publish, Advance
  PROVE  FALSE
<1>1. writer.pc = "publish" /\ writer' = IdleWriter /\ writer' = writer
  BY DEF Publish, Advance
<1> QED
  BY <1>1 DEF IdleWriter

\* Every step keeps what is known of the records and of the calls, and moves
\* the queue as it should.
LEMMA StoredStep ==
  ASSUME Inv, Inv', Stored, Next
  PROVE  Stored' /\ QueueMoves
<1>1. Shape /\ Shape' /\ RingInv /\ Listed /\ WroteOK /\ LoadedOK /\ HistoryOK
  BY DEF Inv, Stored
<1>2. WroteOK'
  BY <1>1, WroteStep
<1>3. LoadedOK'
  <2>1. CASE Read
    BY <1>1, <2>1, ReadLoaded
  <2>2. CASE Write
    <3>1. UNCHANGED <<reader, top_pointer>>
      BY <2>2 DEF Write, BeginWrite, StoreWord, Refuse, StoreSize, StoreNext, Publish, ring,
                  history
    <3> QED
      BY <1>1, <3>1, WriteLoaded
  <2> QED
    BY <2>1, <2>2 DEF Next
<1>4. Listed' /\ QueueMoves
  <2>1. CASE Publish
    BY <1>1, <2>1, PublishPuts, NotBoth DEF QueueMoves
  <2>2. CASE Advance
    BY <1>1, <2>2, AdvanceTakes, NotBoth DEF QueueMoves
  <2>3. CASE ~Publish /\ ~Advance
    <3>1. UNCHANGED <<top_pointer, bottom_pointer>>
      BY <2>3 DEF Next, Write, Read, BeginWrite, StoreWord, Refuse, StoreSize, StoreNext,
                  BeginRead, LoadSize, LoadNext, LoadWord, ring
    <3>2. PICK t, m : Listing(t, m)
      BY <1>1 DEF Listed
    <3>3. Listing(t, m)' /\ Records' = Records
      BY <1>1, <3>1, <3>2, UnreadStays, QueueKept
    <3> QED
      BY <2>3, <3>3 DEF Listed, QueueMoves
  <2> QED
    BY <2>1, <2>2, <2>3
<1>5. HistoryOK'
  BY <1>1, WriteHistory, ReadHistory DEF Next
<1> QED
  BY <1>2, <1>3, <1>4, <1>5 DEF Stored

\* A step that changes nothing changes none of it.
LEMMA StoredStutter ==
  ASSUME Inv, Stored, UNCHANGED vars
  PROVE  Stored' /\ Records' = Records /\ UNCHANGED <<offer, answer>>
<1>1. /\ cell' = cell /\ top_pointer' = top_pointer /\ bottom_pointer' = bottom_pointer
      /\ writer' = writer /\ reader' = reader /\ offer' = offer /\ answer' = answer
  BY DEF vars, ring, history
<1>2. Shape /\ Shape'
  BY <1>1 DEF Inv, Shape
<1>3. PICK t, m : Listing(t, m)
  BY DEF Stored, Listed
<1>4. Listing(t, m)' /\ Records' = Records
  BY <1>1, <1>2, <1>3, QueueKept
<1>5. WroteOK'
  BY <1>1 DEF Stored, WroteOK, Gone, Words, Whole, Rest, Plus
<1>6. LoadedOK'
  BY <1>1 DEF Stored, LoadedOK, Words, Whole, Rest, Plus
<1>7. HistoryOK'
  BY <1>1 DEF Stored, HistoryOK, RecordOf, Words, Whole, Rest
<1> QED
  BY <1>1, <1>4, <1>5, <1>6, <1>7 DEF Stored, Listed

\* At the start there is no record and no call.
LEMMA StoredInit ==
  ASSUME Init, Inv
  PROVE  Stored /\ Queue!Init
<1>1. PICK t : t = [i \in 0 .. 0 |-> 0]
  OBVIOUS
<1>2. top_pointer = 0 /\ bottom_pointer = 0 /\ 0 \in Cells
  BY Ring DEF Init
<1>3. Listing(t, 0)
  <2>1. 0 .. 0 - 1 = {} /\ 0 \in 0 .. 0
    OBVIOUS
  <2> QED
    BY <1>1, <1>2, <2>1 DEF Listing
<1>4. Records = [i \in 1 .. 0 |-> RecordAt(t[i - 1])]
  BY <1>3, RecordsAre DEF Inv
<1>5. Records = <<>>
  BY <1>4
<1>6. WroteOK /\ LoadedOK /\ HistoryOK
  BY DEF Init, IdleWriter, IdleReader, WroteOK, LoadedOK, HistoryOK
<1> QED
  BY <1>3, <1>5, <1>6 DEF Stored, Listed, Queue!Init, Init

\* What the writer and the reader have of their records, and the records in
\* between, at every state.
LEMMA StoredHolds == Spec => []Stored
<1>1. Init /\ Inv => Stored
  BY StoredInit
<1>2. Inv /\ Inv' /\ Stored /\ [Next]_vars => Stored'
  BY StoredStep, StoredStutter
<1> QED
  BY <1>1, <1>2, InvHolds, PTL DEF Spec

\* A step of the ring is a step of the queue, of its callers, or of neither.
LEMMA QueueStep ==
  ASSUME HistoryOK, QueueMoves, Next
  PROVE  Queue!Next \/ UNCHANGED Queue!queueVars
<1>1. ASSUME NEW size \in Sizes, NEW value \in Values, BeginWrite(size, value)
      PROVE  Queue!Next
  <2>1. ~Publish /\ ~Advance
    BY <1>1 DEF BeginWrite, Publish, Advance
  <2>2. /\ offer.outcome # "pending" /\ Records' = Records /\ answer' = answer
        /\ offer' = [record |-> RecordOf(size, value), outcome |-> "pending"]
    BY <1>1, <2>1 DEF BeginWrite, HistoryOK, QueueMoves
  <2>3. Queue!CallWrite(RecordOf(size, value))
    BY <2>2 DEF Queue!CallWrite
  <2> QED
    BY <2>3 DEF Queue!Next
<1>2. CASE StoreWord \/ StoreSize \/ StoreNext
  <2>1. ~Publish /\ ~Advance /\ offer' = offer /\ answer' = answer
    BY <1>2 DEF StoreWord, StoreSize, StoreNext, Publish, Advance, IdleReader, history
  <2> QED
    BY <2>1 DEF QueueMoves, Queue!queueVars
<1>3. CASE Refuse
  <2>1. ~Publish /\ ~Advance
    BY <1>3 DEF Refuse, Publish, Advance, IdleWriter
  <2>2. /\ offer.outcome = "pending" /\ Records' = Records /\ answer' = answer
        /\ offer' = [offer EXCEPT !.outcome = "false"]
    BY <1>3, <2>1 DEF Refuse, HistoryOK, QueueMoves
  <2> QED
    BY <2>2 DEF Queue!Refuse, Queue!Next
<1>4. CASE Publish
  <2>1. /\ offer.outcome = "pending" /\ answer' = answer
        /\ Records' = Append(Records, offer.record)
        /\ offer' = [offer EXCEPT !.outcome = "true"]
    BY <1>4 DEF Publish, HistoryOK, QueueMoves
  <2> QED
    BY <2>1 DEF Queue!Put, Queue!Next
<1>5. CASE BeginRead
  <2>1. ~Publish /\ ~Advance
    BY <1>5 DEF BeginRead, Publish, Advance, IdleReader
  <2>2. /\ answer.outcome # "pending" /\ Records' = Records /\ offer' = offer
        /\ answer' = [record |-> <<>>, outcome |-> "pending"]
    BY <1>5, <2>1 DEF BeginRead, HistoryOK, QueueMoves
  <2> QED
    BY <2>2 DEF Queue!CallRead, Queue!Next
<1>6. CASE LoadSize \/ LoadNext \/ LoadWord
  <2>1. ~Publish /\ ~Advance /\ offer' = offer /\ answer' = answer
    BY <1>6 DEF LoadSize, LoadNext, LoadWord, Publish, Advance, IdleWriter, history
  <2> QED
    BY <2>1 DEF QueueMoves, Queue!queueVars
<1>7. CASE Advance
  <2>1. /\ answer.outcome = "pending" /\ offer' = offer /\ Records # <<>>
        /\ Records' = Tail(Records)
        /\ answer' = [record |-> Head(Records), outcome |-> "true"]
    BY <1>7 DEF Advance, HistoryOK, QueueMoves
  <2> QED
    BY <2>1 DEF Queue!Take, Queue!Next
<1> QED
  BY <1>1, <1>2, <1>3, <1>4, <1>5, <1>6, <1>7 DEF Next, Write, Read

\* The words of the ring are a queue of whole records, in the order in which they
\* were written: a write that returns true has put exactly the record of its
\* call, one that returns false nothing, a read that returns true takes the
\* oldest, and no other step changes the queue.
THEOREM ImplementsQueueCorrect == Spec => ImplementsQueue
<1>1. Init /\ Inv => Queue!Init
  BY StoredInit
<1>2. Inv /\ Inv' /\ Stored /\ [Next]_vars => [Queue!Next]_(Queue!queueVars)
  <2> SUFFICES ASSUME Inv, Inv', Stored, [Next]_vars
               PROVE  Queue!Next \/ UNCHANGED Queue!queueVars
    OBVIOUS
  <2>1. CASE Next
    BY <2>1, StoredStep, QueueStep DEF Stored
  <2>2. CASE UNCHANGED vars
    BY <2>2, StoredStutter DEF Queue!queueVars
  <2> QED
    BY <2>1, <2>2
<1> QED
  BY <1>1, <1>2, InvHolds, StoredHolds, PTL DEF Spec, ImplementsQueue, Queue!Spec
=============================================================================
