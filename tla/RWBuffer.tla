------------------------------ MODULE RWBuffer ------------------------------
(***************************************************************************)
(* The read-write ring of xlibc/rwbuffer.c: one thread writes records of   *)
(* any size and another reads them, without a lock.  They meet only in     *)
(* top_pointer, which the reader moves, and bottom_pointer, which the      *)
(* writer moves when a record is complete.                                 *)
(*                                                                         *)
(* A pointer is the index of a word.  A record is a word for its size, one *)
(* for the pointer to the next record, its whole words, and one more, for  *)
(* the rest of its bytes or for nothing when there is no rest.             *)
(***************************************************************************)
EXTENDS Integers, Sequences, FiniteSets

CONSTANTS
  NumberUints, \* the words allocated, from top_barrier to bottom_barrier
  UintSize,    \* sizeof(euint)
  Sizes,       \* the sizes in bytes that are written
  Values       \* what the words of a record hold

ASSUME RingAssumption ==
  /\ NumberUints \in Nat \ {0} /\ UintSize \in Nat \ {0}
  /\ Sizes \subseteq Nat /\ Values \subseteq Nat

VARIABLES
  cell,           \* the words of the ring
  top_pointer,
  bottom_pointer,
  writer,         \* the locals of RWBuffer_Write
  reader,         \* the locals of RWBuffer_Read, its result included
  offer,          \* history: what the last write was given, and its outcome
  answer          \* history: what the last read gave, and its outcome

ring    == <<cell, top_pointer, bottom_pointer>>
history == <<offer, answer>>
vars    == <<ring, writer, reader, history>>

\* A mistake that TypeOK refutes: never put back.
AfterBarrier(p) == p + 1

\* A pointer is put back only when it is beyond bottom_barrier.
Cells    == 0 .. NumberUints
After(p) == IF p = NumberUints THEN 0 ELSE p + 1

Whole(size) == size \div UintSize
Rest(size)  == size % UintSize # 0
Words(size) == Whole(size) + (IF Rest(size) THEN 1 ELSE 0)

\* The record of a call RWBuffer_Write(self, from, size).
RecordOf(size, value) == <<size, [i \in 1 .. Words(size) |-> value]>>

IdleWriter == [pc |-> "idle", top |-> 0, chunk |-> 0, left |-> 0,
               size |-> 0, value |-> 0]
IdleReader == [pc |-> "idle", size |-> 0, next |-> 0, chunk |-> 0,
               left |-> 0, result |-> <<>>]

Init ==
  /\ cell = [c \in Cells |-> 0]
  /\ top_pointer = 0 /\ bottom_pointer = 0
  /\ writer = IdleWriter /\ reader = IdleReader
  /\ offer  = [record |-> <<>>, outcome |-> "none"]
  /\ answer = [record |-> <<>>, outcome |-> "none"]
-----------------------------------------------------------------------------
(* Operations with a mistake in them, each refuted by the property named. *)

StoreWordUntested ==              \* NoOverwrite: no test before the store
  /\ writer.pc = "words" /\ writer.left > 0
  /\ cell' = [cell EXCEPT ![writer.chunk] = writer.value]
  /\ writer' = [writer EXCEPT !.chunk = After(@), !.left = @ - 1]
  /\ UNCHANGED <<top_pointer, bottom_pointer, reader, history>>

StoreSizeUntested ==              \* ImplementsQueue: no test of the new bottom
  /\ writer.pc = "words" /\ writer.left = 0
  /\ cell' = [cell EXCEPT ![bottom_pointer] = writer.size]
  /\ writer' = [writer EXCEPT !.pc = "next"]
  /\ UNCHANGED <<top_pointer, bottom_pointer, reader, history>>
-----------------------------------------------------------------------------
(* RWBuffer_Write *)

\* Up to the test of the size; a call refused here changes nothing.
BeginWrite(size, value) ==
  /\ writer.pc = "idle"
  /\ size # 0
  /\ top_pointer \notin {After(bottom_pointer), After(After(bottom_pointer))}
  /\ writer' = [pc |-> "words", top |-> top_pointer,
                chunk |-> After(After(bottom_pointer)),
                left |-> Whole(size) + 1, size |-> size, value |-> value]
  /\ offer' = [record |-> RecordOf(size, value), outcome |-> "pending"]
  /\ UNCHANGED <<ring, reader, answer>>

\* PTR_TEST and a word; the last one is skipped when there is no rest.
StoreWord ==
  /\ writer.pc = "words" /\ writer.left > 0
  /\ writer.chunk # writer.top
  /\ cell' = IF writer.left > 1 \/ Rest(writer.size)
             THEN [cell EXCEPT ![writer.chunk] = writer.value] ELSE cell
  /\ writer' = [writer EXCEPT !.chunk = After(@), !.left = @ - 1]
  /\ UNCHANGED <<top_pointer, bottom_pointer, reader, history>>

\* PTR_TEST has met the top: RWBuffer_Write returns false.
Refuse ==
  /\ writer.pc = "words"
  /\ writer.chunk = writer.top
  /\ writer' = IdleWriter
  /\ offer' = [offer EXCEPT !.outcome = "false"]
  /\ UNCHANGED <<ring, reader, answer>>

StoreSize ==
  /\ writer.pc = "words" /\ writer.left = 0
  /\ writer.chunk # writer.top
  /\ cell' = [cell EXCEPT ![bottom_pointer] = writer.size]
  /\ writer' = [writer EXCEPT !.pc = "next"]
  /\ UNCHANGED <<top_pointer, bottom_pointer, reader, history>>

StoreNext ==
  /\ writer.pc = "next"
  /\ cell' = [cell EXCEPT ![After(bottom_pointer)] = writer.chunk]
  /\ writer' = [writer EXCEPT !.pc = "publish"]
  /\ UNCHANGED <<top_pointer, bottom_pointer, reader, history>>

Publish ==
  /\ writer.pc = "publish"
  /\ bottom_pointer' = writer.chunk
  /\ writer' = IdleWriter
  /\ offer' = [offer EXCEPT !.outcome = "true"]
  /\ UNCHANGED <<cell, top_pointer, reader, answer>>
-----------------------------------------------------------------------------
(* RWBuffer_Read *)

BeginRead ==
  /\ reader.pc = "idle"
  /\ top_pointer # bottom_pointer
  /\ reader' = [IdleReader EXCEPT !.pc = "size"]
  /\ answer' = [record |-> <<>>, outcome |-> "pending"]
  /\ UNCHANGED <<ring, writer, offer>>

LoadSize ==
  /\ reader.pc = "size"
  /\ reader' = [reader EXCEPT !.pc = "next", !.size = cell[top_pointer]]
  /\ UNCHANGED <<ring, writer, history>>

LoadNext ==
  /\ reader.pc = "next"
  /\ reader' = [reader EXCEPT
       !.pc    = "words",
       !.next  = cell[After(top_pointer)],
       !.chunk = After(After(top_pointer)),
       !.left  = Words(reader.size)]
  /\ UNCHANGED <<ring, writer, history>>

LoadWord ==
  /\ reader.pc = "words" /\ reader.left > 0
  /\ reader' = [reader EXCEPT !.chunk = After(@), !.left = @ - 1,
                              !.result = Append(@, cell[reader.chunk])]
  /\ UNCHANGED <<ring, writer, history>>

Advance ==
  /\ reader.pc = "words" /\ reader.left = 0
  /\ top_pointer' = reader.next
  /\ reader' = IdleReader
  /\ answer' = [record |-> <<reader.size, reader.result>>, outcome |-> "true"]
  /\ UNCHANGED <<cell, bottom_pointer, writer, offer>>
-----------------------------------------------------------------------------
Write == \/ \E size \in Sizes, value \in Values : BeginWrite(size, value)
         \/ StoreWord \/ Refuse \/ StoreSize \/ StoreNext \/ Publish
Read  == BeginRead \/ LoadSize \/ LoadNext \/ LoadWord \/ Advance

Next == Write \/ Read

Spec == Init /\ [][Next]_vars
-----------------------------------------------------------------------------
(* Properties. *)

\* Every pointer stays in the ring.
TypeOK ==
  /\ cell \in [Cells -> Nat]
  /\ top_pointer \in Cells /\ bottom_pointer \in Cells
  /\ writer.pc \in {"idle", "words", "next", "publish"}
  /\ reader.pc \in {"idle", "size", "next", "words"}
  /\ {writer.top, writer.chunk, reader.next, reader.chunk} \subseteq Cells
  /\ writer.left \in Nat /\ reader.left \in Nat

\* How far q is behind p, going round the ring.
Distance(p, q) == (q - p) % (NumberUints + 1)

Unread == {c \in Cells : Distance(top_pointer, c)
                          < Distance(top_pointer, bottom_pointer)}

\* The writer, which looked at top_pointer once, stores nothing in a record
\* that the reader has still to read or is reading.
NoOverwrite == [][\A c \in Unread : cell'[c] = cell[c]]_vars

\* The records between the pointers: where each begins, and what it holds.
Records ==
  LET start[i \in Cells] ==
        IF i = 0 THEN top_pointer
        ELSE IF start[i - 1] = bottom_pointer THEN bottom_pointer
        ELSE cell[After(start[i - 1])]
      count == Cardinality({i \in Cells : start[i] # bottom_pointer})
      word(p, i) == cell[(p + 1 + i) % (NumberUints + 1)]
      record(p) ==
        <<cell[p], [i \in 1 .. Words(cell[p]) |-> word(p, i)]>>
  IN  [i \in 1 .. count |-> record(start[i - 1])]

Queue == INSTANCE RecordQueue WITH
  queue  <- Records,
  Record <- {RecordOf(size, value) : size \in Sizes, value \in Values}

\* The words of the ring are a queue of whole records.  A write that returns
\* true has added the record that this call was given, and one that returns
\* false nothing; a read that returns true gives the oldest record and removes
\* it; no other step changes the queue.
ImplementsQueue == Queue!Spec

\* The diagram in line 18 puts the bottom barrier inside the buffer: no word
\* behind the allocated ones is used.
InsideAllocation ==
  [][\A c \in Cells : cell'[c] # cell[c] => c < NumberUints]_vars
=============================================================================
