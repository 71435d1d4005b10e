------------------------------ MODULE KeyStream ------------------------------
(***************************************************************************)
(* lib/src/gkcrypt.c: the key stream that Takion's packets are encrypted   *)
(* with is generated ahead of its use, chunk by chunk, by a thread that    *)
(* writes into a ring buffer outside the mutex while others read the       *)
(* chunks before it.                                                       *)
(*                                                                         *)
(* A cell is a part of a chunk; the cell of the stream at position p is    *)
(* the number p (the cipher is a function of the position).                *)
(***************************************************************************)
EXTENDS Integers

CONSTANTS ChunkCells,   \* cells of a chunk (KEY_BUF_CHUNK_SIZE)
          Chunks,       \* chunks of the buffer
          MaxPos,       \* bound: positions asked for
          MaxAsk        \* cells asked for at once

VARIABLES key_buf,          \* cell -> stream position, or Empty
          populated, key_pos_min, start_offset, last_key_pos,
          thread,           \* "wait", "generate", "ended"
          chunk,            \* position and offset the thread took along to generate
          stop,             \* key_buf_thread_stop
          got               \* the last stream handed out: position asked, cells

buffer == <<key_buf, populated, key_pos_min, start_offset>>
vars == <<buffer, last_key_pos, thread, chunk, stop, got>>

Empty == -1
Size == Chunks * ChunkCells

ShouldGenerate == last_key_pos > key_pos_min + populated \div 2

-----------------------------------------------------------------------------
(* The readers                                                              *)

Larger(a, b) == IF a > b THEN a ELSE b

\* mutant: the start of the ring is forgotten
BufferedAt(p) == key_buf[(p - key_pos_min) % Size]

Buffered(p) == key_buf[(p - key_pos_min + start_offset) % Size]

InBuffer(pos, n) == pos >= key_pos_min /\ pos + n < key_pos_min + populated

\* What is not in the buffer is generated by the reader itself.
GetKeyStream(pos, n) ==
  /\ last_key_pos' = Larger(last_key_pos, pos + n)
  /\ got' = [pos |-> pos,
             cells |-> [i \in 0 .. n - 1 |-> IF InBuffer(pos, n) THEN Buffered(pos + i) ELSE pos + i]]
  /\ UNCHANGED <<buffer, thread, chunk, stop>>

Decrypt == /\ ~stop
           /\ \E pos \in 0 .. MaxPos, n \in 1 .. MaxAsk : pos + n <= MaxPos /\ GetKeyStream(pos, n)

-----------------------------------------------------------------------------
(* The thread                                                               *)

\* key_buf_mutex_pred, and what the thread does to the ring before it leaves
\* the mutex to generate the next chunk.
Wake ==
  /\ thread = "wait" /\ ~stop
  /\ populated < Size \/ ShouldGenerate
  /\ \/ /\ last_key_pos > key_pos_min + populated
        /\ key_pos_min' = (last_key_pos \div ChunkCells) * ChunkCells
        /\ start_offset' = 0 /\ populated' = 0
     \/ /\ last_key_pos <= key_pos_min + populated /\ populated = Size
        /\ key_pos_min' = key_pos_min + ChunkCells
        /\ start_offset' = (start_offset + ChunkCells) % Size
        /\ populated' = populated - ChunkCells
     \/ /\ last_key_pos <= key_pos_min + populated /\ populated # Size
        /\ UNCHANGED <<key_pos_min, start_offset, populated>>
  /\ chunk' = [pos |-> key_pos_min' + populated', offset |-> (start_offset' + populated') % Size]
  /\ thread' = "generate"
  /\ UNCHANGED <<key_buf, last_key_pos, stop, got>>

ChunkOffsets == {chunk.offset + i : i \in 0 .. ChunkCells - 1}

\* The chunk is written cell by cell, without the mutex.
GenerateCell ==
  /\ thread = "generate"
  /\ \E o \in ChunkOffsets :
       /\ key_buf[o] # chunk.pos + o - chunk.offset
       /\ key_buf' = [key_buf EXCEPT ![o] = chunk.pos + o - chunk.offset]
  /\ UNCHANGED <<populated, key_pos_min, start_offset, last_key_pos, thread, chunk, stop, got>>

ChunkDone == \A o \in ChunkOffsets : key_buf[o] = chunk.pos + o - chunk.offset

Generated ==
  /\ thread = "generate" /\ ChunkDone
  /\ populated' = populated + ChunkCells
  /\ thread' = "wait"
  /\ UNCHANGED <<key_buf, key_pos_min, start_offset, last_key_pos, chunk, stop, got>>

ThreadEnds == /\ thread = "wait" /\ stop /\ thread' = "ended"
              /\ UNCHANGED <<buffer, last_key_pos, chunk, stop, got>>

\* chiaki_gkcrypt_fini sets the flag under the mutex, signals, and joins.
Fini == /\ ~stop /\ stop' = TRUE
        /\ UNCHANGED <<buffer, last_key_pos, thread, chunk, got>>

-----------------------------------------------------------------------------
Init ==
  /\ key_buf = [o \in 0 .. Size - 1 |-> Empty]
  /\ populated = 0 /\ key_pos_min = 0 /\ start_offset = 0 /\ last_key_pos = 0
  /\ thread = "wait" /\ chunk = [pos |-> 0, offset |-> 0] /\ stop = FALSE
  /\ got = [pos |-> 0, cells |-> <<>>]

ThreadStep == Wake \/ GenerateCell \/ Generated \/ ThreadEnds

Next == Decrypt \/ ThreadStep \/ Fini

Spec == Init /\ [][Next]_vars
FairSpec == Spec /\ WF_vars(ThreadStep)

-----------------------------------------------------------------------------
TypeOK ==
  /\ populated \in 0 .. Size /\ populated % ChunkCells = 0
  /\ start_offset \in 0 .. Size - 1 /\ key_pos_min % ChunkCells = 0
  /\ thread \in {"wait", "generate", "ended"}
  /\ thread = "generate" => populated < Size

\* Whoever asks for the key stream gets the cells of the position asked for,
\* though the thread overwrites and shifts the ring at the same time.
RightStream == \A i \in DOMAIN got.cells : got.cells[i] = got.pos + i

\* The thread gets ahead of the readers: it does not stay behind the newest
\* position asked for, unless it is stopped, and then it ends.
KeepsUp == last_key_pos <= key_pos_min + populated \/ thread = "ended"
EndedIfStopped == stop => thread = "ended"
CatchesUp == []<>KeepsUp
EndsWhenStopped == []<>EndedIfStopped

-----------------------------------------------------------------------------
(* The inductive invariant that RightStream follows from                    *)

\* The buffer has chunks, and chunks have cells.
KeyStreamAssumption == /\ ChunkCells \in Nat \ {0} /\ Chunks \in Nat \ {0}
                       /\ MaxPos \in Nat /\ MaxAsk \in Nat

\* The cell of the ring that is j cells after its start.
Slot(j) == (start_offset + j) % Size

Multiple(x) == \E k \in Nat : x = k * ChunkCells

\* The ring holds whole chunks, and it starts where one begins.
Aligned ==
  /\ start_offset \in 0 .. Size - 1 /\ Multiple(start_offset)
  /\ populated \in 0 .. Size /\ Multiple(populated)
  /\ key_pos_min \in Nat /\ Multiple(key_pos_min)
  /\ last_key_pos \in Nat
  /\ thread \in {"wait", "generate", "ended"}

\* What is populated is the stream from key_pos_min on.
Filled ==
  /\ key_buf \in [0 .. Size - 1 -> Int]
  /\ \A j \in 0 .. populated - 1 : key_buf[Slot(j)] = key_pos_min + j

\* The thread writes the next chunk into cells that are not populated.
WritesNext ==
  thread = "generate" =>
    /\ populated + ChunkCells <= Size
    /\ chunk.pos = key_pos_min + populated /\ chunk.offset = Slot(populated)

Inv == Aligned /\ Filled /\ WritesNext /\ RightStream
=============================================================================
