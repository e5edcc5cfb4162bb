------------------------------- MODULE RxFifo -------------------------------
(***************************************************************************)
(* What the RX buffer promises its reader: a FIFO of whole frames.         *)
(*                                                                         *)
(* A frame is a record of a tag, standing for everything received in it,   *)
(* and the number of its data words.  It is delivered as a FRAME_FORMAT    *)
(* word that holds the read word count RWCNT, an identifier word, two      *)
(* timestamp words and the data words, in this order.  Frames appear in    *)
(* the FIFO whole or not at all, and message_count counts those of which   *)
(* a word is still to be read.                                             *)
(***************************************************************************)
EXTENDS Naturals, Sequences

CONSTANT Frame         \* frames, records [tag |-> ..., data |-> Nat]

VARIABLES fifo,        \* the words that are still to be read
          frames       \* the number of frames they belong to

fifoVars == <<fifo, frames>>

\* Words before the data words.
HeaderWords == 4

\* The i-th word of frame f, i counted from 0.
FrameWord(f, i) ==
  [tag |-> f.tag, pos |-> i, rwcnt |-> IF i = 0 THEN 3 + f.data ELSE 0]

FrameLen(f) == HeaderWords + f.data

FrameWords(f) == [i \in 1..FrameLen(f) |-> FrameWord(f, i - 1)]

FifoInit == fifo = <<>> /\ frames = 0

\* A word is read; with the last word of a frame the frame is gone.
WordsLeft == Tail(fifo)
FramesLeft ==
  IF WordsLeft = <<>> \/ Head(WordsLeft).pos = 0 THEN frames - 1 ELSE frames

ReadWord == fifo # <<>> /\ fifo' = WordsLeft /\ frames' = FramesLeft

CommitFrame == \E f \in Frame : fifo' = fifo \o FrameWords(f) /\ frames' = frames + 1

\* A word is read in the very cycle in which a frame is committed.
ReadAndCommit ==
  /\ fifo # <<>>
  /\ \E f \in Frame : fifo' = WordsLeft \o FrameWords(f)
  /\ frames' = FramesLeft + 1

Release == fifo' = <<>> /\ frames' = 0

FifoNext == ReadWord \/ CommitFrame \/ ReadAndCommit \/ Release

FifoSpec == FifoInit /\ [][FifoNext]_fifoVars
=============================================================================
