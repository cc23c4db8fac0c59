-------------------------- MODULE InputEventReader --------------------------
(***************************************************************************)
(* InputEventCircularReader (src/libsensors/InputEventReader.cpp): the     *)
(* ring of input events between a sensor's input device and its driver.    *)
(* The array is twice as long as the ring, so that one read() may run past *)
(* the end of the ring; what lies beyond is copied back to the start.      *)
(* Pointers are indexes into the array.                                    *)
(***************************************************************************)
EXTENDS Naturals

CONSTANTS
  numEvents,  \* the ring holds numEvents events
  MaxEvents   \* bound: events a run takes from the device

ASSUME RingSize == numEvents \in Nat \ {0}
ASSUME EventBound == MaxEvents \in Nat

VARIABLES
  mBuffer,     \* the array: the number of the event in each cell, 0 for none
  mHead,       \* where the next read() stores
  mCurr,       \* the next event for the driver
  mFreeSpace,  \* events that still fit
  taken,       \* events read from the device
  given,       \* events the driver is done with
  last         \* the event it was handed last

vars == << mBuffer, mHead, mCurr, mFreeSpace, taken, given, last >>

Cells == 0 .. 2 * numEvents - 1
mBufferEnd == numEvents

Init ==
  /\ mBuffer = [c \in Cells |-> 0]
  /\ mHead = 0 /\ mCurr = 0
  /\ mFreeSpace = numEvents
  /\ taken = 0 /\ given = 0 /\ last = 0

\* The array after read() has stored n events at mHead.
Stored(n) == [c \in Cells |-> IF mHead <= c /\ c < mHead + n
                              THEN taken + 1 + (c - mHead) ELSE mBuffer[c]]

\* Definitions named X_Slip are X with a plausible mistake; no action uses them.

Wraps_Slip(n) == mHead + n >= 2 * mBufferEnd
Wraps(n) == mHead + n > mBufferEnd

\* What has run past the end of the ring, copied to its start.
CopiedBack_Slip(n) == Stored(n)
CopiedBack(n) == [c \in Cells |-> IF c < mHead + n - mBufferEnd
                                 THEN Stored(n)[c + mBufferEnd] ELSE Stored(n)[c]]

\* fill(): one read() that returns n whole events.  A read that fails or that
\* returns a partial event changes nothing.
fill(n) ==
  /\ n <= mFreeSpace
  /\ taken + n <= MaxEvents
  /\ taken' = taken + n
  /\ mFreeSpace' = mFreeSpace - n
  /\ \/ /\ ~ Wraps(n)
        /\ mBuffer' = Stored(n)
        /\ mHead' = mHead + n
     \/ /\ Wraps(n)
        /\ mBuffer' = CopiedBack(n)
        /\ mHead' = mHead + n - mBufferEnd
  /\ UNCHANGED << mCurr, given, last >>

AfterCurr == IF mCurr + 1 >= mBufferEnd THEN 0 ELSE mCurr + 1

\* readEvent() says there is an event, the driver takes it and calls next().
next ==
  /\ mFreeSpace # numEvents
  /\ last' = mBuffer[mCurr]
  /\ given' = given + 1
  /\ mFreeSpace' = mFreeSpace + 1
  /\ mCurr' = AfterCurr
  /\ UNCHANGED << mBuffer, mHead, taken >>

Next == (\E n \in 1 .. numEvents : fill(n)) \/ next

Spec == Init /\ [][Next]_vars

-----------------------------------------------------------------------------
TypeOK ==
  /\ mBuffer \in [Cells -> Nat]
  /\ mHead \in 0 .. numEvents
  /\ mCurr \in 0 .. numEvents - 1
  /\ mFreeSpace \in 0 .. numEvents
  /\ taken \in Nat /\ given \in Nat /\ last \in Nat

\* read() stores only inside the array, and what it runs past the end of the ring
\* fits in front of the end when it is copied back.
StaysInside ==
  mHead + mFreeSpace <= 2 * numEvents

\* The ring is sound: head, current cell and free space have their ranges and no
\* read() leaves the array.
RingSound == TypeOK /\ StaysInside

\* The reader is a queue of numEvents events: none lost, repeated or reordered
\* by the wrap, whatever the sizes of the reads.
Fifo == INSTANCE EventFifo WITH N <- numEvents
IsFifo == Fifo!Spec

-----------------------------------------------------------------------------
(* The inductive invariant behind IsFifo. *)

Unread == numEvents - mFreeSpace

\* The cell of the k-th unread event.
CellOf(k) == IF mCurr + k < numEvents THEN mCurr + k ELSE mCurr + k - numEvents

\* mHead is Unread cells after mCurr on the ring; it may rest at the end of the
\* ring, one past the last cell, where mCurr never does.
HeadFollows ==
  \/ mHead = mCurr + Unread
  \/ mHead = mCurr + Unread - numEvents
  \/ mHead = numEvents /\ mCurr = 0 /\ Unread = 0

\* Nothing between mCurr and mHead has been overwritten.
UnreadInPlace == \A k \in 0 .. Unread - 1 : mBuffer[CellOf(k)] = given + 1 + k

IInv == TypeOK /\ taken = given + Unread /\ HeadFollows /\ UnreadInPlace
=============================================================================
