-------------------------------- MODULE Bitmap --------------------------------
(***************************************************************************)
(* The bitmap of CommonLib (bitmap.c) behind the frame allocator, process  *)
(* identifiers and the reservation spaces: the set of the indices whose    *)
(* bit is set, out of BitCount.  Bytes and masks are left out.             *)
(***************************************************************************)
EXTENDS Integers, FiniteSetsExt

CONSTANT MAX_DWORD   \* 2^32 - 1 in the code; also what a failed search returns

ASSUME BitmapAssumption == MAX_DWORD \in Nat

\* Count indices from Index on.
Run(index, count) == index .. index + count - 1

\* _BitmapChangeBits.
ChangeBits(bits, index, set, count) ==
  IF set THEN bits \union Run(index, count) ELSE bits \ Run(index, count)

\* The assertions of BitmapSetBitsValue, with the DWORD subtraction that
\* wraps if count exceeds the size.
MaySetBits(bitCount, index, count) ==
  index < bitCount /\ (bitCount - count) % (MAX_DWORD + 1) >= index

(* Mutant: the last index tried is one too high. *)
Candidates_PastEnd(bits, start, firstInvalid, count, set) ==
  IF firstInvalid - start < count THEN {}
  ELSE {i \in start .. firstInvalid - count + 1 :
          \A j \in 0 .. count - 1 : i + j \in bits <=> set}

\* The indices _BitmapScanInternal tries, from StartIndex to the last one
\* from which enough bits remain, and those it would accept.
Candidates(bits, start, firstInvalid, count, set) ==
  IF firstInvalid - start < count THEN {}
  ELSE {i \in start .. firstInvalid - count :
          \A j \in 0 .. count - 1 : i + j \in bits <=> set}

(* Mutant: the search stops one index early. *)
ScanFromTo_Short(bits, bitCount, index, firstInvalid, count, set) ==
  IF count = 0 \/ index > firstInvalid \/ firstInvalid > bitCount THEN MAX_DWORD
  ELSE LET hits == Candidates(bits, index, firstInvalid - 1, count, set)
       IN  IF hits = {} THEN MAX_DWORD ELSE Min(hits)

\* BitmapScanFromTo: the first run of count bits equal to set.
ScanFromTo(bits, bitCount, index, firstInvalid, count, set) ==
  IF count = 0 \/ index > firstInvalid \/ firstInvalid > bitCount THEN MAX_DWORD
  ELSE LET hits == Candidates(bits, index, firstInvalid, count, set)
       IN  IF hits = {} THEN MAX_DWORD ELSE Min(hits)
=============================================================================
