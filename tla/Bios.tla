-------------------------------- MODULE Bios --------------------------------
(***************************************************************************)
(* The BIOS calls of platform/bios.c that are loops: the two unpackers and *)
(* the square root.  What the unpackers are given is some packing of some  *)
(* data, of the many there are: whoever packed it chose where to copy from *)
(* and how far, and may have copied from bytes the copy itself produces,   *)
(* or have let the last token reach past the end.  A packed byte is a      *)
(* token here: a flags byte is the sequence of its bits, and the two bytes *)
(* of a copy are its length and its distance.                              *)
(***************************************************************************)
EXTENDS Integers, Sequences, FiniteSetsExt

CONSTANTS
  Bytes,       \* what data is made of
  DataSize,    \* bound: how much data is packed
  Group,       \* 8, the tokens a flags byte speaks of
  MinLen,      \* 3, what is added to the length field of a copy or a run
  MaxLen,      \* 18 and 130, the longest a copy or a run can be
  Rounds       \* 16, the rounds of Sqrt: it takes a word of as many bit pairs

ASSUME BiosAssumption ==
  /\ {DataSize, Group, MinLen, MaxLen, Rounds} \subseteq Nat \ {0} /\ MinLen <= MaxLen

VARIABLES
  job,        \* "pack" or "unpack" and how, "sqrt", "done", or "none"
  data,       \* what is packed
  packed,     \* what is left of the source: its tokens
  upTo,       \* how much of the data the packer has packed
  flags,      \* bits of the flags byte not used yet
  dst,        \* what was written
  root, rem, num

biosVars == <<job, data, packed, upTo, flags, dst, root, rem, num>>

Size == Len(data)

-----------------------------------------------------------------------------
(* The packer: any that the format allows. *)

Literal(k)    == [type |-> "literal", byte |-> data[k]]
Copy(n, disp) == [type |-> "copy", len |-> n, disp |-> disp]
Run(n, b)     == [type |-> "run", len |-> n, byte |-> b]

(* A copy of n bytes from disp back brings what comes next, and one that   *)
(* goes past the end of the data is the last.                              *)
Brings(n, disp) ==
  disp \in 1 .. upTo /\ \A k \in upTo + 1 .. Min({upTo + n, Size}) : data[k] = data[k - disp]

Pack(token, n) ==
  /\ packed' = Append(packed, token) /\ upTo' = Min({upTo + n, Size})
  /\ UNCHANGED <<job, data, flags, dst, root, rem, num>>

PackLZ77 ==
  /\ job = "pack LZ77" /\ upTo < Size
  /\ \/ Pack(Literal(upTo + 1), 1)
     \/ \E n \in MinLen .. MaxLen, disp \in 1 .. Size : Brings(n, disp) /\ Pack(Copy(n, disp), n)

PackRL ==
  /\ job = "pack RL" /\ upTo < Size
  /\ \/ \E n \in MinLen .. MaxLen :
          /\ \A k \in upTo + 1 .. Min({upTo + n, Size}) : data[k] = data[upTo + 1]
          /\ Pack(Run(n, data[upTo + 1]), n)
     \/ \E n \in 1 .. Size - upTo : Pack([type |-> "raw", bytes |-> SubSeq(data, upTo + 1, upTo + n)], n)

(* A flags byte goes before every group of tokens. *)
Grouped ==
  LET groups == (Len(packed) + Group - 1) \div Group
      Bits(g) == [k \in 1 .. Group |-> LET t == (g - 1) * Group + k
                                       IN  t <= Len(packed) /\ packed[t].type = "copy"]
      each == Group + 1
      At(k) == LET g == 1 + (k - 1) \div each
               IN  IF k % each = 1 THEN [type |-> "flags", bits |-> Bits(g)] ELSE packed[k - g]
  IN  [k \in 1 .. Len(packed) + groups |-> At(k)]

Packed ==
  /\ upTo = Size
  /\ \/ job = "pack LZ77" /\ job' = "LZ77" /\ packed' = Grouped
     \/ job = "pack RL" /\ job' = "RL" /\ UNCHANGED packed
  /\ UNCHANGED <<data, upTo, flags, dst, root, rem, num>>

-----------------------------------------------------------------------------
(* LZ77UnComp, a byte of the source at a time. *)

(* Bug: the bytes are moved at once, as by a memcpy. *)
MovedAtOnce(bytes, n, disp) ==
  bytes \o [k \in 1 .. n |-> LET from == Len(bytes) + k - disp
                             IN  IF from <= Len(bytes) THEN bytes[from] ELSE 0]
Moved(bytes, n, disp) == bytes \o [k \in 1 .. n |-> bytes[Len(bytes) - disp + 1 + ((k - 1) % disp)]]

Write(bytes) ==
  /\ dst' = bytes /\ packed' = Tail(packed)
  /\ UNCHANGED <<job, data, upTo, root, rem, num>>

LZ77UnComp ==
  /\ job = "LZ77" /\ Len(dst) < Size
  /\ LET token == Head(packed)
     IN \/ flags = <<>> /\ flags' = token.bits /\ Write(dst)
        \/ /\ flags # <<>> /\ flags' = Tail(flags)
           /\ IF Head(flags) THEN Write(Moved(dst, Min({token.len, Size - Len(dst)}), token.disp))
              ELSE Write(Append(dst, token.byte))

(* RLUnComp. *)
RLUnComp ==
  /\ job = "RL" /\ Len(dst) < Size /\ UNCHANGED flags
  /\ LET token == Head(packed)
     IN \/ /\ token.type = "run"
           /\ Write(dst \o [k \in 1 .. Min({token.len, Size - Len(dst)}) |-> token.byte])
        \/ token.type = "raw" /\ Write(dst \o SubSeq(token.bytes, 1, Min({Len(token.bytes), Size - Len(dst)})))

Unpacked ==
  /\ job \in {"LZ77", "RL"} /\ Len(dst) = Size /\ job' = "done"
  /\ UNCHANGED <<data, packed, upTo, flags, dst, root, rem, num>>

(* Sqrt: a round takes two bits of the number. *)
PowerOf4[k \in 0 .. Rounds] == IF k = 0 THEN 1 ELSE 4 * PowerOf4[k - 1]
Word == PowerOf4[Rounds]

Sqrt ==
  /\ job = "sqrt" /\ upTo < Rounds /\ upTo' = upTo + 1
  /\ num' = (num * 4) % Word
  /\ LET r == 4 * rem + num \div PowerOf4[Rounds - 1]
     IN IF 2 * root < r THEN rem' = r - (2 * root + 1) /\ root' = 2 * root + 2
        ELSE rem' = r /\ root' = 2 * root
  /\ UNCHANGED <<job, data, packed, flags, dst>>

NoCall ==
  /\ packed = <<>> /\ upTo = 0 /\ flags = <<>> /\ dst = <<>> /\ root = 0 /\ rem = 0

CallInit ==
  /\ NoCall
  /\ \/ job \in {"pack LZ77", "pack RL"} /\ num = 0 /\ \E n \in 1 .. DataSize : data \in [1 .. n -> Bytes]
     \/ job = "sqrt" /\ num \in 0 .. Word - 1 /\ data = <<num>>

BiosNext == PackLZ77 \/ PackRL \/ Packed \/ LZ77UnComp \/ RLUnComp \/ Unpacked \/ Sqrt

-----------------------------------------------------------------------------
(* PROPERTIES                                                              *)

(* Whatever the packing, what comes out is what was packed and no byte     *)
(* more, with every token used; on the way there it is always a beginning  *)
(* of it.  And the root is the one that truncation gives.                  *)
BiosAnswers ==
  /\ job \in {"LZ77", "RL", "done"} => Len(dst) <= Size /\ dst = SubSeq(data, 1, Len(dst))
  /\ job = "done" => packed = <<>>
  /\ job = "sqrt" /\ upTo = Rounds =>
       LET r == root \div 2 IN r * r <= data[1] /\ data[1] < (r + 1) * (r + 1)
=============================================================================
