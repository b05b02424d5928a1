--------------------------- MODULE ColumnEncoding ---------------------------
(***************************************************************************)
(* The package encode: what FragmentWriter puts into a column file and     *)
(* FragmentReader gets out of it.                                          *)
(*                                                                         *)
(* MiniBlockEncoder turns the values of a column into bytes, splits those  *)
(* into blocks without regard to where a value ends, compresses each block *)
(* and puts its length in front.  Decode undoes this in loops over the     *)
(* page that stop at the first read that fails.  ConstantEncoder keeps one *)
(* value and the number of rows.                                           *)
(*                                                                         *)
(* Bytes are numbers from 0 to 255.  A value of a type of fixed width is a *)
(* number that is not negative, a string or binary value a sequence of     *)
(* bytes.                                                                  *)
(***************************************************************************)
EXTENDS Integers, SequencesExt, FiniteSetsExt

CONSTANTS
  Types,         \* the column types in use
  Values,        \* the values of a column of each type
  Algorithms,    \* the compressions in use
  BlockSizes,    \* the values BlockSize is set to
  DefaultBlockSize,
  MaxValues      \* bound: values of a column

Width == [int32 |-> 4, float32 |-> 4, vector |-> 4, int64 |-> 8, float64 |-> 8]
Fixed == DOMAIN Width
Variable == {"string", "binary"}

ASSUME ColumnEncodingAssumption ==
  /\ Types \subseteq Fixed \cup Variable
  /\ Algorithms \subseteq {"none", "zstd", "lz4"}
  /\ BlockSizes \subseteq Int /\ DefaultBlockSize \in Nat \ {0} /\ MaxValues \in Nat

VARIABLES
  pc,
  encoder,       \* "miniblock" or "constant"
  type, values,  \* the column, as it was given to Encode
  algo,          \* the compression of the encoder, the same in Decode
  page,          \* what Encode returned, or what is left of it
  cut,           \* the end of the page is lost
  pos, left,     \* Decode: the bytes read, the blocks still to come
  data,          \* the bytes that were decompressed, less the values taken out
  out            \* the values Decode has found

column == <<encoder, type, values, algo>>
vars   == <<pc, column, page, cut, pos, left, data, out>>

-----------------------------------------------------------------------------
(* Encode *)

\* Little endian, and two's complement; n is a 32-bit number.
Bytes(n, w) == [k \in 1..w |-> IF k > 4 THEN 0 ELSE (n \div 256 ^ (k - 1)) % 256]
Int32(n)    == Bytes(n, 4)

SerializeValue(v) ==
  IF type \in Fixed THEN Bytes(v, Width[type]) ELSE Int32(Len(v)) \o v

\* Mutant: only whole blocks are kept.
NumBlocks_WholeOnly(bytes, size) == Len(bytes) \div size

\* splitBlocks: the last block may be short, and no bytes are no blocks.
NumBlocks(bytes, size) == (Len(bytes) + size - 1) \div size

SplitBlocks(bytes, blockSize) ==
  LET size == IF blockSize <= 0 THEN DefaultBlockSize ELSE blockSize IN
  [i \in 1..NumBlocks(bytes, size) |->
     SubSeq(bytes, (i - 1) * size + 1, Min({i * size, Len(bytes)}))]

\* The frames of the libraries: what matters is that they are longer than the
\* block and that Decompress finds out whether it has one.
Magic == [zstd |-> 181, lz4 |-> 4]
Compress(block)   == IF algo = "none" THEN block ELSE <<Magic[algo]>> \o block
IsFrame(bytes)    == algo = "none" \/ (bytes # <<>> /\ bytes[1] = Magic[algo])
Decompress(bytes) == IF algo = "none" THEN bytes ELSE Tail(bytes)

MiniBlockPage(blockSize) ==
  LET blocks == SplitBlocks(FlattenSeq([i \in DOMAIN values |-> SerializeValue(values[i])]),
                            blockSize)
  IN Int32(1) \o Int32(Len(blocks)) \o Int32(blockSize)
     \o FlattenSeq([i \in DOMAIN blocks |->
                      Int32(Len(Compress(blocks[i]))) \o Compress(blocks[i])])

Encode ==
  /\ pc = "encode" /\ encoder = "miniblock"
  /\ \E blockSize \in BlockSizes : page' = MiniBlockPage(blockSize)
  /\ pc' = "stored"
  /\ UNCHANGED <<column, cut, pos, left, data, out>>

\* extractValue: these types only, and not without a value.
ConstantTypes == {"int32", "int64", "float32", "float64", "string"}

ConstantValue(v) == IF type \in Fixed THEN Bytes(v, Width[type]) ELSE v

\* That the other values are the same is left to the caller.
EncodeConstant ==
  /\ pc = "encode" /\ encoder = "constant"
  /\ IF type \in ConstantTypes /\ values # <<>>
     THEN LET v == ConstantValue(values[1]) IN
          /\ page' = Int32(Len(values)) \o Int32(Len(v)) \o v
          /\ pc' = "stored"
     ELSE pc' = "error" /\ UNCHANGED page
  /\ UNCHANGED <<column, cut, pos, left, data, out>>

\* The end of the page is lost: nothing that is written is synced.
Cut ==
  /\ pc = "stored" /\ ~cut
  /\ \E n \in 0..(Len(page) - 1) : page' = SubSeq(page, 1, n)
  /\ cut' = TRUE
  /\ UNCHANGED <<pc, column, pos, left, data, out>>

-----------------------------------------------------------------------------
(* Decode *)

Number(bytes) == FoldRight(LAMBDA b, high : b + 256 * high, bytes, 0)

\* io.ReadFull and binary.Read: all n bytes, or an error.
CanRead(n) == pos + n <= Len(page)
Read(from, n) == SubSeq(page, from + 1, from + n)
ReadInt32(from) == Number(Read(from, 4))

Fail ==
  /\ pc' = "error"
  /\ UNCHANGED <<column, page, cut, pos, left, data, out>>

\* An empty page is an empty column, for both encoders.
DecodeEmpty ==
  /\ pc = "stored" /\ page = <<>>
  /\ IF encoder = "constant" /\ type \notin ConstantTypes THEN Fail
     ELSE pc' = "done" /\ UNCHANGED <<column, page, cut, pos, left, data, out>>

DecodeHeader ==
  /\ pc = "stored" /\ encoder = "miniblock" /\ page # <<>>
  /\ IF ~CanRead(12) THEN Fail
     ELSE /\ left' = ReadInt32(4) /\ pos' = 12 /\ pc' = "blocks"
          /\ UNCHANGED <<column, page, cut, data, out>>

\* Mutant: the loop ends quietly where the page ends.
DecodeBlock_StopsAtEnd ==
  /\ pc = "blocks" /\ left > 0
  /\ IF ~CanRead(4) \/ ~CanRead(4 + ReadInt32(pos)) THEN
       left' = 0 /\ UNCHANGED <<pc, column, page, cut, pos, data, out>>
     ELSE LET length == ReadInt32(pos) IN
          /\ data' = data \o Decompress(Read(pos + 4, length))
          /\ pos' = pos + 4 + length /\ left' = left - 1
          /\ UNCHANGED <<pc, column, page, cut, out>>

DecodeBlock ==
  /\ pc = "blocks" /\ left > 0
  /\ IF ~CanRead(4) \/ ~CanRead(4 + ReadInt32(pos)) THEN Fail
     ELSE LET length == ReadInt32(pos) IN
          IF ~IsFrame(Read(pos + 4, length)) THEN Fail
          ELSE /\ data' = data \o Decompress(Read(pos + 4, length))
               /\ pos' = pos + 4 + length /\ left' = left - 1
               /\ UNCHANGED <<pc, column, page, cut, out>>

\* deserializeInt64 and its like: bytes that make no whole value are dropped.
DeserializeFixed ==
  /\ pc = "blocks" /\ left = 0 /\ type \in Fixed
  /\ LET w == Width[type] IN
     out' = [i \in 1..(Len(data) \div w) |-> Number(SubSeq(data, (i - 1) * w + 1, i * w))]
  /\ pc' = "done"
  /\ UNCHANGED <<column, page, cut, pos, left, data>>

\* deserializeStrings, one round: what follows a value that is cut short is
\* dropped, and that is no error.
DeserializeValue ==
  /\ pc = "blocks" /\ left = 0 /\ type \in Variable
  /\ LET length == Number(SubSeq(data, 1, 4)) IN
     IF Len(data) < 4 \/ Len(data) < 4 + length
     THEN pc' = "done" /\ UNCHANGED <<data, out>>
     ELSE /\ out' = Append(out, SubSeq(data, 5, 4 + length))
          /\ data' = SubSeq(data, 5 + length, Len(data))
          /\ UNCHANGED pc
  /\ UNCHANGED <<column, page, cut, pos, left>>

Replicated(v, n) == [i \in 1..n |-> IF type \in Fixed THEN Number(v) ELSE v]

\* ConstantEncoder.Decode: the value numRows times, whatever the count says.
DecodeConstant(numRows) ==
  /\ pc = "stored" /\ encoder = "constant" /\ page # <<>>
  /\ IF ~CanRead(8) \/ ~CanRead(8 + ReadInt32(4)) THEN Fail
     ELSE /\ out' = Replicated(Read(8, ReadInt32(4)), numRows)
          /\ pc' = "done"
          /\ UNCHANGED <<column, page, cut, pos, left, data>>

Init ==
  /\ pc = "encode" /\ encoder \in {"miniblock", "constant"}
  /\ type \in Types /\ values \in BoundedSeq(Values[type], MaxValues) /\ algo \in Algorithms
  /\ page = <<>> /\ cut = FALSE
  /\ pos = 0 /\ left = 0 /\ data = <<>> /\ out = <<>>

Next ==
  \/ Encode \/ EncodeConstant \/ Cut
  \/ DecodeEmpty \/ DecodeHeader \/ DecodeBlock \/ DeserializeFixed \/ DeserializeValue
  \/ DecodeConstant(Len(values))

Spec == Init /\ [][Next]_vars

-----------------------------------------------------------------------------
(* Properties *)

\* ConstantEncoder is for "columns where all values are identical"
\* (constant.go:11).
Encodable ==
  encoder = "constant" =>
    type \in ConstantTypes /\ values # <<>> /\ \A i \in DOMAIN values : values[i] = values[1]

\* miniblock.go:28-110, 196-319; constant.go:19-55.  What was encoded comes
\* back, value by value, wherever the blocks end: inside a value, inside the
\* length of a string, or where the column does.
RoundTrip ==
  ~cut /\ Encodable => pc # "error" /\ (pc = "done" => out = values)

\* miniblock.go:69-88.  deserializeStrings and its like return what they have
\* when the bytes run out, so it is the count and the lengths of the blocks
\* that keep a page that lost its end from being read as a shorter column.
\* Only a page that lost everything is one.
CutDetected == cut /\ pc = "done" => page = <<>>
=============================================================================
