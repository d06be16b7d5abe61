---------------------------- MODULE DeletionVector ----------------------------
(***************************************************************************)
(* The reader of deletion vectors: the Puffin container                    *)
(* (UCPuffinReader), the blob (UCDeletionVectorData::FromBlob) and the set *)
(* of row positions it stands for (ToSet) of src/src/uc_puffin.cpp.        *)
(*                                                                         *)
(* Bytes are taken four at a time: a buffer is a sequence of cells, and    *)
(* all sizes and offsets count cells.  vector_size is a 32-bit number that *)
(* is only ever decremented, here modulo Word.  Roaring bitmaps and JSON   *)
(* are external: a cell says what parses as one from there on.  A checksum *)
(* is the sequence of cells it was made from, so there are no collisions.  *)
(***************************************************************************)
EXTENDS Integers, Sequences

CONSTANTS
  Word,        \* 2^32: numbers in a cell
  Bucket,      \* 2^32: positions under one key
  DvMagic,     \* DELETION_VECTOR_MAGIC
  PuffinMagic  \* PUFFIN_MAGIC

ASSUME DeletionVectorAssumption ==
  /\ Word \in Nat \ {0}
  /\ Bucket \in Nat
  /\ DvMagic # PuffinMagic

\* A cell: the number it holds; the size of the bitmap that begins here (0:
\* none does) and its values; the cells it is the checksum of; the footer that
\* begins and ends here (at most one), a sequence of blob metadata.
Cell(w) == [word |-> w, size |-> 0, values |-> {}, sum |-> <<>>, footer |-> {}]

\* A buffer, whatever is in it.
IsBuffer(buf) ==
  /\ Len(buf) \in Nat
  /\ DOMAIN buf = 1 .. Len(buf)
  /\ \A i \in DOMAIN buf :
       /\ buf[i].word \in 0 .. Word - 1
       /\ buf[i].size \in Nat
       /\ \A metadata \in buf[i].footer :
            /\ Len(metadata) \in Nat
            /\ DOMAIN metadata = 1 .. Len(metadata)
            /\ \A j \in DOMAIN metadata :
                 metadata[j].offset \in Int /\ metadata[j].length \in Int

VARIABLES
  file,         \* the buffer
  pending,      \* metadata of its blobs that are still to be looked at
  window,       \* the blob being decoded: its offset and length
  pos,          \* blob_start: cells of the blob read so far
  vector_size,
  left,         \* bitmaps still to read
  bitmaps,      \* those read, by key
  positions,    \* of the blobs decoded so far
  reached,      \* ghost: how far into the blob a read was allowed to go
  dv            \* where the reader is

dvVars == <<file, pending, window, pos, vector_size, left, bitmaps, positions,
            reached, dv>>

Idle ==
  /\ file = <<>> /\ pending = <<>> /\ window = [offset |-> 0, length |-> 0]
  /\ pos = 0 /\ vector_size = 0 /\ left = 0 /\ bitmaps = <<>>
  /\ positions = {} /\ reached = 0 /\ dv = "idle"

\* The buffer and all that was read of it are gone.
Reset ==
  /\ file' = <<>> /\ pending' = <<>>
  /\ window' = [offset |-> 0, length |-> 0]
  /\ pos' = 0 /\ vector_size' = 0 /\ left' = 0 /\ bitmaps' = <<>>
  /\ positions' = {} /\ reached' = 0 /\ dv' = "idle"

At(i) == file[window.offset + i]

Signed(n, modulus) == IF 2 * n >= modulus THEN n - modulus ELSE n

Min2(a, b) == IF a <= b THEN a ELSE b

Throw ==
  /\ dv' = "error"
  /\ UNCHANGED <<file, pending, window, pos, vector_size, left, bitmaps,
                 positions, reached>>

-----------------------------------------------------------------------------
(* The container:  PFA1  blobs  PFA1  payload  payload size  flags  PFA1   *)

TailSize    == 3
MinFileSize == 5

IsPuffin(buf) == Len(buf) >= MinFileSize /\ buf[1].word = PuffinMagic

IsBareDeletionVector(buf) == Len(buf) >= 2 /\ buf[2].word = DvMagic

PayloadSize(buf) == buf[Len(buf) - 2].word

\* Cells before the payload.
PayloadStart(buf) == Len(buf) - TailSize - PayloadSize(buf)

\* Flags: a compressed footer or any other flag is not supported.
FooterIsValid(buf) ==
  /\ buf[Len(buf)].word = PuffinMagic
  /\ buf[Len(buf) - 1].word = 0
  /\ PayloadSize(buf) <= Len(buf) - MinFileSize
  /\ buf[PayloadStart(buf)].word = PuffinMagic

\* The metadata of all blobs, if the payload is JSON.
ParseFileMetadata(buf) ==
  IF PayloadSize(buf) = 1 THEN buf[PayloadStart(buf) + 1].footer ELSE {}

\* Mutant: the length is not tested on its own, and the subtraction wraps.
InBlobSectionWraps(m, end) ==
  m.offset >= 1 /\ m.length >= 0 /\ m.offset <= (end - m.length) % Word

InBlobSection(m, end) ==
  m.offset >= 1 /\ m.length >= 0 /\ m.length <= end /\ m.offset <= end - m.length

IsDeletionVector(m) == m.type = "deletion-vector-v1"

\* Blobs of other types are not looked at further.
BlobMetadataIsValid(m, end) ==
  /\ m.type # "none"
  /\ IsDeletionVector(m) => InBlobSection(m, end)

StartWith(buf, blobs) ==
  /\ file' = buf
  /\ pending' = blobs
  /\ positions' = {}
  /\ dv' = "next"
  /\ UNCHANGED <<window, pos, vector_size, left, bitmaps, reached>>

\* One blob, whose place in the file is known: the buffer is the blob.
ReadSection(buf) ==
  StartWith(buf, <<[type |-> "deletion-vector-v1", offset |-> 0,
                    length |-> Len(buf)]>>)

\* UCPuffinReader on a whole file.
ParseFooter(buf) ==
  LET end   == PayloadStart(buf) - 1
      valid == {metadata \in ParseFileMetadata(buf) :
                  \A i \in DOMAIN metadata : BlobMetadataIsValid(metadata[i], end)}
  IN  CASE ~IsPuffin(buf) /\ IsBareDeletionVector(buf) -> ReadSection(buf)
        [] ~IsPuffin(buf) /\ ~IsBareDeletionVector(buf) -> Throw
        [] IsPuffin(buf) ->
             IF FooterIsValid(buf) /\ valid # {}
               THEN \E metadata \in valid : StartWith(buf, metadata)
               ELSE Throw

NextBlob ==
  /\ dv = "next"
  /\ \E i \in DOMAIN pending :
       /\ IsDeletionVector(pending[i])
       /\ \A j \in 1 .. i - 1 : ~IsDeletionVector(pending[j])
       /\ window' = [offset |-> pending[i].offset, length |-> pending[i].length]
       /\ pending' = SubSeq(pending, i + 1, Len(pending))
  /\ reached' = 0
  /\ dv' = "header"
  /\ UNCHANGED <<file, pos, vector_size, left, bitmaps, positions>>

NoMoreBlobs ==
  /\ dv = "next"
  /\ \A i \in DOMAIN pending : ~IsDeletionVector(pending[i])
  /\ dv' = "done"
  /\ UNCHANGED <<file, pending, window, pos, vector_size, left, bitmaps,
                 positions, reached>>

-----------------------------------------------------------------------------
(* The blob:  vector size  magic  count (2)  { key  bitmap }  checksum     *)

HeaderSize  == 4
MinBlobSize == 5

BitmapCount == At(3).word + Word * Signed(At(4).word, Word)

\* Mutant: vector_size is a signed number.
ReadHeaderSigned ==
  /\ dv = "header"
  /\ IF window.length < MinBlobSize \/ At(2).word # DvMagic \/ BitmapCount < 0
       THEN Throw
       ELSE /\ pos' = HeaderSize
            /\ reached' = HeaderSize
            /\ vector_size' = At(1).word - 3
            /\ left' = BitmapCount
            /\ bitmaps' = <<>>
            /\ dv' = "bitmaps"
            /\ UNCHANGED <<file, pending, window, positions>>

\* Mutant: the whole header is taken off vector_size, which is not in itself.
ReadHeaderTakesFour ==
  /\ dv = "header"
  /\ IF window.length < MinBlobSize \/ At(2).word # DvMagic \/ BitmapCount < 0
       THEN Throw
       ELSE /\ pos' = HeaderSize
            /\ reached' = HeaderSize
            /\ vector_size' = (At(1).word - HeaderSize) % Word
            /\ left' = BitmapCount
            /\ bitmaps' = <<>>
            /\ dv' = "bitmaps"
            /\ UNCHANGED <<file, pending, window, positions>>

\* vector_size counts from the magic on.  Making room for a count of bitmaps no
\* memory can hold throws, as reading them would.
ReadHeader ==
  /\ dv = "header"
  /\ IF window.length < MinBlobSize \/ At(2).word # DvMagic \/ BitmapCount < 0
       THEN Throw
       ELSE /\ pos' = HeaderSize
            /\ reached' = HeaderSize
            /\ vector_size' = (At(1).word - 3) % Word
            /\ left' = BitmapCount
            /\ bitmaps' = <<>>
            /\ dv' = "bitmaps"
            /\ UNCHANGED <<file, pending, window, positions>>

\* roaring_bitmap_portable_deserialize_size: 0 if no bitmap begins after the
\* first i cells, or it is longer than max_bytes.
DeserializeSize(i, max_bytes) ==
  IF i < window.length /\ At(i + 1).size <= max_bytes THEN At(i + 1).size ELSE 0

\* emplace: a key that is there keeps its bitmap.
Emplace(key, values) ==
  bitmaps' = [k \in DOMAIN bitmaps \cup {key} |->
               IF k \in DOMAIN bitmaps THEN bitmaps[k] ELSE values]

\* Mutant: the parser may go as far as the blob says it reaches.
ReadBitmapAsDeclared ==
  /\ dv = "bitmaps"
  /\ left > 0
  /\ IF pos >= window.length
       THEN Throw
       ELSE LET max_bytes == (vector_size - 1) % Word
                size      == DeserializeSize(pos + 1, max_bytes)
            IN  /\ reached' = pos + 1 + max_bytes
                /\ IF size = 0
                     THEN /\ dv' = "error"
                          /\ UNCHANGED <<pos, vector_size, left, bitmaps>>
                     ELSE /\ pos' = pos + 1 + size
                          /\ vector_size' = (vector_size - 1 - size) % Word
                          /\ left' = left - 1
                          /\ Emplace(Signed(At(pos + 1).word, Word),
                                     At(pos + 2).values)
                          /\ UNCHANGED dv
                /\ UNCHANGED <<file, pending, window, positions>>

\* One round of the loop.  The parser of the bitmap is told how far it may go:
\* by vector_size, which may have wrapped, and by what is left of the blob.
ReadBitmap ==
  /\ dv = "bitmaps"
  /\ left > 0
  /\ IF pos >= window.length
       THEN Throw
       ELSE LET remaining == window.length - (pos + 1)
                max_bytes == Min2((vector_size - 1) % Word, remaining)
                size      == DeserializeSize(pos + 1, max_bytes)
            IN  /\ reached' = pos + 1 + max_bytes
                /\ IF size = 0
                     THEN /\ dv' = "error"
                          /\ UNCHANGED <<pos, vector_size, left, bitmaps>>
                     ELSE /\ pos' = pos + 1 + size
                          /\ vector_size' = (vector_size - 1 - size) % Word
                          /\ left' = left - 1
                          /\ Emplace(Signed(At(pos + 1).word, Word),
                                     At(pos + 2).values)
                          /\ UNCHANGED dv
                /\ UNCHANGED <<file, pending, window, positions>>

\* Mutant: the keys are forgotten.
ToSetKeyless == UNION {bitmaps[key] : key \in DOMAIN bitmaps}

\* ToSet
ToSet == UNION {{key * Bucket + v : v \in bitmaps[key]} : key \in DOMAIN bitmaps}

\* Mutant: the checksum is not compared.
ReadChecksumUnchecked ==
  /\ dv = "bitmaps"
  /\ left = 0
  /\ IF pos + 1 # window.length \/ (\E p \in ToSet : p < 0)
       THEN Throw
       ELSE /\ reached' = pos + 1
            /\ positions' = positions \cup ToSet
            /\ dv' = "next"
            /\ UNCHANGED <<file, pending, window, pos, vector_size, left,
                           bitmaps>>

\* The checksum must be the last of the blob, and that of all but vector_size.
\* A position that is no int64 does not get through NumericCast.
ReadChecksum ==
  /\ dv = "bitmaps"
  /\ left = 0
  /\ IF \/ pos + 1 # window.length
        \/ At(pos + 1).sum # SubSeq(file, window.offset + 2, window.offset + pos)
        \/ \E p \in ToSet : p < 0
       THEN Throw
       ELSE /\ reached' = pos + 1
            /\ positions' = positions \cup ToSet
            /\ dv' = "next"
            /\ UNCHANGED <<file, pending, window, pos, vector_size, left,
                           bitmaps>>

FromBlob == ReadHeader \/ ReadBitmap \/ ReadChecksum

Decode == NextBlob \/ FromBlob \/ NoMoreBlobs

-----------------------------------------------------------------------------
(* What a writer stores.                                                   *)

Body(buf, m) == SubSeq(buf, m.offset + 2, m.offset + m.length - 1)

Count(body) == body[2].word + Word * Signed(body[3].word, Word)

Key(body, i) == Signed(body[i + 1].word, Word)

\* The body of a blob, its bitmaps after start[1], start[2]... cells, one key each.
IsLayout(body, start) ==
  LET n == Count(body)
  IN  /\ n >= 0
      /\ start \in [1 .. n + 1 -> 3 .. Len(body)]
      /\ body[1].word = DvMagic
      /\ start[1] = 3 /\ start[n + 1] = Len(body)
      /\ \A k \in 1 .. n :
           /\ start[k] + 2 <= Len(body) /\ body[start[k] + 2].size > 0
           /\ start[k + 1] = start[k] + 1 + body[start[k] + 2].size
      /\ \A j, k \in 1 .. n :
           Key(body, start[j]) = Key(body, start[k]) => j = k

Denoted(body, start) ==
  UNION {{Key(body, start[k]) * Bucket + v : v \in body[start[k] + 2].values} :
           k \in 1 .. Count(body)}

\* The body of a vector of the positions D; or of none, for some are negative.
MadeFor(body, D) ==
  \E start \in [1 .. Count(body) + 1 -> 3 .. Len(body)] :
    /\ IsLayout(body, start)
    /\ Denoted(body, start) = D \/ \E p \in Denoted(body, start) : p < 0

\* A blob of D, unless it is cut or its checksum says that it is damaged.
VectorOf(buf, m, D) ==
  (/\ m.length >= MinBlobSize /\ m.offset + m.length <= Len(buf)
   /\ buf[m.offset + m.length].sum = Body(buf, m))
    => MadeFor(Body(buf, m), D)

\* A blob of some vector, as it was written.
IsWhole(buf, m) ==
  /\ m.length >= MinBlobSize
  /\ buf[m.offset + 1].word = Len(Body(buf, m))
  /\ buf[m.offset + m.length].sum = Body(buf, m)
  /\ \E start \in [1 .. Count(Body(buf, m)) + 1 -> 3 .. Len(Body(buf, m))] :
       /\ IsLayout(Body(buf, m), start)
       /\ ~ \E p \in Denoted(Body(buf, m), start) : p < 0

SectionOf(buf, D) == VectorOf(buf, [offset |-> 0, length |-> Len(buf)], D)

\* The blobs that a footer lists are together one of D.
BlobsOf(buf, metadata, D) ==
  LET vectors == {i \in DOMAIN metadata : IsDeletionVector(metadata[i])}
  IN  \E part \in [vectors -> SUBSET D] :
        /\ UNION {part[i] : i \in vectors} = D
        /\ \A i \in vectors : VectorOf(buf, metadata[i], part[i])

FileOf(buf, D) ==
  IF ~IsPuffin(buf) THEN SectionOf(buf, D)
    ELSE FooterIsValid(buf) =>
           \A metadata \in ParseFileMetadata(buf) :
             (\A i \in DOMAIN metadata :
                BlobMetadataIsValid(metadata[i], PayloadStart(buf) - 1))
               => BlobsOf(buf, metadata, D)
=============================================================================
