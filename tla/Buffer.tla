-------------------------------- MODULE Buffer --------------------------------
(***************************************************************************)
(* siren::net::Buffer (siren/net/Buffer.h): a std::vector<char> with        *)
(* readerIndex_ and writerIndex_; kCheapPrepend bytes are kept in front    *)
(* for prepend, append grows the vector or moves the readable bytes back   *)
(* to kCheapPrepend to make room.                                           *)
(*                                                                         *)
(* The buffer is a record b = [mem, r, w]: mem is buffer_ (mem[p + 1] is   *)
(* the byte at offset p), r is readerIndex_, w is writerIndex_.  Bytes the *)
(* vector was constructed or resized with are 0; stale bytes stay.         *)
(***************************************************************************)
EXTENDS Naturals, Sequences

CONSTANTS
    Bytes,         \* the byte values appended (0 excluded)
    kCheapPrepend, \* Buffer::kCheapPrepend
    InitialSize,   \* the constructor's initialSize
    MaxLen,        \* longest string appended, prepended or retrieved
    MaxReadable    \* most bytes the buffer holds at once

ASSUME 0 \notin Bytes

VARIABLES
    buf,  \* [mem, r, w]
    out   \* the string the last retrieveAsString returned

vars == <<buf, out>>

Strings == UNION {[1..n -> Bytes] : n \in 1..MaxLen}
Zeros(n) == [i \in 1..n |-> 0]

readableBytes(b) == b.w - b.r
writableBytes(b) == Len(b.mem) - b.w
prependableBytes(b) == b.r

(* The bytes between readerIndex_ and writerIndex_.                        *)
Readable(b) == [k \in 1..readableBytes(b) |-> b.mem[b.r + k]]

TypeOK ==
    /\ buf.r \in Nat /\ buf.w \in Nat
    /\ buf.r <= buf.w /\ buf.w <= Len(buf.mem)
    /\ buf.mem \in Seq(Bytes \cup {0})
    /\ out \in Seq(Bytes)

-----------------------------------------------------------------------------
(* Buffer(size_t initialSize).                                             *)
Init ==
    /\ buf = [mem |-> Zeros(kCheapPrepend + InitialSize),
              r |-> kCheapPrepend, w |-> kCheapPrepend]
    /\ out = <<>>

(* retrieveAll().                                                          *)
retrieveAll(b) == [b EXCEPT !.r = kCheapPrepend, !.w = kCheapPrepend]

(* retrieve(len): advance readerIndex_, or retrieveAll() when len is not   *)
(* smaller than readableBytes().                                           *)
retrieve(b, len) ==
    IF len < readableBytes(b) THEN [b EXCEPT !.r = @ + len] ELSE retrieveAll(b)

(* Copy s into mem at offset p.                                             *)
CopyAt(mem, p, s) ==
    [i \in DOMAIN mem |-> IF i - p \in 1..Len(s) THEN s[i - p] ELSE mem[i]]

(* Mutant: makeSpace() that resizes the vector one byte short.            *)
makeSpace_resizeShort(b, len) ==
    IF writableBytes(b) + prependableBytes(b) < len + kCheapPrepend
    THEN [b EXCEPT !.mem = @ \o Zeros(b.w + len - 1 - Len(@))]
    ELSE [b EXCEPT !.mem = CopyAt(@, kCheapPrepend, Readable(b)),
                   !.r = kCheapPrepend,
                   !.w = kCheapPrepend + readableBytes(b)]

(* Mutant: makeSpace() that moves the readable bytes to offset 0.          *)
makeSpace_toZero(b, len) ==
    IF writableBytes(b) + prependableBytes(b) < len + kCheapPrepend
    THEN [b EXCEPT !.mem = @ \o Zeros(b.w + len - Len(@))]
    ELSE [b EXCEPT !.mem = CopyAt(@, 0, Readable(b)),
                   !.r = kCheapPrepend,
                   !.w = kCheapPrepend + readableBytes(b)]

(* makeSpace(len): resize the vector to writerIndex_ + len when the free   *)
(* space in front and behind is too small, else move the readable bytes   *)
(* to kCheapPrepend.                                                        *)
makeSpace(b, len) ==
    IF writableBytes(b) + prependableBytes(b) < len + kCheapPrepend
    THEN [b EXCEPT !.mem = @ \o Zeros(b.w + len - Len(@))]
    ELSE [b EXCEPT !.mem = CopyAt(@, kCheapPrepend, Readable(b)),
                   !.r = kCheapPrepend,
                   !.w = kCheapPrepend + readableBytes(b)]

(* ensureWritableBytes(len).                                               *)
ensureWritableBytes(b, len) ==
    IF writableBytes(b) < len THEN makeSpace(b, len) ELSE b

(* hasWritten(len): assert(len <= writableBytes()), writerIndex_ += len.  *)
hasWritten(b, len) == [b EXCEPT !.w = @ + len]

(* append(data, len): ensureWritableBytes, copy at beginWrite(),           *)
(* hasWritten.                                                              *)
append(b, s) ==
    LET e == ensureWritableBytes(b, Len(s))
    IN  hasWritten([e EXCEPT !.mem = CopyAt(@, e.w, s)], Len(s))

(* prepend(data, len): readerIndex_ moves back and the bytes go there.     *)
prepend(b, s) ==
    LET r1 == b.r - Len(s)
    IN  [b EXCEPT !.r = r1, !.mem = CopyAt(@, r1, s)]

-----------------------------------------------------------------------------
AppendBytes(s) ==
    /\ readableBytes(buf) + Len(s) <= MaxReadable
    /\ buf' = append(buf, s)
    /\ UNCHANGED out

(* assert(len <= prependableBytes()).                                      *)
PrependBytes(s) ==
    /\ Len(s) <= prependableBytes(buf)
    /\ readableBytes(buf) + Len(s) <= MaxReadable
    /\ buf' = prepend(buf, s)
    /\ UNCHANGED out

Retrieve(n) ==
    /\ buf' = retrieve(buf, n)
    /\ UNCHANGED out

(* retrieveAsString(len): assert(len <= readableBytes()), copy, retrieve.  *)
RetrieveAsString(n) ==
    /\ n <= readableBytes(buf)
    /\ out' = SubSeq(Readable(buf), 1, n)
    /\ buf' = retrieve(buf, n)

Next ==
    \/ \E s \in Strings : AppendBytes(s) \/ PrependBytes(s)
    \/ \E n \in 0..MaxLen : Retrieve(n) \/ RetrieveAsString(n)

Spec == Init /\ [][Next]_vars

-----------------------------------------------------------------------------
(* Properties.                                                             *)

(* The Buffer is a byte queue: every append, prepend, retrieve and         *)
(* retrieveAsString, through growth and compaction, changes the readable   *)
(* bytes as BufferFIFO says (spec 8: append then retrieveAsString returns  *)
(* the bytes appended, across a compaction or growth boundary).            *)
FIFO == INSTANCE BufferFIFO WITH content <- Readable(buf), out <- out
ImplementsFIFO == FIFO!Spec

=============================================================================
