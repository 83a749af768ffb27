--------------------------- MODULE CopyReadWriter ---------------------------
(***************************************************************************)
(* CopyReadWriter of zerocopy/stream.go: io.Reader, io.Writer and          *)
(* io.ReaderFrom over a zero-copy ReadWriter, by way of a read buffer and  *)
(* a write buffer of its own.                                              *)
(*                                                                         *)
(* The bytes of the wrapped stream are 1, 2, ..., NumIn; those the caller  *)
(* writes, or ReadFrom takes from its reader, are 1, 2, ..., NumOut.       *)
(***************************************************************************)
EXTENDS Integers, Sequences, FiniteSetsExt

CONSTANTS
  NumIn, NumOut,
  ReadBufSize,     \* payload bytes of readBuf and of writeBuf
  WriteBufSize,
  MaxCall          \* the largest buffer a caller passes

CopyConstants ==
  {NumIn, NumOut} \subseteq Nat /\ {ReadBufSize, WriteBufSize, MaxCall} \subseteq Nat \ {0}

VARIABLES
  dataWithEnd, \* both streams' reads may return bytes together with io.EOF
  inGot,     \* bytes of the wrapped stream read so far
  rbuf,      \* readBuf[readBufStart : readBufStart+readBufLength]
  readOut,   \* bytes Read returned
  readEnd,   \* Read returned io.EOF
  given,     \* bytes given to Write, or taken from ReadFrom's reader
  todo,      \* of those, the bytes the call under way still has to write
  call,      \* the call under way: "none", "Write" or "ReadFrom"
  wOut,      \* bytes the wrapped stream took
  reported,  \* bytes the calls returned as written (or read)
  failed     \* a call returned an error

readVars  == <<dataWithEnd, inGot, rbuf, readOut, readEnd>>
writeVars == <<given, todo, call, wOut, reported, failed>>
vars == <<readVars, writeVars>>

Init ==
  /\ dataWithEnd \in BOOLEAN
  /\ inGot = 0 /\ rbuf = <<>> /\ readOut = <<>> /\ readEnd = FALSE
  /\ given = 0 /\ todo = <<>> /\ call = "none" /\ wOut = <<>> /\ reported = 0 /\ failed = FALSE

Bytes(from, k) == [i \in 1 .. k |-> from + i]
Least(i, j) == Min({i, j})
Rest(s, k) == SubSeq(s, k + 1, Len(s))

-----------------------------------------------------------------------------
(* Read into a buffer of k bytes: from readBuf, filled anew when empty. *)
Read(k) ==
  /\ \/ /\ rbuf # <<>>
        /\ readOut' = readOut \o SubSeq(rbuf, 1, Least(k, Len(rbuf)))
        /\ rbuf' = Rest(rbuf, Least(k, Len(rbuf)))
        /\ UNCHANGED inGot
     \/ /\ rbuf = <<>>
        /\ \E j \in 1 .. Least(ReadBufSize, NumIn - inGot) :
             /\ inGot' = inGot + j
             /\ readOut' = readOut \o SubSeq(Bytes(inGot, j), 1, Least(k, j))
             /\ rbuf' = Rest(Bytes(inGot, j), Least(k, j))
  /\ UNCHANGED <<dataWithEnd, readEnd, writeVars>>

(* ReadZeroCopy reports the end: so does Read, and what came with it stays *)
(* in readBuf.                                                             *)
ReadEOF ==
  /\ rbuf = <<>>
  /\ \/ inGot = NumIn /\ UNCHANGED <<inGot, rbuf>>
     \/ /\ dataWithEnd /\ NumIn - inGot \in 1 .. ReadBufSize
        /\ rbuf' = Bytes(inGot, NumIn - inGot)
        /\ inGot' = NumIn
  /\ readEnd' = TRUE
  /\ UNCHANGED <<dataWithEnd, readOut, writeVars>>

-----------------------------------------------------------------------------
(* Write is called with the caller's next k bytes. *)
Write(k) ==
  /\ call = "none" /\ ~failed /\ k \in 0 .. (NumOut - given)
  /\ call' = "Write"
  /\ todo' = Bytes(given, k)
  /\ given' = given + k
  /\ UNCHANGED <<readVars, wOut, reported, failed>>

(* Its loop: WriteZeroCopy of as many bytes as fit writeBuf, which may     *)
(* fail after some; Write returns when none are left.  CopyWriteOnce has   *)
(* the same loop over a buffer made for the call.                          *)
WriteChunk ==
  /\ call = "Write"
  /\ LET k == Least(WriteBufSize, Len(todo)) IN
     IF todo = <<>> THEN call' = "none" /\ UNCHANGED <<todo, wOut, reported, failed>>
     ELSE \E j \in 0 .. k :
            /\ wOut' = wOut \o SubSeq(todo, 1, j)
            /\ reported' = reported + j
            /\ \/ j = k /\ todo' = Rest(todo, k) /\ UNCHANGED <<failed, call>>
               \/ todo' = <<>> /\ failed' = TRUE /\ call' = "none"
  /\ UNCHANGED <<readVars, given>>

(* ReadFrom is called. *)
ReadFrom ==
  /\ call = "none" /\ ~failed
  /\ call' = "ReadFrom"
  /\ UNCHANGED <<readVars, given, todo, wOut, reported, failed>>

(* Its loop: r.Read into writeBuf ... *)
ReadFromRead ==
  /\ call = "ReadFrom" /\ todo = <<>>
  /\ \E k \in 1 .. Least(WriteBufSize, NumOut - given) :
       /\ given' = given + k
       /\ reported' = reported + k
       /\ \/ todo' = Bytes(given, k) /\ UNCHANGED call
          \/ dataWithEnd /\ given + k = NumOut /\ call' = "none" /\ UNCHANGED todo
  /\ UNCHANGED <<readVars, wOut, failed>>

(* ... until it reports the end or fails ... *)
ReadFromEnd ==
  /\ call = "ReadFrom" /\ todo = <<>>
  /\ call' = "none"
  /\ failed' \in (IF given = NumOut THEN {FALSE, TRUE} ELSE {TRUE})
  /\ UNCHANGED <<readVars, given, todo, wOut, reported>>

(* ... and WriteZeroCopy of what was read. *)
ReadFromWrite ==
  /\ call = "ReadFrom" /\ todo # <<>>
  /\ todo' = <<>>
  /\ \/ wOut' = wOut \o todo /\ UNCHANGED <<call, failed>>
     \/ /\ \E j \in 0 .. Len(todo) : wOut' = wOut \o SubSeq(todo, 1, j)
        /\ failed' = TRUE /\ call' = "none"
  /\ UNCHANGED <<readVars, given, reported>>

-----------------------------------------------------------------------------
Next ==
  \/ \E k \in 0 .. MaxCall : Read(k) \/ Write(k)
  \/ ReadEOF \/ WriteChunk \/ ReadFrom \/ ReadFromRead \/ ReadFromEnd \/ ReadFromWrite

Spec == Init /\ [][Next]_vars

-----------------------------------------------------------------------------
(* Whatever buffers the caller passes, Read returns the bytes of the       *)
(* stream in order and keeps the rest, also those that came with an end.   *)
ReadInOrder == readOut \o rbuf = Bytes(0, inGot)

(* Read returns io.EOF only after the last byte, if the wrapped stream     *)
(* never returns bytes and io.EOF together.                                *)
EOFIsLast == readEnd /\ ~dataWithEnd => Len(readOut) = NumIn

(* As long as no call failed, what Write took and what ReadFrom read is    *)
(* with the wrapped stream, in order, but for the bytes of the call under  *)
(* way, and the counts returned are right.  (Bytes that its reader returns *)
(* together with io.EOF are lost by ReadFrom.)                             *)
WrittenInOrder ==
  ~failed /\ ~dataWithEnd => wOut \o todo = Bytes(0, given) /\ (call # "ReadFrom" => reported = Len(wOut))

(* "ReadFrom implements the io.ReaderFrom ReadFrom method": everything     *)
(* read until the end of r has been written when it returns without error. *)
ReadFromLosesNothing == ~failed /\ call = "none" => Len(wOut) = given
=============================================================================
