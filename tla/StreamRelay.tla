---------------------------- MODULE StreamRelay -----------------------------
(***************************************************************************)
(* TwoWayRelay of zerocopy/stream.go: Relay runs once per direction, in    *)
(* two goroutines, between a reader and a writer that ask for buffers of   *)
(* their own: ReadZeroCopy needs a payload buffer of at least rmin bytes   *)
(* (0: any), WriteZeroCopy takes at most wmax (0: any).  When one read may *)
(* not fit one write, relayFallback copies piece by piece.  Two direct     *)
(* streams are relayed by io.Copy, which is the main loop over a buffer of *)
(* the default size (external).                                            *)
(*                                                                         *)
(* The bytes of a direction are 1, 2, ...; a read returns some of those    *)
(* that were sent, possibly together with the stream's end (io.Reader      *)
(* allows it); a write may fail after a part of it was written.            *)
(***************************************************************************)
EXTENDS Integers, Sequences, SequencesExt

CONSTANTS
  NumBytes,           \* NumBytes[d]: how many bytes the ends send at most
  MinReads,           \* values of MinPayloadBufferSizePerRead
  MaxWrites,          \* values of MaxPayloadSizePerWrite
  DefaultBufferSize

Dirs == {"l2r", "r2l"}

ASSUME StreamAssumption ==
  /\ NumBytes \in [Dirs -> Nat]
  /\ MinReads \subseteq Nat /\ MaxWrites \subseteq Nat
  /\ DefaultBufferSize \in Nat \ {0}

VARIABLES
  sent,    \* sent[d]: bytes the sending end wrote
  ended,   \* ended[d]: "open", "eof" or "err" (what a read reports after them)
  rmin,    \* rmin[d], wmax[d]: what reader and writer ask for
  wmax,
  pc,      \* pc[d]: "read", "write", "split", "closeWrite" or "done"
  got,     \* got[d]: bytes read so far
  buf,     \* buf[d]: bytes read and not yet written
  rerr,    \* rerr[d]: the read's error: "nil", "eof" or "err"
  out,     \* out[d]: bytes the writer took; Relay's n is their number
  err,     \* err[d]: the error Relay returns
  cwErr,   \* cwErr[d]: the error of CloseWrite on the writer
  ret      \* what TwoWayRelay returns; "none" before

peerVars == <<sent, ended>>
vars == <<peerVars, rmin, wmax, pc, got, buf, rerr, out, err, cwErr, ret>>

Init ==
  /\ sent = [d \in Dirs |-> 0]
  /\ ended = [d \in Dirs |-> "open"]
  /\ rmin \in [Dirs -> MinReads] /\ wmax \in [Dirs -> MaxWrites]
  /\ pc = [d \in Dirs |-> "read"]
  /\ got = [d \in Dirs |-> 0]
  /\ buf = [d \in Dirs |-> <<>>]
  /\ rerr = [d \in Dirs |-> "nil"]
  /\ out = [d \in Dirs |-> <<>>]
  /\ err = [d \in Dirs |-> "nil"]
  /\ cwErr = [d \in Dirs |-> "nil"]
  /\ ret = "none"

-----------------------------------------------------------------------------
(* The ends send, end their streams or break. *)

PeerSends(d) ==
  /\ ended[d] = "open" /\ sent[d] < NumBytes[d]
  /\ sent' = [sent EXCEPT ![d] = @ + 1]
  /\ UNCHANGED <<ended, rmin, wmax, pc, got, buf, rerr, out, err, cwErr, ret>>

PeerEnds(d) ==
  /\ ended[d] = "open"
  /\ \E e \in {"eof", "err"} : ended' = [ended EXCEPT ![d] = e]
  /\ UNCHANGED <<sent, rmin, wmax, pc, got, buf, rerr, out, err, cwErr, ret>>

-----------------------------------------------------------------------------
(* The largest payload the relay writes at once. *)
WriteMax(d) ==
  IF wmax[d] # 0 THEN wmax[d] ELSE IF rmin[d] # 0 THEN rmin[d] ELSE DefaultBufferSize

(* One read may not fit one write: relayFallback. *)
Fallback(d) == rmin[d] > WriteMax(d)

ReadLimit(d) == IF Fallback(d) THEN rmin[d] ELSE WriteMax(d)

Goto(d, label) == pc' = [pc EXCEPT ![d] = label]

(* io.EOF is no error. *)
NoEOF(e) == IF e = "eof" THEN "nil" ELSE e

(* ReadZeroCopy returns bytes, with or without the end of the stream. *)
Read(d) ==
  /\ pc[d] = "read"
  /\ \E k \in 1 .. ReadLimit(d), e \in {"nil", ended[d]} :
       /\ k <= sent[d] - got[d]
       /\ e # "nil" => e # "open" /\ k = sent[d] - got[d]
       /\ buf' = [buf EXCEPT ![d] = [i \in 1 .. k |-> got[d] + i]]
       /\ got' = [got EXCEPT ![d] = @ + k]
       /\ rerr' = [rerr EXCEPT ![d] = e]
       /\ Goto(d, IF Fallback(d) /\ k > WriteMax(d) THEN "split" ELSE "write")
  /\ UNCHANGED <<peerVars, rmin, wmax, out, err, cwErr, ret>>

(* ReadZeroCopy returns no bytes: Relay is over.  A broken stream may take *)
(* unread bytes with it.  Readers give a reason when they return no bytes: *)
(* connections do (external), an empty chunk is ErrZeroLengthChunk, and a  *)
(* server of this program announces no empty payload in its response.      *)
ReadEnd(d) ==
  /\ pc[d] = "read"
  /\ \/ ended[d] = "eof" /\ got[d] = sent[d]
     \/ ended[d] = "err"
  /\ err' = [err EXCEPT ![d] = NoEOF(ended[d])]
  /\ Goto(d, "closeWrite")
  /\ UNCHANGED <<peerVars, rmin, wmax, got, buf, rerr, out, cwErr, ret>>

Emit(d, piece) == out' = [out EXCEPT ![d] = @ \o piece]

(* WriteZeroCopy of all that was read: the main loop, and the short cut of *)
(* relayFallback, which returns the read's error as it is.                 *)
Write(d) ==
  /\ pc[d] = "write"
  /\ Emit(d, buf[d])
  /\ buf' = [buf EXCEPT ![d] = <<>>]
  /\ err' = [err EXCEPT ![d] = IF Fallback(d) THEN rerr[d] ELSE NoEOF(rerr[d])]
  /\ Goto(d, IF rerr[d] = "nil" THEN "read" ELSE "closeWrite")
  /\ UNCHANGED <<peerVars, rmin, wmax, got, rerr, cwErr, ret>>

Piece(d) == SubSeq(buf[d], 1, IF Len(buf[d]) < WriteMax(d) THEN Len(buf[d]) ELSE WriteMax(d))

(* bug: the loop always goes on by the size of the write buffer *)
WriteSplit_Skips(d) ==
  /\ pc[d] = "split"
  /\ Emit(d, Piece(d))
  /\ buf' = [buf EXCEPT ![d] = SubSeq(@, Len(Piece(d)) + 2, Len(@))]
  /\ IF buf'[d] # <<>> THEN UNCHANGED <<pc, err>>
     ELSE /\ err' = [err EXCEPT ![d] = NoEOF(rerr[d])]
          /\ Goto(d, IF rerr[d] = "nil" THEN "read" ELSE "closeWrite")
  /\ UNCHANGED <<peerVars, rmin, wmax, got, rerr, cwErr, ret>>

(* relayFallback's loop: copy and write the next piece. *)
WriteSplit(d) ==
  /\ pc[d] = "split"
  /\ Emit(d, Piece(d))
  /\ buf' = [buf EXCEPT ![d] = SubSeq(@, Len(Piece(d)) + 1, Len(@))]
  /\ IF buf'[d] # <<>> THEN UNCHANGED <<pc, err>>
     ELSE /\ err' = [err EXCEPT ![d] = NoEOF(rerr[d])]
          /\ Goto(d, IF rerr[d] = "nil" THEN "read" ELSE "closeWrite")
  /\ UNCHANGED <<peerVars, rmin, wmax, got, rerr, cwErr, ret>>

(* WriteZeroCopy fails, after a part of it was written: its error counts,  *)
(* not the read's.                                                         *)
WriteFails(d) ==
  /\ pc[d] \in {"write", "split"}
  /\ \E k \in 0 .. Len(Piece(d)) : Emit(d, SubSeq(Piece(d), 1, k))
  /\ buf' = [buf EXCEPT ![d] = <<>>]
  /\ err' = [err EXCEPT ![d] = "err"]
  /\ Goto(d, "closeWrite")
  /\ UNCHANGED <<peerVars, rmin, wmax, got, rerr, cwErr, ret>>

-----------------------------------------------------------------------------
(* TwoWayRelay *)

CloseWrite(d) ==
  /\ pc[d] = "closeWrite"
  /\ \E e \in {"nil", "err"} : cwErr' = [cwErr EXCEPT ![d] = e]
  /\ Goto(d, "done")
  /\ UNCHANGED <<peerVars, rmin, wmax, got, buf, rerr, out, err, ret>>

OrElse(e, f) == IF e # "nil" THEN e ELSE f

(* Both directions are done (ctrlCh). *)
Return ==
  /\ ret = "none" /\ \A d \in Dirs : pc[d] = "done"
  /\ ret' = OrElse(err["r2l"], OrElse(err["l2r"], OrElse(cwErr["r2l"], cwErr["l2r"])))
  /\ UNCHANGED <<peerVars, rmin, wmax, pc, got, buf, rerr, out, err, cwErr>>

Transfer(d) == Read(d) \/ ReadEnd(d) \/ Write(d) \/ WriteSplit(d) \/ WriteFails(d) \/ CloseWrite(d)

Finished == ret # "none" /\ UNCHANGED vars

Next ==
  \/ \E d \in Dirs : PeerSends(d) \/ PeerEnds(d) \/ Transfer(d)
  \/ Return
  \/ Finished

Spec == Init /\ [][Next]_vars

(* The two goroutines run, and the ends take what is written to them.      *)
FairSpec == Spec /\ (\A d \in Dirs : WF_vars(Transfer(d))) /\ WF_vars(Return)

-----------------------------------------------------------------------------
(* The type invariant. *)
TypeOK ==
  \A d \in Dirs :
    /\ sent[d] \in 0 .. NumBytes[d] /\ got[d] \in 0 .. sent[d]
    /\ ended[d] \in {"open", "eof", "err"}
    /\ pc[d] \in {"read", "write", "split", "closeWrite", "done"}
    /\ buf[d] \in Seq(1 .. NumBytes[d]) /\ out[d] \in Seq(1 .. NumBytes[d])
    /\ {rerr[d], err[d], cwErr[d]} \subseteq {"nil", "eof", "err"}
    /\ ret \in {"none", "nil", "eof", "err"}

(* Each direction as a byte pipe: its result is that of Relay. *)
RelayResult(d) ==
  IF pc[d] # "done" THEN "none" ELSE IF err[d] = "err" THEN "failed" ELSE "complete"

L2R == INSTANCE BytePipe WITH
  sent <- sent["l2r"], ended <- ended["l2r"], delivered <- out["l2r"], result <- RelayResult("l2r")

R2L == INSTANCE BytePipe WITH
  sent <- sent["r2l"], ended <- ended["r2l"], delivered <- out["r2l"], result <- RelayResult("r2l")

(* Each direction implements the byte pipe: whatever the buffer sizes and  *)
(* however reads and writes split, bytes arrive in order, and a Relay that *)
(* ends without a real error has delivered everything.                     *)
ImplementsPipe == L2R!Spec /\ R2L!Spec

(* A reader always gets the buffer it asks for (a chunk would not fit      *)
(* otherwise) and a writer never more than it can take at once.            *)
BufferContract ==
  \A d \in Dirs :
    /\ ReadLimit(d) >= rmin[d]
    /\ pc[d] = "write" /\ wmax[d] # 0 => Len(buf[d]) <= wmax[d]
    /\ pc[d] = "split" /\ wmax[d] # 0 => Len(Piece(d)) <= wmax[d]

(* TwoWayRelay reports success only if both streams ended and all of both  *)
(* was delivered.                                                          *)
SuccessMeansDelivered ==
  ret = "nil" => \A d \in Dirs : ended[d] = "eof" /\ out[d] = [i \in 1 .. sent[d] |-> i]

(* When both ends have ended their streams TwoWayRelay returns: neither    *)
(* direction waits for the other for ever.                                 *)
PeersThrough == \A d \in Dirs : ended[d] # "open"
Returned == ret # "none"
RelayReturns == PeersThrough ~> Returned

(* io.EOF is the end of a transfer, not an "error occurred during          *)
(* transfer".                                                              *)
EOFIsNoError == ret # "eof"
=============================================================================
