--------------------------- MODULE TCPPathProofs ----------------------------
(***************************************************************************)
(* Proofs about the parts of TCPPath, for any number of bytes, buffers of  *)
(* any length, and any number of connections, services, sessions and       *)
(* requests.  A step of the path is one of a part and leaves the others    *)
(* alone, so each part has an inductive invariant of its own (StreamIInv,  *)
(* TCPIInv, CopyIInv, ProcessIInv, HTTPIInv; that of the Shadowsocks       *)
(* streams is proved in ShadowStreamProofs), and the theorems at the end   *)
(* put them together.                                                      *)
(*                                                                         *)
(* All but ProcessIInv account for bytes: at every place in the code, what *)
(* has been delivered, followed by what is on its way (in a buffer, in the *)
(* pipe, in a call), is the beginning of what was sent, up to where the    *)
(* reader is.  Where an error or a deadline takes bytes off the way the    *)
(* account ends, and only the part that was delivered is left of it.       *)
(***************************************************************************)
EXTENDS TCPPath, FiniteSums, SequenceTheorems, TLAPS

-----------------------------------------------------------------------------
(* A step of the path is one of a part, or leaves it as it is. *)

LEMMA StreamPart == [NextPath]_pathVars => [Next]_vars
  <1> USE DEF pathVars, TCPMoves, CopyMoves, ProcessMoves, ShadowMoves, HTTPMoves, StreamMoves
  <1> QED  BY DEF NextPath

LEMMA TCPPart == [NextPath]_pathVars => [TCP!Next]_(TCP!vars)
  <1>1. UNCHANGED tcpVars => UNCHANGED TCP!vars
    BY DEF tcpVars, TCP!vars, TCP!serverVars, TCP!clientVars, TCP!relayVars
  <1> USE DEF pathVars, TCPMoves, CopyMoves, ProcessMoves, ShadowMoves, HTTPMoves, StreamMoves
  <1> QED  BY <1>1 DEF NextPath

LEMMA CopyPart == [NextPath]_pathVars => [Copy!Next]_(Copy!vars)
  <1>1. UNCHANGED copyVars => UNCHANGED Copy!vars
    BY DEF copyVars, Copy!vars, Copy!readVars, Copy!writeVars
  <1> USE DEF pathVars, TCPMoves, CopyMoves, ProcessMoves, ShadowMoves, HTTPMoves, StreamMoves
  <1> QED  BY <1>1 DEF NextPath

LEMMA ProcessPart == [NextPath]_pathVars => [Process!Next]_(Process!vars)
  <1>1. UNCHANGED processVars => UNCHANGED Process!vars
    BY DEF processVars, Process!vars
  <1> USE DEF pathVars, TCPMoves, CopyMoves, ProcessMoves, ShadowMoves, HTTPMoves, StreamMoves
  <1> QED  BY <1>1 DEF NextPath

LEMMA HTTPPart == [NextPath]_pathVars => [HTTP!Next]_(HTTP!vars)
  <1>1. UNCHANGED httpVars => UNCHANGED HTTP!vars
    BY DEF httpVars, HTTP!vars, HTTP!clientVars, HTTP!forwardVars, HTTP!relayVars, HTTP!remoteVars
  <1> USE DEF pathVars, TCPMoves, CopyMoves, ProcessMoves, ShadowMoves, HTTPMoves, StreamMoves
  <1> QED  BY <1>1 DEF NextPath

SafePath == InitPath /\ [][NextPath]_pathVars

LEMMA SpecIsSafe == SpecPath => SafePath
  BY PTL DEF SpecPath, SafePath

-----------------------------------------------------------------------------
(* Sequences of successive numbers *)

(* The k numbers after a. *)
Numbers(a, k) == [i \in 1 .. k |-> a + i]

LEMMA NumbersType ==
  ASSUME NEW a \in Nat, NEW k \in Nat
  PROVE  Numbers(a, k) \in Seq(Nat) /\ Len(Numbers(a, k)) = k
  BY DEF Numbers

LEMMA NumbersRange ==
  ASSUME NEW a \in Nat, NEW k \in Nat, NEW m \in Nat, a + k <= m
  PROVE  Numbers(a, k) \in Seq(1 .. m) /\ Numbers(a, k) \in Seq(0 .. m)
  BY DEF Numbers

LEMMA NoNumbers ==
  ASSUME NEW a
  PROVE  Numbers(a, 0) = <<>>
  BY DEF Numbers

(* Some numbers, and those after them. *)
LEMMA NumbersConcat ==
  ASSUME NEW a \in Nat, NEW k \in Nat, NEW j \in Nat
  PROVE  Numbers(a, k) \o Numbers(a + k, j) = Numbers(a, k + j)
  <1> DEFINE s == Numbers(a, k)
             t == Numbers(a + k, j)
             u == Numbers(a, k + j)
  <1>2. a + k \in Nat /\ k + j \in Nat
    OBVIOUS
  <1>3. s \in Seq(Nat) /\ Len(s) = k /\ t \in Seq(Nat) /\ Len(t) = j /\ u \in Seq(Nat) /\ Len(u) = k + j
    BY <1>2, NumbersType
  <1>4. /\ \A i \in 1 .. k : s[i] = a + i
        /\ \A i \in 1 .. j : t[i] = a + k + i
        /\ \A i \in 1 .. k + j : u[i] = a + i
    BY DEF Numbers
  <1> HIDE DEF s, t, u
  <1>5. /\ s \o t \in Seq(Nat) /\ Len(s \o t) = k + j
        /\ \A i \in 1 .. k + j : (s \o t)[i] = IF i <= k THEN s[i] ELSE t[i - k]
    BY <1>3, ConcatProperties
  <1>6. \A i \in 1 .. k + j : (s \o t)[i] = u[i]
    <2> TAKE i \in 1 .. k + j
    <2>1. CASE i <= k
      BY <1>4, <1>5, <2>1
    <2>2. CASE i > k
      <3>1. i - k \in 1 .. j /\ a + k + (i - k) = a + i
        BY <2>2
      <3>2. (s \o t)[i] = t[i - k]
        BY <1>5, <2>2
      <3>3. t[i - k] = a + k + (i - k)
        BY <1>4, <3>1
      <3>4. u[i] = a + i
        BY <1>4
      <3> QED  BY <3>1, <3>2, <3>3, <3>4
    <2>3. i <= k \/ i > k
      OBVIOUS
    <2> QED  BY <2>1, <2>2, <2>3, Zenon
  <1>7. s \o t = u
    BY <1>3, <1>5, <1>6, SeqEqual
  <1> QED  BY <1>7 DEF s, t, u

LEMMA NumbersOn ==
  ASSUME NEW n \in Nat, NEW k \in Nat
  PROVE  Numbers(0, n) \o Numbers(n, k) = Numbers(0, n + k)
  <1>1. 0 \in Nat /\ 0 + n = n
    OBVIOUS
  <1>2. Numbers(0, n) \o Numbers(0 + n, k) = Numbers(0, n + k)
    BY <1>1, NumbersConcat, Zenon
  <1> QED  BY <1>1, <1>2, Zenon

(* A beginning and a rest. *)
LEMMA NumbersSub ==
  ASSUME NEW a \in Nat, NEW n \in Nat, NEW k \in 0 .. n
  PROVE  /\ SubSeq(Numbers(a, n), 1, k) = Numbers(a, k)
         /\ SubSeq(Numbers(a, n), k + 1, n) = Numbers(a + k, n - k)
  BY DEF Numbers

(* The first k of the m numbers after n, put behind the first n. *)
LEMMA NumbersMove ==
  ASSUME NEW n \in Nat, NEW m \in Nat, NEW k \in 0 .. m
  PROVE  /\ Numbers(0, n) \o SubSeq(Numbers(n, m), 1, k) = Numbers(0, n + k)
         /\ SubSeq(Numbers(n, m), k + 1, m) = Numbers(n + k, m - k)
         /\ Numbers(0, n) \in Seq(Nat) /\ Len(Numbers(0, n)) = n
         /\ Numbers(n, m) \in Seq(Nat) /\ Len(Numbers(n, m)) = m
         /\ Numbers(0, n + k) \in Seq(Nat) /\ Len(Numbers(0, n + k)) = n + k
         /\ Numbers(n + k, m - k) \in Seq(Nat) /\ Len(Numbers(n + k, m - k)) = m - k
  <1>1. k \in Nat /\ n + k \in Nat /\ m - k \in Nat
    OBVIOUS
  <1>2. SubSeq(Numbers(n, m), 1, k) = Numbers(n, k) /\ SubSeq(Numbers(n, m), k + 1, m) = Numbers(n + k, m - k)
    BY NumbersSub
  <1>3. Numbers(0, n) \o Numbers(n, k) = Numbers(0, n + k)
    BY <1>1, NumbersOn
  <1> QED  BY <1>1, <1>2, <1>3, NumbersType

(* Min of FiniteSetsExt, of two numbers. *)
LEMMA LesserOf ==
  ASSUME NEW i \in Int, NEW j \in Int
  PROVE  Min({i, j}) \in {i, j} /\ Min({i, j}) <= i /\ Min({i, j}) <= j
  <1>1. \E m \in {i, j} : \A x \in {i, j} : m <= x
    OBVIOUS
  <1> QED  BY <1>1 DEF Min

-----------------------------------------------------------------------------
(* The two-way relay *)

(* One direction: what was read is on its way or with the writer, in       *)
(* order; an end that a read reported with bytes has come after the last   *)
(* of them; and a Relay that is over without an error has delivered all.   *)
Direction(d) ==
  /\ rmin[d] \in MinReads /\ wmax[d] \in MaxWrites
  /\ pc[d] \in {"read", "closeWrite", "done"} => buf[d] = <<>>
  /\ pc[d] \in {"read", "write", "split"} => Len(out[d]) + Len(buf[d]) = got[d]
  /\ buf[d] = Numbers(got[d] - Len(buf[d]), Len(buf[d]))
  /\ out[d] = Numbers(0, Len(out[d]))
  /\ Len(out[d]) <= got[d]
  /\ pc[d] = "write" => Len(buf[d]) <= WriteMax(d)
  /\ pc[d] \in {"write", "split"} /\ rerr[d] # "nil" => rerr[d] = ended[d] /\ got[d] = sent[d]
  /\ pc[d] \in {"closeWrite", "done"} /\ err[d] # "err" => ended[d] = "eof" /\ Len(out[d]) = sent[d]
  /\ ret # "none" => pc[d] = "done"
  /\ ret = "nil" => err[d] = "nil"

StreamTypes ==
  /\ sent \in [Dirs -> Nat] /\ got \in [Dirs -> Nat]
  /\ ended \in [Dirs -> {"open", "eof", "err"}]
  /\ pc \in [Dirs -> {"read", "write", "split", "closeWrite", "done"}]
  /\ buf \in [Dirs -> Seq(Nat)] /\ out \in [Dirs -> Seq(Nat)]
  /\ rerr \in [Dirs -> {"nil", "eof", "err"}]
  /\ err \in [Dirs -> {"nil", "eof", "err"}] /\ cwErr \in [Dirs -> {"nil", "eof", "err"}]
  /\ ret \in {"none", "nil", "eof", "err"}
  /\ \A d \in Dirs : got[d] <= sent[d] /\ sent[d] <= NumBytes[d]

StreamIInv == StreamTypes /\ \A d \in Dirs : Direction(d)

(* A step of one direction leaves the other as it is. *)
LEMMA OtherDirection ==
  ASSUME NEW d \in Dirs, NEW e \in Dirs, Direction(e), ret' = ret,
         \A x \in Dirs \ {d} :
           /\ sent'[x] = sent[x] /\ ended'[x] = ended[x] /\ rmin'[x] = rmin[x] /\ wmax'[x] = wmax[x]
           /\ pc'[x] = pc[x] /\ got'[x] = got[x] /\ buf'[x] = buf[x] /\ rerr'[x] = rerr[x]
           /\ out'[x] = out[x] /\ err'[x] = err[x] /\ cwErr'[x] = cwErr[x],
         Direction(d)'
  PROVE  Direction(e)'
  <1>1. CASE e = d
    BY <1>1
  <1>2. CASE e # d
    BY <1>2, ZenonT(40) DEF Direction, WriteMax
  <1> QED  BY <1>1, <1>2

LEMMA StreamStarts == Init => StreamIInv
  <1> SUFFICES ASSUME Init PROVE StreamIInv
    OBVIOUS
  <1>1. StreamTypes
    BY StreamAssumption DEF Init, StreamTypes
  <1>2. ASSUME NEW d \in Dirs PROVE Direction(d)
    <2>1. <<>> = Numbers(0, 0) /\ Len(<<>>) = 0
      BY NoNumbers
    <2> QED  BY <2>1, StreamAssumption DEF Init, Direction
  <1> QED  BY <1>1, <1>2 DEF StreamIInv

LEMMA StreamPeerSends ==
  ASSUME StreamIInv, NEW d \in Dirs, PeerSends(d)
  PROVE  StreamIInv'
  <1>1. StreamTypes'
    <2>1. sent' \in [Dirs -> Nat]
      BY DEF StreamIInv, StreamTypes, PeerSends
    <2>2. ASSUME NEW x \in Dirs PROVE got'[x] <= sent'[x] /\ sent'[x] <= NumBytes[x]
      <3>1. sent[x] \in Nat /\ got[x] \in Nat /\ NumBytes[x] \in Nat /\ got[x] <= sent[x] /\ sent[x] <= NumBytes[x]
        BY StreamAssumption DEF StreamIInv, StreamTypes
      <3>2. sent'[x] = (IF x = d THEN sent[x] + 1 ELSE sent[x]) /\ got' = got /\ sent[d] < NumBytes[d]
        BY DEF StreamIInv, StreamTypes, PeerSends
      <3> QED  BY <3>1, <3>2
    <2> QED  BY <2>1, <2>2 DEF StreamIInv, StreamTypes, PeerSends
  <1>2. Direction(d)'
    BY DEF StreamIInv, StreamTypes, Direction, PeerSends, WriteMax
  <1>3. ASSUME NEW e \in Dirs PROVE Direction(e)'
    BY <1>2, OtherDirection DEF StreamIInv, StreamTypes, PeerSends
  <1> QED  BY <1>1, <1>3 DEF StreamIInv

LEMMA StreamPeerEnds ==
  ASSUME StreamIInv, NEW d \in Dirs, PeerEnds(d)
  PROVE  StreamIInv'
  <1>1. StreamTypes'
    BY StreamAssumption DEF StreamIInv, StreamTypes, PeerEnds
  <1>2. Direction(d)'
    BY DEF StreamIInv, StreamTypes, Direction, PeerEnds, WriteMax
  <1>3. ASSUME NEW e \in Dirs PROVE Direction(e)'
    BY <1>2, OtherDirection DEF StreamIInv, StreamTypes, PeerEnds
  <1> QED  BY <1>1, <1>3 DEF StreamIInv

(* What is read follows what was read before. *)
LEMMA StreamRead ==
  ASSUME StreamIInv, NEW d \in Dirs, Read(d)
  PROVE  StreamIInv'
  <1>1. PICK k \in 1 .. ReadLimit(d), e \in {"nil", ended[d]} :
          /\ k <= sent[d] - got[d]
          /\ e # "nil" => e # "open" /\ k = sent[d] - got[d]
          /\ buf' = [buf EXCEPT ![d] = [i \in 1 .. k |-> got[d] + i]]
          /\ got' = [got EXCEPT ![d] = @ + k]
          /\ rerr' = [rerr EXCEPT ![d] = e]
          /\ Goto(d, IF Fallback(d) /\ k > WriteMax(d) THEN "split" ELSE "write")
    BY DEF Read
  <1>2. /\ sent[d] \in Nat /\ got[d] \in Nat /\ k \in Nat /\ k > 0 /\ ended[d] \in {"open", "eof", "err"}
        /\ e \in {"nil", "eof", "err"} /\ rmin[d] \in Nat /\ wmax[d] \in Nat /\ WriteMax(d) \in Nat
        /\ buf[d] = <<>> /\ Len(out[d]) = got[d] /\ out[d] \in Seq(Nat) /\ pc[d] = "read" /\ got[d] + k <= sent[d]
    <2>1. rmin[d] \in Nat /\ wmax[d] \in Nat /\ WriteMax(d) \in Nat
      BY StreamAssumption DEF StreamIInv, Direction, WriteMax
    <2>2. ReadLimit(d) \in Nat
      BY <2>1 DEF ReadLimit
    <2>3. sent[d] \in Nat /\ got[d] \in Nat /\ ended[d] \in {"open", "eof", "err"} /\ out[d] \in Seq(Nat) /\ pc[d] = "read"
      BY DEF StreamIInv, StreamTypes, Read
    <2>4. buf[d] = <<>> /\ Len(out[d]) + Len(buf[d]) = got[d]
      BY <2>3 DEF StreamIInv, Direction
    <2>5. Len(out[d]) = got[d]
      BY <2>3, <2>4
    <2>6. k \in Nat /\ k > 0 /\ got[d] + k <= sent[d]
      BY <1>1, <2>2, <2>3
    <2> QED  BY <1>1, <2>1, <2>3, <2>4, <2>5, <2>6
  <1>3. buf' = [buf EXCEPT ![d] = Numbers(got[d], k)] /\ Numbers(got[d], k) \in Seq(Nat) /\ Len(Numbers(got[d], k)) = k
    BY <1>1, <1>2, NumbersType DEF Numbers
  <1>4. StreamTypes'
    <2>1. /\ got' \in [Dirs -> Nat] /\ buf' \in [Dirs -> Seq(Nat)]
          /\ rerr' \in [Dirs -> {"nil", "eof", "err"}]
      <3>1. got[d] + k \in Nat
        BY <1>2
      <3>2. got' \in [Dirs -> Nat]
        BY <1>1, <3>1 DEF StreamIInv, StreamTypes
      <3>3. buf' \in [Dirs -> Seq(Nat)]
        BY <1>3 DEF StreamIInv, StreamTypes
      <3> QED  BY <1>1, <1>2, <3>2, <3>3 DEF StreamIInv, StreamTypes
    <2>2. pc' \in [Dirs -> {"read", "write", "split", "closeWrite", "done"}]
      BY <1>1 DEF StreamIInv, StreamTypes, Goto
    <2>3. ASSUME NEW x \in Dirs PROVE got'[x] <= sent'[x] /\ sent'[x] <= NumBytes[x]
      <3>1. got[x] <= sent[x] /\ sent[x] <= NumBytes[x] /\ sent' = sent /\ got'[x] = IF x = d THEN got[x] + k ELSE got[x]
        BY <1>1 DEF StreamIInv, StreamTypes, Read, peerVars
      <3> QED  BY <1>2, <3>1
    <2> QED  BY <2>1, <2>2, <2>3 DEF StreamIInv, StreamTypes, Read, peerVars
  <1>5. Direction(d)'
    <2>1. /\ buf'[d] = Numbers(got[d], k) /\ got'[d] = got[d] + k /\ rerr'[d] = e
          /\ pc'[d] = (IF Fallback(d) /\ k > WriteMax(d) THEN "split" ELSE "write")
          /\ WriteMax(d)' = WriteMax(d) /\ rmin' = rmin /\ wmax' = wmax /\ sent' = sent /\ ended' = ended
          /\ out' = out /\ err' = err /\ ret' = ret
      BY <1>1, <1>3 DEF StreamIInv, StreamTypes, Read, Goto, WriteMax, peerVars
    <2>2. pc'[d] = "write" => k <= WriteMax(d)
      BY <1>1, <1>2, <2>1 DEF ReadLimit, Fallback
    <2>3. pc'[d] \in {"write", "split"} /\ ret = "none"
      BY <1>2, <2>1 DEF StreamIInv, Direction
    <2>4. Len(buf'[d]) = k /\ got'[d] - Len(buf'[d]) = got[d]
      BY <1>2, <1>3, <2>1
    <2>5. Direction(d) /\ (e # "nil" => e = ended[d] /\ got[d] + k = sent[d])
      BY <1>1, <1>2 DEF StreamIInv
    <2>6. buf'[d] = Numbers(got'[d] - Len(buf'[d]), Len(buf'[d]))
      BY <2>1, <2>4
    <2>7. out'[d] = Numbers(0, Len(out'[d])) /\ Len(out'[d]) <= got'[d] /\ Len(out'[d]) + Len(buf'[d]) = got'[d]
      BY <1>2, <2>1, <2>4, <2>5 DEF Direction
    <2> QED  BY <2>1, <2>2, <2>3, <2>4, <2>5, <2>6, <2>7 DEF Direction
  <1>6. ASSUME NEW x \in Dirs PROVE Direction(x)'
    BY <1>1, <1>5, OtherDirection DEF StreamIInv, StreamTypes, Read, Goto, peerVars
  <1> QED  BY <1>4, <1>6 DEF StreamIInv

LEMMA StreamReadEnd ==
  ASSUME StreamIInv, NEW d \in Dirs, ReadEnd(d)
  PROVE  StreamIInv'
  <1>1. StreamTypes'
    BY DEF StreamIInv, StreamTypes, ReadEnd, NoEOF, Goto, peerVars
  <1>2. Direction(d)'
    BY DEF StreamIInv, StreamTypes, Direction, ReadEnd, NoEOF, Goto, WriteMax, peerVars
  <1>3. ASSUME NEW e \in Dirs PROVE Direction(e)'
    BY <1>2, OtherDirection DEF StreamIInv, StreamTypes, ReadEnd, Goto, peerVars
  <1> QED  BY <1>1, <1>3 DEF StreamIInv

LEMMA StreamCloseWrite ==
  ASSUME StreamIInv, NEW d \in Dirs, CloseWrite(d)
  PROVE  StreamIInv'
  <1>1. StreamTypes'
    BY DEF StreamIInv, StreamTypes, CloseWrite, Goto, peerVars
  <1>2. Direction(d)'
    BY DEF StreamIInv, StreamTypes, Direction, CloseWrite, Goto, WriteMax, peerVars
  <1>3. ASSUME NEW e \in Dirs PROVE Direction(e)'
    BY <1>2, OtherDirection DEF StreamIInv, StreamTypes, CloseWrite, Goto, peerVars
  <1> QED  BY <1>1, <1>3 DEF StreamIInv

(* What is written next follows what was written before, and the rest      *)
(* follows that.                                                           *)
LEMMA Emission ==
  ASSUME StreamIInv, NEW d \in Dirs, pc[d] \in {"write", "split"}, NEW k \in 0 .. Len(buf[d])
  PROVE  /\ Len(out[d]) \in Nat /\ Len(buf[d]) \in Nat /\ got[d] = Len(out[d]) + Len(buf[d])
         /\ SubSeq(buf[d], 1, k) \in Seq(Nat) /\ Len(SubSeq(buf[d], 1, k)) = k
         /\ out[d] \o SubSeq(buf[d], 1, k) = Numbers(0, Len(out[d]) + k)
         /\ SubSeq(buf[d], k + 1, Len(buf[d])) = Numbers(Len(out[d]) + k, Len(buf[d]) - k)
         /\ SubSeq(buf[d], 1, k) = Numbers(Len(out[d]), k)
         /\ buf[d] = Numbers(Len(out[d]), Len(buf[d]))
         /\ out[d] = Numbers(0, Len(out[d]))
  <1> DEFINE n == Len(out[d])
             m == Len(buf[d])
  <1>1. out[d] \in Seq(Nat) /\ buf[d] \in Seq(Nat) /\ got[d] \in Nat
    BY DEF StreamIInv, StreamTypes
  <1>2. n \in Nat /\ m \in Nat
    BY <1>1
  <1>3. n + m = got[d] /\ buf[d] = Numbers(got[d] - m, m) /\ out[d] = Numbers(0, n)
    BY DEF StreamIInv, Direction
  <1>6. k \in 0 .. m
    OBVIOUS
  <1> HIDE DEF n, m
  <1>4. got[d] - m = n /\ 0 + n = n /\ m - k \in Nat /\ k \in Nat /\ n + k \in Nat
    BY <1>1, <1>2, <1>3, <1>6
  <1>5. buf[d] = Numbers(n, m)
    BY <1>3, <1>4
  <1>7. SubSeq(buf[d], 1, k) = Numbers(n, k) /\ SubSeq(buf[d], k + 1, m) = Numbers(n + k, m - k)
    <2>1. /\ SubSeq(Numbers(n, m), 1, k) = Numbers(n, k)
          /\ SubSeq(Numbers(n, m), k + 1, m) = Numbers(n + k, m - k)
      BY <1>2, <1>6, NumbersSub
    <2> QED  BY <1>5, <2>1
  <1>8. Numbers(n, k) \in Seq(Nat) /\ Len(Numbers(n, k)) = k
    BY <1>2, <1>4, NumbersType
  <1>9. Numbers(0, n) \o Numbers(n, k) = Numbers(0, n + k)
    BY <1>2, <1>4, NumbersOn
  <1> QED  BY <1>2, <1>3, <1>4, <1>5, <1>7, <1>8, <1>9 DEF n, m

LEMMA StreamWrite ==
  ASSUME StreamIInv, NEW d \in Dirs, Write(d)
  PROVE  StreamIInv'
  <1> DEFINE n == Len(out[d])
             m == Len(buf[d])
  <1>1. pc[d] = "write" /\ m \in 0 .. m /\ buf[d] \in Seq(Nat) /\ got[d] \in Nat
    BY DEF StreamIInv, StreamTypes, Write
  <1>2. n \in Nat /\ m \in Nat /\ got[d] = n + m /\ out[d] \o buf[d] = Numbers(0, n + m)
    <2>1. SubSeq(buf[d], 1, m) = buf[d]
      BY <1>1
    <2> QED  BY <1>1, <2>1, Emission
  <1>3. out[d] \o buf[d] = Numbers(0, got[d]) /\ Numbers(0, got[d]) \in Seq(Nat) /\ Len(Numbers(0, got[d])) = got[d]
    BY <1>1, <1>2, NumbersType
  <1>4. StreamTypes'
    <2>1. out' \in [Dirs -> Seq(Nat)] /\ buf' \in [Dirs -> Seq(Nat)]
      BY <1>3 DEF StreamIInv, StreamTypes, Write, Emit
    <2>2. /\ pc' \in [Dirs -> {"read", "write", "split", "closeWrite", "done"}]
          /\ err' \in [Dirs -> {"nil", "eof", "err"}]
      BY DEF StreamIInv, StreamTypes, Write, Goto, NoEOF
    <2> QED  BY <2>1, <2>2 DEF StreamIInv, StreamTypes, Write, peerVars
  <1>5. Direction(d)'
    <2>1. /\ out'[d] = Numbers(0, got[d]) /\ Len(out'[d]) = got[d] /\ buf'[d] = <<>> /\ Len(buf'[d]) = 0
          /\ err'[d] = (IF Fallback(d) THEN rerr[d] ELSE NoEOF(rerr[d]))
          /\ pc'[d] = (IF rerr[d] = "nil" THEN "read" ELSE "closeWrite")
          /\ WriteMax(d)' = WriteMax(d) /\ rmin' = rmin /\ wmax' = wmax /\ sent' = sent /\ ended' = ended
          /\ got' = got /\ rerr' = rerr /\ ret' = ret
      BY <1>3 DEF StreamIInv, StreamTypes, Write, Emit, Goto, WriteMax, peerVars
    <2>2. Direction(d) /\ rerr[d] \in {"nil", "eof", "err"} /\ ret = "none"
      BY <1>1 DEF StreamIInv, StreamTypes, Direction
    <2>3. Numbers(got[d], 0) = <<>> /\ got[d] - 0 = got[d]
      BY <1>1, NoNumbers
    <2>4. pc'[d] = "closeWrite" /\ err'[d] # "err" => ended[d] = "eof" /\ got[d] = sent[d]
      BY <1>1, <2>1, <2>2 DEF Direction, NoEOF
    <2>5. buf'[d] = Numbers(got'[d] - Len(buf'[d]), Len(buf'[d]))
      BY <2>1, <2>3
    <2> QED  BY <1>1, <2>1, <2>2, <2>4, <2>5 DEF Direction
  <1>6. ASSUME NEW x \in Dirs PROVE Direction(x)'
    BY <1>5, OtherDirection DEF StreamIInv, StreamTypes, Write, Emit, Goto, peerVars
  <1> QED  BY <1>4, <1>6 DEF StreamIInv

LEMMA PieceIsBeginning ==
  ASSUME StreamIInv, NEW d \in Dirs, pc[d] \in {"write", "split"}
  PROVE  /\ Len(Piece(d)) \in 0 .. Len(buf[d]) /\ Piece(d) = SubSeq(buf[d], 1, Len(Piece(d)))
         /\ Len(Piece(d)) <= WriteMax(d)
         /\ \A k \in 0 .. Len(Piece(d)) : SubSeq(Piece(d), 1, k) = SubSeq(buf[d], 1, k)
  <1> DEFINE p == IF Len(buf[d]) < WriteMax(d) THEN Len(buf[d]) ELSE WriteMax(d)
  <1>1. WriteMax(d) \in Nat
    BY StreamAssumption DEF StreamIInv, Direction, WriteMax
  <1>2. buf[d] \in Seq(Nat) /\ Len(buf[d]) \in Nat
    BY DEF StreamIInv, StreamTypes
  <1>3. p \in 0 .. Len(buf[d]) /\ p <= WriteMax(d)
    BY <1>1, <1>2
  <1>4. Piece(d) = SubSeq(buf[d], 1, p)
    BY DEF Piece
  <1> HIDE DEF p
  <1>5. Len(Piece(d)) = p
    BY <1>2, <1>3, <1>4
  <1>6. ASSUME NEW k \in 0 .. p PROVE SubSeq(Piece(d), 1, k) = SubSeq(buf[d], 1, k)
    BY <1>2, <1>3, <1>4
  <1> QED  BY <1>3, <1>4, <1>5, <1>6

LEMMA StreamWriteSplit ==
  ASSUME StreamIInv, NEW d \in Dirs, WriteSplit(d)
  PROVE  StreamIInv'
  <1> DEFINE n == Len(out[d])
             m == Len(buf[d])
             k == Len(Piece(d))
  <1>1. pc[d] = "split" /\ buf[d] \in Seq(Nat) /\ got[d] \in Nat
    BY DEF StreamIInv, StreamTypes, WriteSplit
  <1>2. k \in 0 .. m /\ Piece(d) = SubSeq(buf[d], 1, k)
    BY <1>1, PieceIsBeginning
  <1>3. /\ n \in Nat /\ m \in Nat /\ got[d] = n + m /\ out[d] \o Piece(d) = Numbers(0, n + k)
        /\ SubSeq(buf[d], k + 1, m) = Numbers(n + k, m - k)
    BY <1>1, <1>2, Emission
  <1> HIDE DEF k, n, m
  <1>4. n + k \in Nat /\ m - k \in Nat
    BY <1>2, <1>3
  <1>5. /\ Numbers(0, n + k) \in Seq(Nat) /\ Len(Numbers(0, n + k)) = n + k
        /\ Numbers(n + k, m - k) \in Seq(Nat) /\ Len(Numbers(n + k, m - k)) = m - k
    BY <1>4, NumbersType
  <1>6. /\ out' = [out EXCEPT ![d] = Numbers(0, n + k)]
        /\ buf' = [buf EXCEPT ![d] = Numbers(n + k, m - k)]
    BY <1>3 DEF WriteSplit, Emit, k, n, m
  <1>7. StreamTypes'
    <2>1. out' \in [Dirs -> Seq(Nat)] /\ buf' \in [Dirs -> Seq(Nat)]
      BY <1>5, <1>6 DEF StreamIInv, StreamTypes
    <2>2. /\ pc' \in [Dirs -> {"read", "write", "split", "closeWrite", "done"}]
          /\ err' \in [Dirs -> {"nil", "eof", "err"}]
      BY DEF StreamIInv, StreamTypes, WriteSplit, Goto, NoEOF
    <2> QED  BY <2>1, <2>2 DEF StreamIInv, StreamTypes, WriteSplit, peerVars
  <1>8. Direction(d)'
    <2>1. /\ out'[d] = Numbers(0, n + k) /\ Len(out'[d]) = n + k
          /\ buf'[d] = Numbers(n + k, m - k) /\ Len(buf'[d]) = m - k
          /\ WriteMax(d)' = WriteMax(d) /\ rmin' = rmin /\ wmax' = wmax /\ sent' = sent /\ ended' = ended
          /\ got' = got /\ rerr' = rerr /\ ret' = ret
      BY <1>5, <1>6 DEF StreamIInv, StreamTypes, WriteSplit, WriteMax, peerVars
    <2>2. Direction(d) /\ rerr[d] \in {"nil", "eof", "err"} /\ ret = "none"
      BY <1>1 DEF StreamIInv, StreamTypes, Direction
    <2>3. /\ buf'[d] # <<>> => pc'[d] = "split"
          /\ buf'[d] = <<>> => /\ err'[d] = NoEOF(rerr[d])
                               /\ pc'[d] = IF rerr[d] = "nil" THEN "read" ELSE "closeWrite"
      BY <1>1 DEF StreamIInv, StreamTypes, WriteSplit, Goto
    <2>4. n + k + (m - k) = got[d] /\ got[d] - (m - k) = n + k /\ n + k <= got[d]
      BY <1>2, <1>3
    <2>5. buf'[d] = <<>> => n + k = got[d]
      BY <1>2, <1>3, <2>1
    <2>6. pc'[d] = "closeWrite" /\ err'[d] # "err" => ended[d] = "eof" /\ n + k = sent[d]
      BY <1>1, <2>2, <2>3, <2>5 DEF Direction, NoEOF
    <2>7. buf'[d] = Numbers(got'[d] - Len(buf'[d]), Len(buf'[d])) /\ out'[d] = Numbers(0, Len(out'[d]))
      BY <2>1, <2>4
    <2> QED  BY <1>1, <2>1, <2>2, <2>3, <2>4, <2>6, <2>7 DEF Direction
  <1>9. ASSUME NEW x \in Dirs PROVE Direction(x)'
    BY <1>8, OtherDirection, SMTT(20) DEF StreamIInv, StreamTypes, WriteSplit, Emit, Goto, peerVars
  <1> QED  BY <1>7, <1>9 DEF StreamIInv

LEMMA StreamWriteFails ==
  ASSUME StreamIInv, NEW d \in Dirs, WriteFails(d)
  PROVE  StreamIInv'
  <1> DEFINE n == Len(out[d])
  <1>1. pc[d] \in {"write", "split"} /\ buf[d] \in Seq(Nat) /\ got[d] \in Nat
    BY DEF StreamIInv, StreamTypes, WriteFails
  <1>2. PICK k \in 0 .. Len(Piece(d)) : out' = [out EXCEPT ![d] = @ \o SubSeq(Piece(d), 1, k)]
    BY DEF WriteFails, Emit
  <1>3. k \in 0 .. Len(buf[d]) /\ SubSeq(Piece(d), 1, k) = SubSeq(buf[d], 1, k)
    <2>1. Len(Piece(d)) \in 0 .. Len(buf[d]) /\ SubSeq(Piece(d), 1, k) = SubSeq(buf[d], 1, k)
      BY <1>1, PieceIsBeginning
    <2> QED  BY <1>1, <2>1
  <1>4. n \in Nat /\ out[d] \o SubSeq(Piece(d), 1, k) = Numbers(0, n + k) /\ n + k <= got[d] /\ n + k \in Nat
    <2>1. /\ n \in Nat /\ Len(buf[d]) \in Nat /\ got[d] = n + Len(buf[d])
          /\ out[d] \o SubSeq(Piece(d), 1, k) = Numbers(0, n + k)
      BY <1>1, <1>3, Emission
    <2> HIDE DEF n
    <2>2. n + k <= got[d] /\ n + k \in Nat
      BY <1>3, <2>1
    <2> QED  BY <2>1, <2>2
  <1>5. Numbers(0, n + k) \in Seq(Nat) /\ Len(Numbers(0, n + k)) = n + k
    BY <1>4, NumbersType
  <1> HIDE DEF n
  <1>6. out' = [out EXCEPT ![d] = Numbers(0, n + k)]
    BY <1>2, <1>4
  <1>7. StreamTypes'
    <2>1. out' \in [Dirs -> Seq(Nat)] /\ buf' \in [Dirs -> Seq(Nat)]
      BY <1>5, <1>6 DEF StreamIInv, StreamTypes, WriteFails
    <2> QED  BY <2>1 DEF StreamIInv, StreamTypes, WriteFails, Goto, peerVars
  <1>8. Direction(d)'
    <2>1. /\ out'[d] = Numbers(0, n + k) /\ Len(out'[d]) = n + k /\ buf'[d] = <<>> /\ Len(buf'[d]) = 0
          /\ err'[d] = "err" /\ pc'[d] = "closeWrite"
          /\ WriteMax(d)' = WriteMax(d) /\ rmin' = rmin /\ wmax' = wmax /\ sent' = sent /\ ended' = ended
          /\ got' = got /\ rerr' = rerr /\ ret' = ret
      BY <1>5, <1>6 DEF StreamIInv, StreamTypes, WriteFails, Goto, WriteMax, peerVars
    <2>2. Direction(d) /\ ret = "none"
      BY <1>1 DEF StreamIInv, StreamTypes, Direction
    <2>3. Numbers(got[d], 0) = <<>> /\ got[d] - 0 = got[d]
      BY <1>1, NoNumbers
    <2>4. buf'[d] = Numbers(got'[d] - Len(buf'[d]), Len(buf'[d]))
      BY <2>1, <2>3
    <2> QED  BY <1>1, <1>4, <2>1, <2>2, <2>4 DEF Direction
  <1>9. ASSUME NEW x \in Dirs PROVE Direction(x)'
    BY <1>2, <1>8, OtherDirection DEF StreamIInv, StreamTypes, WriteFails, Goto, peerVars
  <1> QED  BY <1>7, <1>9 DEF StreamIInv

LEMMA StreamReturn ==
  ASSUME StreamIInv, Return
  PROVE  StreamIInv'
  <1>1. ret' \in {"nil", "eof", "err"} /\ (ret' = "nil" => err["r2l"] = "nil" /\ err["l2r"] = "nil")
    BY DEF StreamIInv, StreamTypes, Return, OrElse, Dirs
  <1>2. StreamTypes'
    BY <1>1 DEF StreamIInv, StreamTypes, Return, peerVars
  <1>3. ASSUME NEW d \in Dirs PROVE Direction(d)'
    BY <1>1 DEF StreamIInv, Direction, Return, WriteMax, peerVars, Dirs
  <1> QED  BY <1>2, <1>3 DEF StreamIInv

LEMMA StreamSteps == StreamIInv /\ [Next]_vars => StreamIInv'
  <1> SUFFICES ASSUME StreamIInv, [Next]_vars PROVE StreamIInv'
    OBVIOUS
  <1>1. CASE UNCHANGED vars
    BY <1>1 DEF vars, peerVars, StreamIInv, StreamTypes, Direction, WriteMax
  <1>2. CASE Next
    <2>1. ASSUME NEW d \in Dirs, PeerSends(d) \/ PeerEnds(d) PROVE StreamIInv'
      BY <2>1, StreamPeerSends, StreamPeerEnds
    <2>2. ASSUME NEW d \in Dirs, Transfer(d) PROVE StreamIInv'
      BY <2>2, StreamRead, StreamReadEnd, StreamWrite, StreamWriteSplit, StreamWriteFails,
         StreamCloseWrite DEF Transfer
    <2> QED  BY <1>1, <1>2, <2>1, <2>2, StreamReturn DEF Next, Finished
  <1> QED  BY <1>1, <1>2

(* The invariant says what the relay's properties do. *)
LEMMA StreamFollows == StreamIInv => TypeOK /\ BufferContract /\ SuccessMeansDelivered
  <1> SUFFICES ASSUME StreamIInv PROVE TypeOK /\ BufferContract /\ SuccessMeansDelivered
    OBVIOUS
  <1>1. ASSUME NEW d \in Dirs
        PROVE  /\ sent[d] \in Nat /\ got[d] \in Nat /\ NumBytes[d] \in Nat
               /\ got[d] <= sent[d] /\ sent[d] <= NumBytes[d]
               /\ buf[d] \in Seq(Nat) /\ out[d] \in Seq(Nat)
               /\ rmin[d] \in Nat /\ wmax[d] \in Nat /\ WriteMax(d) \in Nat
    BY StreamAssumption DEF StreamIInv, StreamTypes, Direction, WriteMax
  <1>2. TypeOK
    <2>1. ASSUME NEW d \in Dirs PROVE out[d] \in Seq(1 .. NumBytes[d]) /\ buf[d] \in Seq(1 .. NumBytes[d])
      <3> DEFINE n == Len(out[d])
                 m == Len(buf[d])
                 a == got[d] - m
      <3>1. n \in Nat /\ m \in Nat
        BY <1>1
      <3>2. n <= got[d] /\ out[d] = Numbers(0, n) /\ buf[d] = Numbers(a, m)
        BY DEF StreamIInv, Direction
      <3>3. m = 0 \/ n + m = got[d]
        <4>1. pc[d] \in {"read", "write", "split", "closeWrite", "done"}
          BY DEF StreamIInv, StreamTypes
        <4>2. \/ buf[d] = <<>>
              \/ Len(out[d]) + Len(buf[d]) = got[d]
          BY <4>1 DEF StreamIInv, Direction
        <4>3. buf[d] = <<>> => Len(buf[d]) = 0
          OBVIOUS
        <4> QED  BY <4>2, <4>3, Zenon
      <3> HIDE DEF n, m
      <3>4. a \in Nat /\ a + m <= NumBytes[d] /\ 0 + n <= NumBytes[d] /\ 0 \in Nat
        <4>1. sent[d] \in Nat /\ got[d] \in Nat /\ NumBytes[d] \in Nat /\ got[d] <= sent[d] /\ sent[d] <= NumBytes[d]
          BY <1>1
        <4> QED  BY <3>1, <3>2, <3>3, <4>1
      <3> HIDE DEF a
      <3>5. Numbers(0, n) \in Seq(1 .. NumBytes[d]) /\ Numbers(a, m) \in Seq(1 .. NumBytes[d])
        BY <1>1, <3>1, <3>4, NumbersRange, Zenon
      <3> QED  BY <3>2, <3>5
    <2> QED  BY <1>1, <2>1 DEF TypeOK, StreamIInv, StreamTypes
  <1>3. BufferContract
    <2>1. ASSUME NEW d \in Dirs PROVE ReadLimit(d) >= rmin[d]
      BY <1>1 DEF ReadLimit, Fallback
    <2>2. ASSUME NEW d \in Dirs, pc[d] = "split", wmax[d] # 0 PROVE Len(Piece(d)) <= wmax[d]
      BY <2>2, PieceIsBeginning DEF WriteMax
    <2>3. ASSUME NEW d \in Dirs, pc[d] = "write", wmax[d] # 0 PROVE Len(buf[d]) <= wmax[d]
      BY <2>3 DEF StreamIInv, Direction, WriteMax
    <2> QED  BY <2>1, <2>2, <2>3 DEF BufferContract
  <1>4. SuccessMeansDelivered
    <2> SUFFICES ASSUME ret = "nil", NEW d \in Dirs
                 PROVE  ended[d] = "eof" /\ out[d] = [i \in 1 .. sent[d] |-> i]
      BY DEF SuccessMeansDelivered
    <2>1. ended[d] = "eof" /\ Len(out[d]) = sent[d] /\ out[d] = Numbers(0, Len(out[d]))
      BY DEF StreamIInv, Direction
    <2>2. Numbers(0, sent[d]) = [i \in 1 .. sent[d] |-> i]
      BY <1>1 DEF Numbers
    <2> QED  BY <2>1, <2>2
  <1> QED  BY <1>2, <1>3, <1>4

(* A direction as a byte pipe. *)
Pipe(d) == INSTANCE BytePipe WITH
  sent <- sent[d], ended <- ended[d], delivered <- out[d], result <- RelayResult(d)

LEMMA PipeStarts ==
  ASSUME Init, NEW d \in Dirs
  PROVE  Pipe(d)!Init
  BY DEF Init, Pipe!Init, RelayResult

(* Writing the next bytes of the buffer delivers them, or none. *)
LEMMA PipeDelivers ==
  ASSUME StreamIInv, NEW d \in Dirs, pc[d] \in {"write", "split"}, NEW k \in 0 .. Len(buf[d]),
         out'[d] = out[d] \o SubSeq(buf[d], 1, k), sent'[d] = sent[d], ended'[d] = ended[d],
         pc'[d] # "done"
  PROVE  [Pipe(d)!Next]_(Pipe(d)!pipeVars)
  <1> DEFINE n == Len(out[d])
  <1>1. /\ n \in Nat /\ Len(buf[d]) \in Nat /\ got[d] = n + Len(buf[d])
        /\ SubSeq(buf[d], 1, k) = Numbers(n, k) /\ out[d] \in Seq(Nat)
        /\ sent[d] \in Nat /\ got[d] \in Nat /\ got[d] <= sent[d]
    BY Emission DEF StreamIInv, StreamTypes
  <1>2. RelayResult(d) = "none" /\ RelayResult(d)' = "none"
    BY DEF RelayResult
  <1>3. CASE k = 0
    <2>1. SubSeq(buf[d], 1, k) = <<>> /\ out[d] \o <<>> = out[d]
      BY <1>1, <1>3, NoNumbers
    <2> QED  BY <1>2, <2>1 DEF Pipe!pipeVars
  <1>4. CASE k > 0
    <2> HIDE DEF n
    <2>1. k \in 1 .. (sent[d] - n)
      BY <1>1, <1>4
    <2>2. out'[d] = out[d] \o [i \in 1 .. k |-> n + i]
      BY <1>1 DEF Numbers
    <2> QED  BY <1>2, <2>1, <2>2 DEF Pipe!Next, Pipe!Deliver, n
  <1>5. k = 0 \/ k > 0
    BY <1>1
  <1> QED  BY <1>3, <1>4, <1>5, Zenon

LEMMA PipeSteps ==
  ASSUME StreamIInv, [Next]_vars, NEW d \in Dirs
  PROVE  [Pipe(d)!Next]_(Pipe(d)!pipeVars)
  <1> USE DEF peerVars
  <1>1. CASE UNCHANGED vars
    <2>1. sent' = sent /\ ended' = ended /\ out' = out /\ err' = err /\ pc' = pc
      BY <1>1 DEF vars
    <2> QED  BY <2>1 DEF Pipe!pipeVars, RelayResult
  <1>2. ASSUME NEW e \in Dirs, PeerSends(e) \/ PeerEnds(e)
        PROVE  [Pipe(d)!Next]_(Pipe(d)!pipeVars)
    <2>1. CASE e # d
      <3>1. /\ sent'[d] = sent[d] /\ ended'[d] = ended[d]
            /\ out' = out /\ err' = err /\ pc' = pc
        BY <1>2, <2>1 DEF StreamIInv, StreamTypes, PeerSends, PeerEnds
      <3> QED  BY <3>1 DEF Pipe!pipeVars, RelayResult
    <2>2. CASE e = d
      BY <1>2, <2>2 DEF StreamIInv, StreamTypes, PeerSends, PeerEnds, Pipe!Next, Pipe!Send, Pipe!End, RelayResult
    <2> QED  BY <2>1, <2>2
  <1>3. ASSUME NEW e \in Dirs, Transfer(e)
        PROVE  [Pipe(d)!Next]_(Pipe(d)!pipeVars)
    <2>1. CASE e # d
      <3>1. /\ sent' = sent /\ ended' = ended
            /\ out'[d] = out[d] /\ err'[d] = err[d] /\ pc'[d] = pc[d]
        BY <1>3, <2>1
           DEF StreamIInv, StreamTypes, Transfer, Read, ReadEnd, Write, WriteSplit, WriteFails,
               CloseWrite, Emit, Goto
      <3> QED  BY <3>1 DEF Pipe!pipeVars, RelayResult
    <2>2. CASE e = d /\ Read(d)
      BY <2>2 DEF StreamIInv, StreamTypes, Read, Goto, Pipe!pipeVars, RelayResult
    <2>3. CASE e = d /\ ReadEnd(d)
      <3>1. RelayResult(d) = "none" /\ RelayResult(d)' = "none"
        BY <2>3 DEF RelayResult, ReadEnd, Goto, StreamIInv, StreamTypes
      <3> QED  BY <2>3, <3>1 DEF ReadEnd, Pipe!pipeVars
    <2>4. CASE e = d /\ Write(d)
      <3>1. buf[d] \in Seq(Nat)
        BY DEF StreamIInv, StreamTypes
      <3>2. SubSeq(buf[d], 1, Len(buf[d])) = buf[d] /\ Len(buf[d]) \in 0 .. Len(buf[d])
        BY <3>1
      <3>3. /\ pc[d] = "write" /\ pc'[d] # "done" /\ sent' = sent /\ ended' = ended
            /\ out'[d] = out[d] \o SubSeq(buf[d], 1, Len(buf[d]))
        BY <2>4, <3>2 DEF StreamIInv, StreamTypes, Write, Emit, Goto
      <3> QED  BY <3>2, <3>3, PipeDelivers
    <2>5. CASE e = d /\ WriteSplit(d)
      <3>1. /\ pc[d] = "split" /\ pc'[d] # "done" /\ sent' = sent /\ ended' = ended
            /\ out'[d] = out[d] \o Piece(d)
        BY <2>5 DEF StreamIInv, StreamTypes, WriteSplit, Emit, Goto
      <3>2. Len(Piece(d)) \in 0 .. Len(buf[d]) /\ Piece(d) = SubSeq(buf[d], 1, Len(Piece(d)))
        BY <3>1, PieceIsBeginning
      <3> QED  BY <3>1, <3>2, PipeDelivers
    <2>6. CASE e = d /\ WriteFails(d)
      <3>1. /\ pc[d] \in {"write", "split"} /\ pc'[d] # "done" /\ sent' = sent /\ ended' = ended
        BY <2>6 DEF StreamIInv, StreamTypes, WriteFails, Goto
      <3>2. PICK k \in 0 .. Len(Piece(d)) : out'[d] = out[d] \o SubSeq(Piece(d), 1, k)
        BY <2>6 DEF StreamIInv, StreamTypes, WriteFails, Emit
      <3>3. Len(Piece(d)) \in 0 .. Len(buf[d]) /\ SubSeq(Piece(d), 1, k) = SubSeq(buf[d], 1, k)
        BY <3>1, PieceIsBeginning
      <3>4. buf[d] \in Seq(Nat)
        BY DEF StreamIInv, StreamTypes
      <3>5. k \in 0 .. Len(buf[d])
        BY <3>3, <3>4
      <3> QED  BY <3>1, <3>2, <3>3, <3>5, PipeDelivers
    <2>7. CASE e = d /\ CloseWrite(d)
      <3>1. /\ pc[d] = "closeWrite" /\ pc'[d] = "done" /\ err' = err /\ sent' = sent /\ ended' = ended /\ out' = out
        BY <2>7 DEF StreamIInv, StreamTypes, CloseWrite, Goto
      <3>2. RelayResult(d) = "none" /\ RelayResult(d)' = IF err[d] = "err" THEN "failed" ELSE "complete"
        BY <3>1 DEF RelayResult
      <3>3. err[d] # "err" => ended[d] = "eof" /\ Len(out[d]) = sent[d]
        BY <3>1 DEF StreamIInv, Direction
      <3> QED  BY <3>1, <3>2, <3>3 DEF Pipe!Next, Pipe!Complete, Pipe!Fail
    <2> QED  BY <1>3, <2>1, <2>2, <2>3, <2>4, <2>5, <2>6, <2>7 DEF Transfer
  <1>4. CASE Return
    <2>1. sent' = sent /\ ended' = ended /\ out' = out /\ err' = err /\ pc' = pc
      BY <1>4 DEF Return
    <2> QED  BY <2>1 DEF Pipe!pipeVars, RelayResult
  <1> QED  BY <1>1, <1>2, <1>3, <1>4 DEF Next, Finished

(* Each direction of TwoWayRelay (Relay and relayFallback of             *)
(* zerocopy/stream.go) is a byte pipe: it delivers what the sending end    *)
(* wrote, in order, and reports success only when everything up to the end *)
(* of the stream was delivered, whatever buffers reader and writer ask     *)
(* for, and however the other direction goes.                              *)
THEOREM DirectionsArePipes == SpecPath => ImplementsPipe
  <1>1. InitPath => StreamIInv
    BY StreamStarts DEF InitPath
  <1>2. InitPath => L2R!Init /\ R2L!Init
    <2> SUFFICES ASSUME InitPath PROVE L2R!Init /\ R2L!Init
      OBVIOUS
    <2>1. Pipe("l2r")!Init /\ Pipe("r2l")!Init
      BY PipeStarts DEF InitPath, Dirs
    <2> QED  BY <2>1 DEF Pipe!Init, L2R!Init, R2L!Init
  <1>3. StreamIInv /\ [NextPath]_pathVars => StreamIInv'
    BY StreamPart, StreamSteps
  <1>4. StreamIInv /\ [NextPath]_pathVars => [L2R!Next]_(L2R!pipeVars) /\ [R2L!Next]_(R2L!pipeVars)
    <2> SUFFICES ASSUME StreamIInv, [NextPath]_pathVars
                 PROVE  [L2R!Next]_(L2R!pipeVars) /\ [R2L!Next]_(R2L!pipeVars)
      OBVIOUS
    <2>1. [Pipe("l2r")!Next]_(Pipe("l2r")!pipeVars) /\ [Pipe("r2l")!Next]_(Pipe("r2l")!pipeVars)
      BY StreamPart, PipeSteps DEF Dirs
    <2>2. [L2R!Next]_(L2R!pipeVars)
      BY <2>1 DEF Pipe!Next, Pipe!Send, Pipe!End, Pipe!Deliver, Pipe!Complete, Pipe!Fail, Pipe!pipeVars,
                  L2R!Next, L2R!Send, L2R!End, L2R!Deliver, L2R!Complete, L2R!Fail, L2R!pipeVars
    <2>3. [R2L!Next]_(R2L!pipeVars)
      BY <2>1 DEF Pipe!Next, Pipe!Send, Pipe!End, Pipe!Deliver, Pipe!Complete, Pipe!Fail, Pipe!pipeVars,
                  R2L!Next, R2L!Send, R2L!End, R2L!Deliver, R2L!Complete, R2L!Fail, R2L!pipeVars
    <2> QED  BY <2>2, <2>3
  <1> QED  BY <1>1, <1>2, <1>3, <1>4, SpecIsSafe, PTL DEF SafePath, ImplementsPipe, L2R!Spec, R2L!Spec

-----------------------------------------------------------------------------
(* The relay of connections *)

(* z bytes the client never sent, then the n after its first a. *)
Mixed(z, a, n) == [i \in 1 .. z + n |-> IF i <= z THEN 0 ELSE a + (i - z)]

LEMMA MixedType ==
  ASSUME NEW z \in Nat, NEW a \in Nat, NEW n \in Nat, NEW m \in Nat, a + n <= m
  PROVE  Mixed(z, a, n) \in Seq(0 .. m) /\ Len(Mixed(z, a, n)) = z + n
  BY DEF Mixed

LEMMA MixedCases ==
  ASSUME NEW n \in Nat, NEW a \in Nat
  PROVE  /\ Mixed(0, a, n) = Numbers(a, n)
         /\ Mixed(n, a, 0) = [i \in 1 .. n |-> 0]
         /\ Mixed(0, a, 0) = <<>>
  BY DEF Mixed, Numbers

LEMMA MixedOn ==
  ASSUME NEW z \in Nat, NEW a \in Nat, NEW n \in Nat, NEW k \in Nat
  PROVE  Mixed(z, a, n) \o Numbers(a + n, k) = Mixed(z, a, n + k)
  <1> DEFINE s == Mixed(z, a, n)
             t == Numbers(a + n, k)
             u == Mixed(z, a, n + k)
  <1>1. n + k \in Nat /\ z + n \in Nat /\ a + n \in Nat
    OBVIOUS
  <1>2. /\ s \in Seq(Nat) /\ Len(s) = z + n /\ t \in Seq(Nat) /\ Len(t) = k
        /\ u \in Seq(Nat) /\ Len(u) = z + n + k
    BY <1>1, NumbersType DEF Mixed
  <1>3. /\ \A i \in 1 .. z + n : s[i] = IF i <= z THEN 0 ELSE a + (i - z)
        /\ \A i \in 1 .. k : t[i] = a + n + i
        /\ \A i \in 1 .. z + n + k : u[i] = IF i <= z THEN 0 ELSE a + (i - z)
    BY DEF Mixed, Numbers
  <1> HIDE DEF s, t, u
  <1>4. /\ s \o t \in Seq(Nat) /\ Len(s \o t) = z + n + k
        /\ \A i \in 1 .. z + n + k : (s \o t)[i] = IF i <= z + n THEN s[i] ELSE t[i - (z + n)]
    <2>1. /\ s \o t \in Seq(Nat) /\ Len(s \o t) = Len(s) + Len(t)
          /\ \A i \in 1 .. Len(s) + Len(t) : (s \o t)[i] = IF i <= Len(s) THEN s[i] ELSE t[i - Len(s)]
      BY <1>2, ConcatProperties, Zenon
    <2> QED  BY <1>2, <2>1
  <1>5. \A i \in 1 .. z + n + k : (s \o t)[i] = u[i]
    <2> TAKE i \in 1 .. z + n + k
    <2>1. CASE i <= z + n
      BY <1>3, <1>4, <2>1
    <2>2. CASE i > z + n
      <3>1. i - (z + n) \in 1 .. k /\ a + n + (i - (z + n)) = a + (i - z)
        BY <2>2
      <3>2. (s \o t)[i] = t[i - (z + n)]
        BY <1>4, <2>2
      <3>3. t[i - (z + n)] = a + n + (i - (z + n))
        BY <1>3, <3>1
      <3>4. u[i] = a + (i - z)
        BY <1>3, <2>2
      <3> QED  BY <3>1, <3>2, <3>3, <3>4
    <2>3. i <= z + n \/ i > z + n
      OBVIOUS
    <2> QED  BY <2>1, <2>2, <2>3, Zenon
  <1>6. s \o t = u
    BY <1>2, <1>4, <1>5, SeqEqual
  <1> QED  BY <1>6 DEF s, t, u

(* What was read of connection c and not lost, after the filler. *)
Account(c) == Mixed(TCP!Filler(c), lost[c], clientGot[c] - lost[c])

(* One connection: until it is dialled what was read is in the payload,    *)
(* but for what the handshake lost, then with the remote end; a wait finds *)
(* the rest unread; and a deadline is set in the wait only.                *)
Connection(c) ==
  /\ clientGot[c] <= clientSent[c] /\ lost[c] <= clientGot[c]
  /\ lost[c] > 0 => config.buffered
  /\ timedOut[c] => TCP!waitForInitialPayload
  /\ handler[c] \in {"none", "handshake", "route", "wait"} => ~timedOut[c]
  /\ handler[c] = "wait" => TCP!waitForInitialPayload
  /\ handler[c] \in {"none", "handshake"} => clientGot[c] = 0 /\ lost[c] = 0 /\ payload[c] = <<>>
  /\ handler[c] = "wait" => clientGot[c] = lost[c] /\ payload[c] = <<>>
  /\ handler[c] = "route" /\ ~config.native => clientGot[c] = lost[c] /\ payload[c] = <<>>
  /\ handler[c] \in {"route", "reset", "dial"} => payload[c] = Account(c)
  /\ handler[c] \in {"none", "handshake", "reject", "route", "wait", "reset", "dial"} => remote[c] = "none"
  /\ handler[c] = "relay" => remote[c] # "none"
  /\ remote[c] # "none" => toRemote[c] = Account(c)
  /\ handler[c] \notin {"wait", "reset", "done"} => deadline[c] = "none"

TCPTypes ==
  /\ config \in Configs
  /\ accepting \in BOOLEAN /\ listener \in {"open", "expired", "closed"}
  /\ stop \in {"idle", "wait", "stopped"}
  /\ handler \in [Conns -> {"none", "handshake", "reject", "route", "wait", "reset", "dial", "relay", "done"}]
  /\ clientSent \in [Conns -> 0 .. ClientBytes] /\ clientGot \in [Conns -> 0 .. ClientBytes]
  /\ clientEnded \in [Conns -> BOOLEAN]
  /\ lost \in [Conns -> 0 .. ClientBytes] /\ timedOut \in [Conns -> BOOLEAN]
  /\ deadline \in [Conns -> {"none", "armed", "expired"}]
  /\ payload \in [Conns -> Seq(0 .. ClientBytes)] /\ toRemote \in [Conns -> Seq(0 .. ClientBytes)]
  /\ remote \in [Conns -> {"none", "open", "ended", "closed"}]
  /\ up \in [Conns -> BOOLEAN] /\ down \in [Conns -> BOOLEAN]

TCPIInv == TCPTypes /\ \A c \in Conns : Connection(c)

LEMMA TCPConstantsHold ==
  /\ ClientBytes \in Nat /\ PayloadBufSize \in Nat \ {0}
  /\ Configs \subseteq [native : BOOLEAN, buffered : BOOLEAN, disableWait : BOOLEAN, fallback : BOOLEAN]
  /\ \A conf \in Configs : ~(conf.native /\ conf.buffered)
  BY PathAssumption DEF TCP!TCPConstants

(* A step of one connection leaves the others as they are. *)
LEMMA OtherConnections ==
  ASSUME TCPIInv, NEW c \in Conns, config' = config,
         \A x \in Conns \ {c} :
           /\ handler'[x] = handler[x] /\ clientSent'[x] = clientSent[x] /\ clientGot'[x] = clientGot[x]
           /\ deadline'[x] = deadline[x] /\ payload'[x] = payload[x] /\ toRemote'[x] = toRemote[x]
           /\ remote'[x] = remote[x] /\ lost'[x] = lost[x] /\ timedOut'[x] = timedOut[x],
         Connection(c)'
  PROVE  \A x \in Conns : Connection(x)'
  <1> TAKE x \in Conns
  <1>1. CASE x = c
    BY <1>1
  <1>2. CASE x # c
    BY <1>2 DEF TCPIInv, Connection, Account, TCP!Filler, TCP!waitForInitialPayload
  <1> QED  BY <1>1, <1>2

LEMMA ConnectionFacts ==
  ASSUME TCPIInv, NEW c \in Conns
  PROVE  /\ Connection(c)
         /\ ClientBytes \in Nat /\ clientGot[c] \in Nat /\ clientSent[c] \in Nat
         /\ clientGot[c] <= clientSent[c] /\ clientSent[c] <= ClientBytes
         /\ lost[c] \in Nat /\ lost[c] <= clientGot[c] /\ clientGot[c] - lost[c] \in Nat
         /\ TCP!Filler(c) \in Nat /\ PayloadBufSize \in Nat
         /\ payload[c] \in Seq(0 .. ClientBytes) /\ toRemote[c] \in Seq(0 .. ClientBytes)
  BY TCPConstantsHold DEF TCPIInv, TCPTypes, Connection, TCP!Filler

LEMMA TCPStarts == TCP!Init => TCPIInv
  <1> SUFFICES ASSUME TCP!Init PROVE TCPIInv
    OBVIOUS
  <1>1. TCPTypes
    BY TCPConstantsHold DEF TCP!Init, TCPTypes
  <1>2. ASSUME NEW c \in Conns PROVE Connection(c)
    BY DEF TCP!Init, Connection
  <1> QED  BY <1>1, <1>2 DEF TCPIInv

(* The steps that read nothing. *)
LEMMA TCPEnds ==
  ASSUME TCPIInv, NEW c \in Conns, TCP!ClientSends(c) \/ TCP!ClientEnds(c) \/ TCP!RemoteEnds(c)
  PROVE  TCPIInv'
  <1> USE DEF TCP!serverVars, TCP!clientVars, TCP!relayVars
  <1>1. TCPTypes'
    <2>1. CASE TCP!ClientSends(c)
      <3>1. clientSent[c] + 1 \in 0 .. ClientBytes
        BY <2>1, TCPConstantsHold DEF TCPIInv, TCPTypes, TCP!ClientSends
      <3> QED  BY <2>1, <3>1 DEF TCPIInv, TCPTypes, TCP!ClientSends
    <2>2. CASE TCP!ClientEnds(c) \/ TCP!RemoteEnds(c)
      BY <2>2 DEF TCPIInv, TCPTypes, TCP!ClientEnds, TCP!RemoteEnds
    <2> QED  BY <2>1, <2>2
  <1>2. Connection(c)'
    <2>1. /\ config' = config /\ handler' = handler /\ clientGot' = clientGot /\ lost' = lost
          /\ timedOut' = timedOut /\ deadline' = deadline /\ payload' = payload /\ toRemote' = toRemote
      BY DEF TCP!ClientSends, TCP!ClientEnds, TCP!RemoteEnds
    <2>2. clientGot[c] <= clientSent'[c]
      BY ConnectionFacts DEF TCPIInv, TCPTypes, TCP!ClientSends, TCP!ClientEnds, TCP!RemoteEnds
    <2>3. (remote[c] = "none") <=> (remote'[c] = "none")
      BY DEF TCPIInv, TCPTypes, TCP!ClientSends, TCP!ClientEnds, TCP!RemoteEnds
    <2>4. Account(c)' = Account(c) /\ (TCP!waitForInitialPayload' <=> TCP!waitForInitialPayload)
      BY <2>1 DEF Account, TCP!Filler, TCP!waitForInitialPayload
    <2>5. Connection(c)
      BY ConnectionFacts
    <2> QED  BY <2>1, <2>2, <2>3, <2>4, <2>5 DEF Connection
  <1>3. \A x \in Conns : Connection(x)'
    BY <1>2, OtherConnections DEF TCPIInv, TCPTypes, TCP!ClientSends, TCP!ClientEnds, TCP!RemoteEnds
  <1> QED  BY <1>1, <1>3 DEF TCPIInv

LEMMA TCPHandles ==
  ASSUME TCPIInv, NEW c \in Conns,
         \/ TCP!Accept(c) \/ TCP!HandshakeNoRelay(c) \/ TCP!CloseNow(c) \/ TCP!Route(c)
         \/ TCP!DeadlinePasses(c) \/ TCP!WaitFails(c) \/ TCP!ResetDeadline(c) \/ TCP!DialFails(c)
  PROVE  TCPIInv'
  <1> USE DEF TCP!serverVars, TCP!clientVars, TCP!relayVars, TCP!Accept, TCP!HandshakeNoRelay,
              TCP!CloseNow, TCP!Route, TCP!DeadlinePasses, TCP!WaitFails, TCP!ResetDeadline,
              TCP!DialFails, TCP!Goto
  <1>1. TCPTypes'
    BY DEF TCPIInv, TCPTypes
  <1>2. Connection(c)'
    BY DEF TCPIInv, TCPTypes, Connection, Account, TCP!Filler, TCP!waitForInitialPayload
  <1>3. \A x \in Conns : Connection(x)'
    BY <1>2, OtherConnections DEF TCPIInv, TCPTypes
  <1> QED  BY <1>1, <1>3 DEF TCPIInv

LEMMA TCPRelayEnds ==
  ASSUME TCPIInv, NEW c \in Conns,
         TCP!RelayUpEnds(c) \/ TCP!RelayDownEnds(c) \/ TCP!RelayDone(c)
  PROVE  TCPIInv'
  <1> USE DEF TCP!serverVars, TCP!clientVars, TCP!relayVars, TCP!RelayUpEnds, TCP!RelayDownEnds,
              TCP!RelayDone, TCP!Goto
  <1>1. TCPTypes'
    BY DEF TCPIInv, TCPTypes
  <1>2. Connection(c)'
    BY DEF TCPIInv, TCPTypes, Connection, Account, TCP!Filler, TCP!waitForInitialPayload
  <1>3. \A x \in Conns : Connection(x)'
    BY <1>2, OtherConnections DEF TCPIInv, TCPTypes
  <1> QED  BY <1>1, <1>3 DEF TCPIInv

LEMMA TCPServer ==
  ASSUME TCPIInv, TCP!AcceptDeadline \/ TCP!StopBegin \/ TCP!StopWait \/ UNCHANGED TCP!vars
  PROVE  TCPIInv'
  <1> USE DEF TCP!AcceptDeadline, TCP!StopBegin, TCP!StopWait, TCP!vars, TCP!serverVars, TCP!clientVars,
              TCP!relayVars
  <1>1. TCPTypes'
    BY DEF TCPIInv, TCPTypes
  <1>2. ASSUME NEW c \in Conns PROVE Connection(c)'
    BY DEF TCPIInv, Connection, Account, TCP!Filler, TCP!waitForInitialPayload
  <1> QED  BY <1>1, <1>2 DEF TCPIInv

(* The steps that read from the client.  What they read is in order, and   *)
(* of the right type.                                                      *)
LEMMA NextBytesAre ==
  ASSUME TCPIInv, NEW c \in Conns, NEW k \in 0 .. (clientSent[c] - clientGot[c])
  PROVE  /\ TCP!NextBytes(c, k) = Numbers(clientGot[c], k)
         /\ Numbers(clientGot[c], k) \in Seq(0 .. ClientBytes) /\ Len(Numbers(clientGot[c], k)) = k
         /\ clientGot[c] + k \in 0 .. ClientBytes /\ clientGot[c] + k <= clientSent[c]
         /\ clientGot[c] \in Nat /\ k \in Nat
         /\ Numbers(clientGot[c], k) = Mixed(0, clientGot[c], k)
  <1>1. clientGot[c] \in Nat /\ clientSent[c] \in Nat /\ clientSent[c] <= ClientBytes /\ ClientBytes \in Nat
    BY ConnectionFacts
  <1>2. k \in Nat /\ clientGot[c] + k <= clientSent[c]
    BY <1>1
  <1>3. clientGot[c] + k <= ClientBytes /\ clientGot[c] + k \in Nat
    BY <1>1, <1>2
  <1>4. TCP!NextBytes(c, k) = Numbers(clientGot[c], k)
    BY DEF TCP!NextBytes, Numbers
  <1>5. Numbers(clientGot[c], k) \in Seq(0 .. ClientBytes) /\ Len(Numbers(clientGot[c], k)) = k
    BY <1>1, <1>2, <1>3, NumbersRange, NumbersType
  <1>6. Numbers(clientGot[c], k) = Mixed(0, clientGot[c], k)
    BY <1>1, <1>2, MixedCases
  <1> QED  BY <1>1, <1>2, <1>3, <1>4, <1>5, <1>6

LEMMA TCPHandshake ==
  ASSUME TCPIInv, NEW c \in Conns, TCP!Handshake(c)
  PROVE  TCPIInv'
  <1> USE DEF TCP!serverVars, TCP!clientVars, TCP!relayVars
  <1>0. /\ handler' = [handler EXCEPT ![c] = "route"]
        /\ UNCHANGED <<config, accepting, listener, stop, clientSent, clientEnded, timedOut, deadline>>
        /\ UNCHANGED <<toRemote, remote, up, down>>
    BY DEF TCP!Handshake, TCP!Goto
  <1>1. PICK k \in 0 .. (IF config.native \/ config.buffered THEN TCP!Unread(c) ELSE 0) :
          /\ clientGot' = [clientGot EXCEPT ![c] = @ + k]
          /\ \/ config.buffered /\ lost' = [lost EXCEPT ![c] = k] /\ payload' = payload
             \/ ~config.buffered /\ payload' = [payload EXCEPT ![c] = TCP!NextBytes(c, k)] /\ lost' = lost
    BY DEF TCP!Handshake, TCP!Consume
  <1>2. /\ clientGot[c] \in Nat /\ clientSent[c] \in Nat /\ clientGot[c] = 0 /\ lost[c] = 0 /\ payload[c] = <<>>
        /\ remote[c] = "none" /\ deadline[c] = "none" /\ timedOut[c] = FALSE
    <2>1. handler[c] = "handshake" /\ timedOut[c] \in BOOLEAN
      BY DEF TCP!Handshake, TCPIInv, TCPTypes
    <2>2. Connection(c) /\ clientGot[c] \in Nat /\ clientSent[c] \in Nat
      BY ConnectionFacts
    <2> QED  BY <2>1, <2>2 DEF Connection
  <1>3. k \in 0 .. (clientSent[c] - clientGot[c]) /\ (~config.native /\ ~config.buffered => k = 0)
    BY <1>2 DEF TCP!Unread
  <1>4. /\ k \in Nat /\ k \in 0 .. ClientBytes /\ k <= clientSent[c]
        /\ TCP!NextBytes(c, k) = Mixed(0, 0, k) /\ TCP!NextBytes(c, k) \in Seq(0 .. ClientBytes)
    <2>1. /\ k \in Nat /\ clientGot[c] + k \in 0 .. ClientBytes /\ clientGot[c] + k <= clientSent[c]
          /\ TCP!NextBytes(c, k) = Mixed(0, clientGot[c], k) /\ TCP!NextBytes(c, k) \in Seq(0 .. ClientBytes)
      BY <1>3, NextBytesAre
    <2> QED  BY <1>2, <2>1
  <1>5. /\ clientGot'[c] = k /\ clientGot' \in [Conns -> 0 .. ClientBytes]
        /\ lost' \in [Conns -> 0 .. ClientBytes] /\ payload' \in [Conns -> Seq(0 .. ClientBytes)]
        /\ \/ config.buffered /\ lost'[c] = k /\ payload'[c] = <<>>
           \/ ~config.buffered /\ lost'[c] = 0 /\ payload'[c] = Mixed(0, 0, k)
    <2>1. clientGot'[c] = k /\ clientGot' \in [Conns -> 0 .. ClientBytes]
      <3>1. 0 + k = k
        BY <1>4
      <3> QED  BY <1>1, <1>2, <1>4, <3>1 DEF TCPIInv, TCPTypes
    <2>2. CASE config.buffered /\ lost' = [lost EXCEPT ![c] = k] /\ payload' = payload
      BY <1>2, <1>4, <2>1, <2>2 DEF TCPIInv, TCPTypes
    <2>3. CASE ~config.buffered /\ payload' = [payload EXCEPT ![c] = TCP!NextBytes(c, k)] /\ lost' = lost
      BY <1>2, <1>4, <2>1, <2>3 DEF TCPIInv, TCPTypes
    <2> QED  BY <1>1, <2>2, <2>3
  <1>6. TCPTypes'
    BY <1>0, <1>5 DEF TCPIInv, TCPTypes
  <1>7. Connection(c)'
    <2>1. /\ handler'[c] = "route" /\ remote'[c] = "none" /\ deadline'[c] = "none" /\ timedOut'[c] = FALSE
          /\ config' = config /\ clientGot'[c] <= clientSent'[c]
      BY <1>0, <1>2, <1>4, <1>5 DEF TCPIInv, TCPTypes
    <2>2. Account(c)' = Mixed(0, lost'[c], clientGot'[c] - lost'[c])
      BY <2>1 DEF Account, TCP!Filler
    <2>3. CASE config.buffered /\ lost'[c] = k /\ payload'[c] = <<>>
      <3>1. k - k = 0 /\ k <= k
        BY <1>4
      <3>2. payload'[c] = Account(c)'
        BY <1>4, <1>5, <2>2, <2>3, <3>1, MixedCases
      <3> QED  BY <1>5, <2>1, <2>3, <3>1, <3>2 DEF Connection
    <2>4. CASE ~config.buffered /\ lost'[c] = 0 /\ payload'[c] = Mixed(0, 0, k)
      <3>1. k - 0 = k /\ 0 <= k /\ ~(0 > 0)
        BY <1>4
      <3>2. payload'[c] = Account(c)'
        BY <1>5, <2>2, <2>4, <3>1
      <3>3. ~config.native => clientGot'[c] = 0 /\ payload'[c] = <<>>
        BY <1>3, <1>5, <2>4, MixedCases
      <3> QED  BY <1>5, <2>1, <2>4, <3>1, <3>2, <3>3 DEF Connection
    <2> QED  BY <1>5, <2>3, <2>4
  <1>8. \A x \in Conns : Connection(x)'
    <2>1. \A x \in Conns \ {c} :
            /\ handler'[x] = handler[x] /\ clientSent'[x] = clientSent[x] /\ clientGot'[x] = clientGot[x]
            /\ deadline'[x] = deadline[x] /\ payload'[x] = payload[x] /\ toRemote'[x] = toRemote[x]
            /\ remote'[x] = remote[x] /\ lost'[x] = lost[x] /\ timedOut'[x] = timedOut[x]
      BY <1>0, <1>1 DEF TCPIInv, TCPTypes
    <2> QED  BY <1>0, <1>7, <2>1, OtherConnections
  <1> QED  BY <1>6, <1>8 DEF TCPIInv

LEMMA TCPHandshakeFails ==
  ASSUME TCPIInv, NEW c \in Conns, TCP!HandshakeFails(c)
  PROVE  TCPIInv'
  <1> USE DEF TCP!serverVars, TCP!clientVars, TCP!relayVars
  <1>1. PICK k \in 0 .. TCP!Unread(c), returned \in BOOLEAN :
          LET data == IF config.native /\ returned THEN TCP!NextBytes(c, k) ELSE <<>> IN
          /\ clientGot' = [clientGot EXCEPT ![c] = @ + k]
          /\ payload' = [payload EXCEPT ![c] = data]
          /\ handler' = [handler EXCEPT ![c] = IF config.fallback /\ data # <<>> THEN "route" ELSE "reject"]
    BY DEF TCP!HandshakeFails, TCP!Consume, TCP!Goto
  <1> DEFINE data == IF config.native /\ returned THEN TCP!NextBytes(c, k) ELSE <<>>
  <1>2. clientGot[c] \in Nat /\ clientSent[c] \in Nat /\ clientGot[c] = 0 /\ remote[c] = "none" /\ deadline[c] = "none"
        /\ lost[c] = 0 /\ timedOut[c] = FALSE
    <2>1. handler[c] = "handshake" /\ timedOut[c] \in BOOLEAN
      BY DEF TCP!HandshakeFails, TCPIInv, TCPTypes
    <2>2. Connection(c) /\ clientGot[c] \in Nat /\ clientSent[c] \in Nat
      BY ConnectionFacts
    <2> QED  BY <2>1, <2>2 DEF Connection
  <1>3. k \in 0 .. (clientSent[c] - clientGot[c])
    BY <1>2 DEF TCP!Unread
  <1>4. /\ data \in Seq(0 .. ClientBytes)
        /\ clientGot[c] + k \in 0 .. ClientBytes /\ clientGot[c] + k <= clientSent[c]
        /\ data # <<>> => data = Mixed(0, 0, clientGot[c] + k) /\ config.native
    <2>1. /\ TCP!NextBytes(c, k) \in Seq(0 .. ClientBytes) /\ TCP!NextBytes(c, k) = Mixed(0, 0, clientGot[c] + k)
          /\ clientGot[c] + k \in 0 .. ClientBytes /\ clientGot[c] + k <= clientSent[c]
      <3>1. /\ k \in Nat /\ TCP!NextBytes(c, k) \in Seq(0 .. ClientBytes) /\ TCP!NextBytes(c, k) = Mixed(0, clientGot[c], k)
            /\ clientGot[c] + k \in 0 .. ClientBytes /\ clientGot[c] + k <= clientSent[c]
        BY <1>3, NextBytesAre
      <3> QED  BY <1>2, <3>1
    <2>2. CASE config.native /\ returned
      <3>1. data = TCP!NextBytes(c, k)
        BY <2>2, Zenon
      <3> HIDE DEF data
      <3> QED  BY <2>1, <2>2, <3>1
    <2>3. CASE ~(config.native /\ returned)
      <3>1. data = <<>>
        BY <2>3, Zenon
      <3> HIDE DEF data
      <3> QED  BY <2>1, <3>1
    <2> QED  BY <2>2, <2>3, Zenon
  <1>5. /\ clientGot' = [clientGot EXCEPT ![c] = @ + k]
        /\ payload' = [payload EXCEPT ![c] = data]
        /\ handler' = [handler EXCEPT ![c] = IF config.fallback /\ data # <<>> THEN "route" ELSE "reject"]
    BY <1>1
  <1> HIDE DEF data
  <1>6. TCPTypes'
    BY <1>4, <1>5 DEF TCPIInv, TCPTypes, TCP!HandshakeFails
  <1>7. Connection(c)'
    <2>1. /\ handler'[c] = (IF config.fallback /\ data # <<>> THEN "route" ELSE "reject")
          /\ payload'[c] = data /\ clientGot'[c] = clientGot[c] + k /\ clientGot'[c] <= clientSent'[c]
          /\ remote'[c] = "none" /\ deadline'[c] = "none" /\ config' = config
      BY <1>2, <1>4, <1>5 DEF TCPIInv, TCPTypes, TCP!HandshakeFails
    <2>2. /\ lost'[c] = 0 /\ timedOut'[c] = FALSE /\ lost'[c] <= clientGot'[c]
          /\ clientGot'[c] - lost'[c] = clientGot[c] + k /\ ~(lost'[c] > 0)
      BY <1>2, <1>3, <2>1 DEF TCP!HandshakeFails
    <2>3. Account(c)' = Mixed(0, 0, clientGot[c] + k)
      BY <2>2 DEF Account, TCP!Filler
    <2>4. handler'[c] = "route" => config.native /\ payload'[c] = Account(c)'
      BY <1>4, <2>1, <2>3
    <2> QED  BY <2>1, <2>2, <2>4 DEF Connection
  <1>8. \A x \in Conns : Connection(x)'
    BY <1>5, <1>7, OtherConnections DEF TCPIInv, TCPTypes, TCP!HandshakeFails
  <1> QED  BY <1>6, <1>8 DEF TCPIInv

LEMMA TCPCloseAfterDrain ==
  ASSUME TCPIInv, NEW c \in Conns, TCP!CloseAfterDrain(c)
  PROVE  TCPIInv'
  <1> USE DEF TCP!serverVars, TCP!clientVars, TCP!relayVars
  <1>1. /\ clientGot[c] \in Nat /\ clientSent[c] \in Nat /\ clientSent[c] <= ClientBytes
        /\ lost[c] \in Nat /\ lost[c] <= clientGot[c]
        /\ clientGot[c] <= clientSent[c] /\ handler[c] = "reject" /\ remote[c] = "none" /\ deadline[c] = "none"
    BY ConnectionFacts DEF Connection, TCP!CloseAfterDrain
  <1>2. clientGot[c] + TCP!Unread(c) = clientSent[c]
    BY <1>1 DEF TCP!Unread
  <1>3. clientGot' \in [Conns -> 0 .. ClientBytes] /\ clientGot'[c] <= clientSent[c] /\ lost[c] <= clientGot'[c]
    <2>1. clientGot' = [clientGot EXCEPT ![c] = clientSent[c]] \/ clientGot' = clientGot
      BY <1>2 DEF TCP!CloseAfterDrain, TCP!Consume
    <2>2. clientSent[c] \in 0 .. ClientBytes
      BY <1>1
    <2>3. clientGot' \in [Conns -> 0 .. ClientBytes]
      BY <2>1, <2>2 DEF TCPIInv, TCPTypes
    <2>4. clientGot'[c] = clientSent[c] \/ clientGot'[c] = clientGot[c]
      BY <2>1 DEF TCPIInv, TCPTypes
    <2> QED  BY <1>1, <2>3, <2>4
  <1>4. TCPTypes'
    BY <1>3 DEF TCPIInv, TCPTypes, TCP!CloseAfterDrain, TCP!Goto
  <1>5. Connection(c)'
    BY <1>1, <1>3 DEF TCPIInv, TCPTypes, Connection, TCP!waitForInitialPayload, TCP!CloseAfterDrain, TCP!Goto
  <1>6. \A x \in Conns : Connection(x)'
    BY <1>5, OtherConnections DEF TCPIInv, TCPTypes, TCP!CloseAfterDrain, TCP!Goto, TCP!Consume
  <1> QED  BY <1>4, <1>6 DEF TCPIInv

LEMMA TCPWaitRead ==
  ASSUME TCPIInv, NEW c \in Conns, TCP!WaitRead(c)
  PROVE  TCPIInv'
  <1> USE DEF TCP!serverVars, TCP!clientVars, TCP!relayVars
  <1>1. PICK k \in 1 .. Min({PayloadBufSize, TCP!Unread(c)}) :
          /\ payload' = [payload EXCEPT ![c] = TCP!NextBytes(c, k)]
          /\ clientGot' = [clientGot EXCEPT ![c] = @ + k]
    BY DEF TCP!WaitRead, TCP!Consume, TCP!Min, Min
  <1>2. clientGot[c] \in Nat /\ clientSent[c] \in Nat /\ clientGot[c] = lost[c] /\ remote[c] = "none" /\ handler[c] = "wait"
        /\ timedOut[c] = FALSE /\ lost[c] \in Nat /\ (lost[c] > 0 => config.buffered)
    BY ConnectionFacts DEF Connection, TCPIInv, TCPTypes, TCP!WaitRead
  <1>3. k \in 0 .. (clientSent[c] - clientGot[c])
    <2>1. TCP!Unread(c) \in Int /\ PayloadBufSize \in Int
      BY <1>2, TCPConstantsHold DEF TCP!Unread
    <2>2. Min({PayloadBufSize, TCP!Unread(c)}) \in Int /\ Min({PayloadBufSize, TCP!Unread(c)}) <= TCP!Unread(c)
      BY <2>1, LesserOf
    <2> QED  BY <1>2, <2>2 DEF TCP!Unread
  <1>4. /\ payload' = [payload EXCEPT ![c] = Mixed(0, lost[c], k)]
        /\ Mixed(0, lost[c], k) \in Seq(0 .. ClientBytes) /\ k \in Nat
        /\ clientGot[c] + k \in 0 .. ClientBytes /\ clientGot[c] + k <= clientSent[c]
    BY <1>1, <1>2, <1>3, NextBytesAre
  <1>5. TCPTypes'
    BY <1>1, <1>4 DEF TCPIInv, TCPTypes, TCP!WaitRead, TCP!Goto
  <1>6. Connection(c)'
    <2>1. /\ handler'[c] = "reset" /\ payload'[c] = Mixed(0, lost[c], k) /\ clientGot'[c] = clientGot[c] + k
          /\ clientGot'[c] <= clientSent'[c] /\ remote'[c] = "none"
          /\ lost'[c] = lost[c] /\ timedOut'[c] = FALSE /\ config' = config
      BY <1>1, <1>2, <1>4 DEF TCPIInv, TCPTypes, TCP!WaitRead, TCP!Goto
    <2>2. clientGot'[c] - lost'[c] = k /\ lost'[c] <= clientGot'[c]
      BY <1>2, <1>4, <2>1
    <2>3. payload'[c] = Account(c)'
      BY <2>1, <2>2 DEF Account, TCP!Filler
    <2> QED  BY <1>2, <2>1, <2>2, <2>3 DEF Connection
  <1>7. \A x \in Conns : Connection(x)'
    BY <1>1, <1>6, OtherConnections DEF TCPIInv, TCPTypes, TCP!WaitRead, TCP!Goto
  <1> QED  BY <1>5, <1>7 DEF TCPIInv

LEMMA TCPWaitTimeout ==
  ASSUME TCPIInv, NEW c \in Conns, TCP!WaitTimeout(c)
  PROVE  TCPIInv'
  <1> USE DEF TCP!serverVars, TCP!clientVars, TCP!relayVars
  <1>1. /\ PayloadBufSize \in Nat /\ clientGot[c] = lost[c] /\ remote[c] = "none" /\ ClientBytes \in Nat
        /\ lost[c] \in Nat /\ lost[c] <= ClientBytes /\ (lost[c] > 0 => config.buffered)
        /\ TCP!waitForInitialPayload /\ clientGot[c] <= clientSent[c]
    <2>1. Connection(c) /\ handler[c] = "wait" /\ lost[c] \in Nat /\ clientGot[c] \in Nat /\ clientSent[c] \in Nat
          /\ clientSent[c] <= ClientBytes /\ ClientBytes \in Nat /\ PayloadBufSize \in Nat
      BY ConnectionFacts DEF TCP!WaitTimeout
    <2> QED  BY <2>1 DEF Connection
  <1>2. payload' = [payload EXCEPT ![c] = Mixed(PayloadBufSize, lost[c], 0)]
    BY <1>1, MixedCases DEF TCP!WaitTimeout
  <1>3. Mixed(PayloadBufSize, lost[c], 0) \in Seq(0 .. ClientBytes)
    <2>1. 0 \in Nat /\ lost[c] + 0 <= ClientBytes
      BY <1>1
    <2> QED  BY <1>1, <2>1, MixedType, Zenon
  <1>0. /\ handler' = [handler EXCEPT ![c] = "reset"] /\ timedOut' = [timedOut EXCEPT ![c] = TRUE]
        /\ UNCHANGED <<config, accepting, listener, stop, clientSent, clientEnded, clientGot, lost, deadline>>
        /\ UNCHANGED <<toRemote, remote, up, down>>
    BY DEF TCP!WaitTimeout, TCP!Goto
  <1>4. TCPTypes'
    BY <1>0, <1>2, <1>3 DEF TCPIInv, TCPTypes
  <1>5. Connection(c)'
    <2>1. /\ handler'[c] = "reset" /\ payload'[c] = Mixed(PayloadBufSize, lost[c], 0) /\ timedOut'[c] = TRUE
          /\ clientGot'[c] <= clientSent'[c] /\ remote'[c] = "none" /\ lost'[c] = lost[c]
          /\ clientGot'[c] = clientGot[c] /\ config' = config
      BY <1>0, <1>1, <1>2 DEF TCPIInv, TCPTypes
    <2>2. clientGot'[c] - lost'[c] = 0 /\ lost'[c] <= clientGot'[c]
      BY <1>1, <2>1
    <2>3. payload'[c] = Account(c)'
      BY <2>1, <2>2 DEF Account, TCP!Filler
    <2> QED  BY <1>1, <2>1, <2>2, <2>3 DEF Connection, TCP!waitForInitialPayload
  <1>6. \A x \in Conns : Connection(x)'
    <2>1. \A x \in Conns \ {c} :
            /\ handler'[x] = handler[x] /\ clientSent'[x] = clientSent[x] /\ clientGot'[x] = clientGot[x]
            /\ deadline'[x] = deadline[x] /\ payload'[x] = payload[x] /\ toRemote'[x] = toRemote[x]
            /\ remote'[x] = remote[x] /\ lost'[x] = lost[x] /\ timedOut'[x] = timedOut[x]
      BY <1>0, <1>2 DEF TCPIInv, TCPTypes
    <2> QED  BY <1>0, <1>5, <2>1, OtherConnections
  <1> QED  BY <1>4, <1>6 DEF TCPIInv

LEMMA TCPDial ==
  ASSUME TCPIInv, NEW c \in Conns, TCP!Dial(c)
  PROVE  TCPIInv'
  <1> USE DEF TCP!serverVars, TCP!clientVars, TCP!relayVars
  <1>1. TCPTypes'
    BY DEF TCPIInv, TCPTypes, TCP!Dial, TCP!Goto
  <1>2. Connection(c)'
    BY ConnectionFacts DEF TCPIInv, TCPTypes, Connection, Account, TCP!Filler, TCP!waitForInitialPayload, TCP!Dial, TCP!Goto
  <1>3. \A x \in Conns : Connection(x)'
    BY <1>2, OtherConnections DEF TCPIInv, TCPTypes, TCP!Dial, TCP!Goto
  <1> QED  BY <1>1, <1>3 DEF TCPIInv

LEMMA TCPRelayUp ==
  ASSUME TCPIInv, NEW c \in Conns, TCP!RelayUp(c)
  PROVE  TCPIInv'
  <1> USE DEF TCP!serverVars, TCP!clientVars, TCP!relayVars
  <1>1. PICK k \in 1 .. TCP!Unread(c) :
          /\ toRemote' = [toRemote EXCEPT ![c] = @ \o TCP!NextBytes(c, k)]
          /\ clientGot' = [clientGot EXCEPT ![c] = @ + k]
    BY DEF TCP!RelayUp, TCP!Consume
  <1>2. clientGot[c] \in Nat /\ clientSent[c] \in Nat /\ handler[c] = "relay" /\ remote[c] # "none"
    BY ConnectionFacts DEF Connection, TCP!RelayUp
  <1>3. k \in 0 .. (clientSent[c] - clientGot[c]) /\ k \in Nat
    BY <1>2 DEF TCP!Unread
  <1> DEFINE z == TCP!Filler(c)
             n == clientGot[c] - lost[c]
  <1>4. /\ toRemote[c] = Mixed(z, lost[c], n) /\ z \in Nat /\ lost[c] \in Nat /\ n \in Nat
        /\ lost[c] + n = clientGot[c] /\ clientGot[c] + k - lost[c] = n + k
    <2>1. toRemote[c] = Account(c)
      BY <1>2, ConnectionFacts DEF Connection
    <2> QED  BY <1>2, <1>3, <2>1, ConnectionFacts DEF Account
  <1>5. /\ TCP!NextBytes(c, k) = Numbers(clientGot[c], k)
        /\ clientGot[c] + k \in 0 .. ClientBytes /\ clientGot[c] + k <= clientSent[c]
    BY <1>2, <1>3, NextBytesAre
  <1> HIDE DEF z, n
  <1>6. toRemote' = [toRemote EXCEPT ![c] = Mixed(z, lost[c], n + k)]
    <2>1. Mixed(z, lost[c], n) \o Numbers(lost[c] + n, k) = Mixed(z, lost[c], n + k)
      <3>1. z \in Nat /\ lost[c] \in Nat /\ n \in Nat /\ k \in Nat
        BY <1>3, <1>4
      <3> QED  BY ONLY <3>1, MixedOn, ZenonT(80)
    <2>2. toRemote[c] \o TCP!NextBytes(c, k) = Mixed(z, lost[c], n + k)
      BY <1>4, <1>5, <2>1
    <2> QED  BY <1>1, <2>2
  <1>7. Mixed(z, lost[c], n + k) \in Seq(0 .. ClientBytes)
    <2>1. n + k \in Nat /\ lost[c] + (n + k) <= ClientBytes /\ ClientBytes \in Nat
      BY <1>3, <1>4, <1>5, TCPConstantsHold
    <2> QED  BY <1>4, <2>1, MixedType
  <1>8. TCPTypes'
    <2>1. clientGot' \in [Conns -> 0 .. ClientBytes]
      BY <1>1, <1>5 DEF TCPIInv, TCPTypes
    <2>2. toRemote' \in [Conns -> Seq(0 .. ClientBytes)]
      BY <1>6, <1>7 DEF TCPIInv, TCPTypes
    <2> QED  BY <2>1, <2>2 DEF TCPIInv, TCPTypes, TCP!RelayUp
  <1>9. Connection(c)'
    <2>1. /\ handler'[c] = "relay" /\ toRemote'[c] = Mixed(z, lost[c], n + k) /\ clientGot'[c] = clientGot[c] + k
          /\ clientGot'[c] <= clientSent'[c] /\ remote'[c] = remote[c] /\ deadline' = deadline
          /\ lost' = lost /\ timedOut' = timedOut /\ config' = config
      BY <1>1, <1>2, <1>5, <1>6 DEF TCPIInv, TCPTypes, TCP!RelayUp
    <2>2. clientGot'[c] - lost'[c] = n + k /\ lost'[c] <= clientGot'[c]
      BY <1>3, <1>4, <2>1
    <2>3. toRemote'[c] = Account(c)'
      BY <2>1, <2>2 DEF Account, z, TCP!Filler
    <2> QED  BY <1>2, <2>1, <2>2, <2>3, ConnectionFacts DEF Connection, TCP!waitForInitialPayload
  <1>10. \A x \in Conns : Connection(x)'
    BY <1>1, <1>9, OtherConnections DEF TCPIInv, TCPTypes, TCP!RelayUp
  <1> QED  BY <1>8, <1>10 DEF TCPIInv

LEMMA TCPSteps == TCPIInv /\ [TCP!Next]_(TCP!vars) => TCPIInv'
  <1> SUFFICES ASSUME TCPIInv, [TCP!Next]_(TCP!vars) PROVE TCPIInv'
    OBVIOUS
  <1>1. ASSUME NEW c \in Conns, TCP!HandleConn(c) PROVE TCPIInv'
    BY <1>1, TCPHandles, TCPRelayEnds, TCPHandshake, TCPHandshakeFails, TCPCloseAfterDrain, TCPWaitRead,
       TCPWaitTimeout, TCPDial, TCPRelayUp, Zenon DEF TCP!HandleConn
  <1>2. ASSUME NEW c \in Conns,
               \/ TCP!ClientSends(c) \/ TCP!ClientEnds(c) \/ TCP!RemoteEnds(c) \/ TCP!Accept(c)
               \/ TCP!DeadlinePasses(c) \/ TCP!RelayUpEnds(c)
        PROVE  TCPIInv'
    BY <1>2, TCPEnds, TCPHandles, TCPRelayEnds, Zenon
  <1> QED  BY <1>1, <1>2, TCPServer DEF TCP!Next, TCP!Finished

LEMMA TCPFollows == TCPIInv => TCP!TypeOK /\ TCP!RelayHasNoDeadline /\ TCP!ClientBytesInOrder
  <1> SUFFICES ASSUME TCPIInv PROVE TCP!TypeOK /\ TCP!RelayHasNoDeadline /\ TCP!ClientBytesInOrder
    OBVIOUS
  <1>1. TCP!TypeOK
    <2>1. ASSUME NEW c \in Conns PROVE clientSent[c] \in 0 .. ClientBytes /\ clientGot[c] \in 0 .. clientSent[c]
                                               /\ lost[c] \in 0 .. clientGot[c]
      BY ConnectionFacts
    <2> QED  BY <2>1 DEF TCPIInv, TCPTypes, TCP!TypeOK
  <1>2. TCP!RelayHasNoDeadline
    BY DEF TCPIInv, Connection, TCP!RelayHasNoDeadline
  <1>3. TCP!ClientBytesInOrder
    <2> SUFFICES ASSUME NEW c \in Conns
                 PROVE  /\ lost[c] > 0 => config.buffered
                        /\ timedOut[c] => TCP!waitForInitialPayload
                        /\ remote[c] # "none" => toRemote[c] = Account(c)
      BY DEF TCP!ClientBytesInOrder, Account, Mixed
    <2> QED  BY DEF TCPIInv, Connection
  <1> QED  BY <1>1, <1>2, <1>3

-----------------------------------------------------------------------------
(* CopyReadWriter *)

(* Of the m numbers in hold and the n in done, done are the first. *)
Split(done, hold, total) ==
  /\ Len(done) + Len(hold) = total
  /\ done = Numbers(0, Len(done)) /\ hold = Numbers(Len(done), Len(hold))

(* Of the bytes read, some were returned and the rest is in the buffer; of *)
(* those given, some are with the stream and the rest is to be written.    *)
CopyReadSide ==
  /\ dataWithEnd \in BOOLEAN /\ readEnd \in BOOLEAN
  /\ inGot \in 0 .. NumIn /\ rbuf \in Seq(Nat) /\ readOut \in Seq(Nat)
  /\ Split(readOut, rbuf, inGot)
  /\ readEnd /\ ~dataWithEnd => inGot = NumIn /\ rbuf = <<>>

CopyWriteSide ==
  /\ failed \in BOOLEAN /\ given \in 0 .. NumOut /\ reported \in Nat
  /\ todo \in Seq(Nat) /\ wOut \in Seq(Nat)
  /\ call \in {"none", "Write", "ReadFrom"}
  /\ call = "none" => todo = <<>>
  /\ call # "none" => ~failed
  /\ ~failed /\ ~dataWithEnd =>
       Split(wOut, todo, given) /\ reported = IF call = "ReadFrom" THEN given ELSE Len(wOut)

CopyIInv == CopyReadSide /\ CopyWriteSide

LEMMA CopyConstantsHold ==
  /\ NumIn \in Nat /\ NumOut \in Nat
  /\ ReadBufSize \in Nat \ {0} /\ WriteBufSize \in Nat \ {0} /\ MaxCall \in Nat \ {0}
  BY PathAssumption DEF Copy!CopyConstants

LEMMA LeastIs ==
  ASSUME NEW i \in Int, NEW j \in Int
  PROVE  Copy!Least(i, j) \in {i, j} /\ Copy!Least(i, j) <= i /\ Copy!Least(i, j) <= j
  <1>1. Copy!Least(i, j) = Min({i, j})
    BY DEF Copy!Least, Copy!Min, Min
  <1> QED  BY <1>1, LesserOf

(* A part moves over. *)
LEMMA SplitMove ==
  ASSUME NEW done \in Seq(Nat), NEW hold \in Seq(Nat), NEW total \in Nat, Split(done, hold, total),
         NEW k \in 0 .. Len(hold)
  PROVE  /\ Split(done \o SubSeq(hold, 1, k), Copy!Rest(hold, k), total)
         /\ done \o SubSeq(hold, 1, k) \in Seq(Nat) /\ Copy!Rest(hold, k) \in Seq(Nat)
         /\ Len(done \o SubSeq(hold, 1, k)) = Len(done) + k
         /\ Len(Copy!Rest(hold, k)) = Len(hold) - k
  <1> DEFINE n == Len(done)
             m == Len(hold)
  <1>1. n \in Nat /\ m \in Nat /\ k \in 0 .. m
    OBVIOUS
  <1>2. n + m = total /\ done = Numbers(0, n) /\ hold = Numbers(n, m)
    BY DEF Split
  <1>3. Copy!Rest(hold, k) = SubSeq(hold, k + 1, m)
    BY DEF Copy!Rest
  <1> HIDE DEF n, m
  <1>4. /\ done \o SubSeq(hold, 1, k) = Numbers(0, n + k) /\ Copy!Rest(hold, k) = Numbers(n + k, m - k)
        /\ Numbers(0, n + k) \in Seq(Nat) /\ Len(Numbers(0, n + k)) = n + k
        /\ Numbers(n + k, m - k) \in Seq(Nat) /\ Len(Numbers(n + k, m - k)) = m - k
    <2>1. /\ Numbers(0, n) \o SubSeq(Numbers(n, m), 1, k) = Numbers(0, n + k)
          /\ SubSeq(Numbers(n, m), k + 1, m) = Numbers(n + k, m - k)
          /\ Numbers(0, n + k) \in Seq(Nat) /\ Len(Numbers(0, n + k)) = n + k
          /\ Numbers(n + k, m - k) \in Seq(Nat) /\ Len(Numbers(n + k, m - k)) = m - k
      BY <1>1, NumbersMove, ZenonT(40)
    <2> QED  BY <1>2, <1>3, <2>1, Zenon
  <1>5. n + k + (m - k) = total
    BY <1>1, <1>2
  <1> QED  BY <1>4, <1>5 DEF Split, n, m

(* More bytes come when none are held. *)
LEMMA SplitMore ==
  ASSUME NEW done \in Seq(Nat), NEW total \in Nat, Split(done, <<>>, total), NEW j \in Nat
  PROVE  /\ Split(done, Copy!Bytes(total, j), total + j)
         /\ Copy!Bytes(total, j) \in Seq(Nat) /\ Len(Copy!Bytes(total, j)) = j
  <1>1. Len(done) \in Nat /\ Len(done) = total /\ done = Numbers(0, Len(done))
    BY DEF Split
  <1>2. Copy!Bytes(total, j) = Numbers(total, j)
    BY DEF Copy!Bytes, Numbers
  <1>3. Numbers(total, j) \in Seq(Nat) /\ Len(Numbers(total, j)) = j
    BY NumbersType
  <1> QED  BY <1>1, <1>2, <1>3 DEF Split

(* Nothing is left. *)
LEMMA SplitNone ==
  ASSUME NEW total \in Nat
  PROVE  Split(Numbers(0, total), <<>>, total)
  BY NumbersType, NoNumbers DEF Split

LEMMA CopyStarts == Copy!Init => CopyIInv
  <1> SUFFICES ASSUME Copy!Init PROVE CopyIInv
    OBVIOUS
  <1>1. <<>> = Numbers(0, 0) /\ Len(<<>>) = 0 /\ <<>> \in Seq(Nat)
    BY NoNumbers
  <1>2. Split(<<>>, <<>>, 0)
    BY <1>1 DEF Split
  <1>4. readOut = <<>> /\ rbuf = <<>> /\ inGot = 0 /\ wOut = <<>> /\ todo = <<>> /\ given = 0
    BY DEF Copy!Init
  <1>5. Split(readOut, rbuf, inGot) /\ Split(wOut, todo, given)
    BY <1>2, <1>4
  <1>3. /\ dataWithEnd \in BOOLEAN /\ readEnd \in BOOLEAN /\ failed \in BOOLEAN
        /\ ~readEnd /\ call = "none" /\ reported = 0
    BY DEF Copy!Init
  <1>6. CopyReadSide
    BY <1>1, <1>3, <1>4, <1>5, CopyConstantsHold DEF CopyReadSide
  <1>7. CopyWriteSide
    BY <1>1, <1>3, <1>4, <1>5, CopyConstantsHold DEF CopyWriteSide
  <1> QED  BY <1>6, <1>7 DEF CopyIInv

LEMMA CopyRead ==
  ASSUME CopyIInv, NEW k \in 0 .. MaxCall, Copy!Read(k)
  PROVE  CopyIInv'
  <1> USE DEF Copy!writeVars
  <1>1. k \in Nat /\ inGot \in Nat /\ Len(rbuf) \in Nat /\ NumIn \in Nat /\ ReadBufSize \in Nat /\ inGot <= NumIn
    BY CopyConstantsHold DEF CopyIInv, CopyReadSide, CopyWriteSide
  <1>2. CASE rbuf # <<>>
    <2> DEFINE l == Copy!Least(k, Len(rbuf))
    <2>1. l \in 0 .. Len(rbuf)
      <3>1. l \in {k, Len(rbuf)} /\ l <= Len(rbuf)
        BY <1>1, LeastIs
      <3> QED  BY <1>1, <3>1
    <2> HIDE DEF l
    <2>2. /\ Split(readOut \o SubSeq(rbuf, 1, l), Copy!Rest(rbuf, l), inGot)
          /\ readOut \o SubSeq(rbuf, 1, l) \in Seq(Nat) /\ Copy!Rest(rbuf, l) \in Seq(Nat)
      BY <1>1, <2>1, SplitMove DEF CopyIInv, CopyReadSide, CopyWriteSide
    <2>3. readOut' = readOut \o SubSeq(rbuf, 1, l) /\ rbuf' = Copy!Rest(rbuf, l) /\ inGot' = inGot
      BY <1>2 DEF Copy!Read, l
    <2> QED  BY <1>2, <2>2, <2>3 DEF CopyIInv, CopyReadSide, CopyWriteSide, Copy!Read
  <1>3. CASE rbuf = <<>>
    <2>1. PICK j \in 1 .. Copy!Least(ReadBufSize, NumIn - inGot) :
            /\ inGot' = inGot + j
            /\ readOut' = readOut \o SubSeq(Copy!Bytes(inGot, j), 1, Copy!Least(k, j))
            /\ rbuf' = Copy!Rest(Copy!Bytes(inGot, j), Copy!Least(k, j))
      BY <1>3 DEF Copy!Read
    <2> DEFINE l == Copy!Least(k, j)
    <2>2. j \in Nat /\ j > 0 /\ inGot + j <= NumIn /\ inGot + j \in Nat
      <3>1. /\ Copy!Least(ReadBufSize, NumIn - inGot) <= NumIn - inGot
            /\ Copy!Least(ReadBufSize, NumIn - inGot) \in {ReadBufSize, NumIn - inGot}
        BY <1>1, LeastIs
      <3> QED  BY <1>1, <3>1
    <2>3. l \in 0 .. j
      <3>1. l \in {k, j} /\ l <= j
        BY <1>1, <2>2, LeastIs
      <3> QED  BY <1>1, <2>2, <3>1
    <2> HIDE DEF l
    <2> DEFINE b == Copy!Bytes(inGot, j)
    <2>4. Split(readOut, b, inGot + j) /\ b \in Seq(Nat) /\ Len(b) = j /\ readOut \in Seq(Nat)
      BY <1>1, <1>3, <2>2, SplitMore DEF CopyIInv, CopyReadSide, CopyWriteSide
    <2> HIDE DEF b
    <2>5. /\ Split(readOut \o SubSeq(b, 1, l), Copy!Rest(b, l), inGot + j)
          /\ readOut \o SubSeq(b, 1, l) \in Seq(Nat) /\ Copy!Rest(b, l) \in Seq(Nat)
      BY <2>2, <2>3, <2>4, SplitMove
    <2>6. ~(readEnd /\ ~dataWithEnd)
      BY <1>1, <2>2 DEF CopyIInv, CopyReadSide
    <2> QED  BY <1>1, <2>1, <2>2, <2>5, <2>6 DEF CopyIInv, CopyReadSide, CopyWriteSide, Copy!Read, b, l
  <1> QED  BY <1>2, <1>3

LEMMA CopyReadEOF ==
  ASSUME CopyIInv, Copy!ReadEOF
  PROVE  CopyIInv'
  <1> USE DEF Copy!writeVars
  <1>1. inGot \in Nat /\ NumIn \in Nat /\ inGot <= NumIn /\ rbuf = <<>> /\ readOut \in Seq(Nat)
    BY CopyConstantsHold DEF CopyIInv, CopyReadSide, CopyWriteSide, Copy!ReadEOF
  <1>2. CASE inGot = NumIn /\ UNCHANGED <<inGot, rbuf>>
    BY <1>1, <1>2 DEF CopyIInv, CopyReadSide, CopyWriteSide, Copy!ReadEOF
  <1>3. CASE /\ dataWithEnd /\ NumIn - inGot \in 1 .. ReadBufSize
             /\ rbuf' = Copy!Bytes(inGot, NumIn - inGot)
             /\ inGot' = NumIn
    <2> DEFINE j == NumIn - inGot
    <2>1. j \in Nat /\ inGot + j = NumIn
      BY <1>1
    <2> HIDE DEF j
    <2>2. Split(readOut, Copy!Bytes(inGot, j), inGot + j) /\ Copy!Bytes(inGot, j) \in Seq(Nat)
      BY <1>1, <2>1, SplitMore DEF CopyIInv, CopyReadSide
    <2>3. Split(readOut, rbuf', inGot') /\ rbuf' \in Seq(Nat) /\ inGot' \in 0 .. NumIn
      BY <1>1, <1>3, <2>1, <2>2 DEF j
    <2> QED  BY <1>3, <2>3 DEF CopyIInv, CopyReadSide, CopyWriteSide, Copy!ReadEOF
  <1> QED  BY <1>2, <1>3 DEF Copy!ReadEOF

LEMMA CopyReadSideRests ==
  ASSUME CopyIInv, UNCHANGED Copy!readVars
  PROVE  CopyReadSide'
  BY DEF CopyIInv, CopyReadSide, Copy!readVars

LEMMA CopyWrite ==
  ASSUME CopyIInv, NEW k \in 0 .. MaxCall, Copy!Write(k)
  PROVE  CopyIInv'
  <1>1. /\ k \in Nat /\ given \in Nat /\ NumOut \in Nat /\ given + k \in 0 .. NumOut /\ todo = <<>> /\ ~failed
        /\ wOut \in Seq(Nat) /\ call = "none"
    BY CopyConstantsHold DEF CopyIInv, CopyReadSide, CopyWriteSide, Copy!Write
  <1>2. Copy!Bytes(given, k) \in Seq(Nat)
    BY <1>1 DEF Copy!Bytes
  <1>3. ~dataWithEnd => Split(wOut, Copy!Bytes(given, k), given + k)
    BY <1>1, SplitMore DEF CopyIInv, CopyWriteSide
  <1>4. CopyWriteSide'
    BY <1>1, <1>2, <1>3 DEF CopyWriteSide, CopyReadSide, CopyIInv, Copy!Write, Copy!readVars
  <1> QED  BY <1>4, CopyReadSideRests DEF CopyIInv, Copy!Write

(* Bytes of todo go to the stream. *)
LEMMA CopyWriteChunk ==
  ASSUME CopyIInv, Copy!WriteChunk
  PROVE  CopyIInv'
  <1> DEFINE k == Copy!Least(WriteBufSize, Len(todo))
  <1>1. todo \in Seq(Nat) /\ wOut \in Seq(Nat) /\ Len(todo) \in Nat /\ given \in Nat /\ reported \in Nat /\ call = "Write"
    BY CopyConstantsHold DEF CopyIInv, CopyReadSide, CopyWriteSide, Copy!WriteChunk
  <1>2. k \in 0 .. Len(todo)
    <2>1. k \in {WriteBufSize, Len(todo)} /\ k <= Len(todo)
      BY <1>1, LeastIs, CopyConstantsHold
    <2> QED  BY <1>1, <2>1, CopyConstantsHold
  <1>3. CASE todo = <<>>
    BY <1>3, CopyReadSideRests DEF CopyIInv, CopyWriteSide, Copy!WriteChunk, Copy!readVars
  <1>4. CASE todo # <<>>
    <2>1. PICK j \in 0 .. k :
            /\ wOut' = wOut \o SubSeq(todo, 1, j)
            /\ reported' = reported + j
            /\ \/ j = k /\ todo' = Copy!Rest(todo, k) /\ UNCHANGED <<failed, call>>
               \/ todo' = <<>> /\ failed' = TRUE /\ call' = "none"
      BY <1>4 DEF Copy!WriteChunk
    <2> HIDE DEF k
    <2>2. j \in 0 .. Len(todo) /\ j \in Nat
      BY <1>1, <1>2
    <2>3. wOut \o SubSeq(todo, 1, j) \in Seq(Nat) /\ Copy!Rest(todo, k) \in Seq(Nat)
      <3>1. SubSeq(todo, 1, j) \in Seq(Nat)
        BY <1>1, <2>2
      <3>2. Copy!Rest(todo, k) \in Seq(Nat)
        BY <1>1, <1>2 DEF Copy!Rest
      <3> QED  BY <1>1, <3>1, <3>2
    <2>4. ~failed /\ ~dataWithEnd =>
            /\ Split(wOut \o SubSeq(todo, 1, j), Copy!Rest(todo, j), given)
            /\ Len(wOut \o SubSeq(todo, 1, j)) = Len(wOut) + j
      BY <1>1, <2>2, SplitMove DEF CopyIInv, CopyWriteSide
    <2>5. given' = given /\ dataWithEnd' = dataWithEnd
      BY DEF Copy!WriteChunk, Copy!readVars
    <2>6. CopyWriteSide'
      <3>1. CASE j = k /\ todo' = Copy!Rest(todo, k) /\ UNCHANGED <<failed, call>>
        <4>1. wOut' \in Seq(Nat) /\ todo' \in Seq(Nat) /\ reported' \in Nat /\ call' = "Write" /\ failed' = failed
          BY <1>1, <2>1, <2>2, <2>3, <3>1
        <4>2. ~failed /\ ~dataWithEnd => Split(wOut', todo', given) /\ reported' = Len(wOut')
          <5>1. ~failed /\ ~dataWithEnd => reported = Len(wOut)
            BY <1>1 DEF CopyIInv, CopyWriteSide
          <5> QED  BY <2>1, <2>4, <3>1, <5>1
        <4> QED  BY <1>1, <2>5, <4>1, <4>2 DEF CopyWriteSide, CopyIInv
      <3>2. CASE todo' = <<>> /\ failed' = TRUE /\ call' = "none"
        BY <1>1, <2>1, <2>2, <2>3, <2>5, <3>2 DEF CopyWriteSide, CopyReadSide, CopyIInv
      <3> QED  BY <2>1, <3>1, <3>2
    <2> QED  BY <2>6, CopyReadSideRests DEF CopyIInv, Copy!WriteChunk
  <1> QED  BY <1>3, <1>4

LEMMA CopyReadFrom ==
  ASSUME CopyIInv, Copy!ReadFrom
  PROVE  CopyIInv'
  <1>1. ~dataWithEnd => Len(wOut) = given
    BY DEF CopyIInv, CopyReadSide, CopyWriteSide, Copy!ReadFrom, Split
  <1>2. CopyWriteSide'
    BY <1>1 DEF CopyWriteSide, CopyReadSide, CopyIInv, Copy!ReadFrom, Copy!readVars
  <1> QED  BY <1>2, CopyReadSideRests DEF CopyIInv, Copy!ReadFrom

LEMMA CopyReadFromRead ==
  ASSUME CopyIInv, Copy!ReadFromRead
  PROVE  CopyIInv'
  <1>1. PICK k \in 1 .. Copy!Least(WriteBufSize, NumOut - given) :
          /\ given' = given + k
          /\ reported' = reported + k
          /\ \/ todo' = Copy!Bytes(given, k) /\ UNCHANGED call
             \/ dataWithEnd /\ given + k = NumOut /\ call' = "none" /\ UNCHANGED todo
    BY DEF Copy!ReadFromRead
  <1>2. /\ given \in Nat /\ NumOut \in Nat /\ given <= NumOut /\ WriteBufSize \in Nat /\ reported \in Nat
        /\ todo = <<>> /\ call = "ReadFrom" /\ wOut \in Seq(Nat)
    BY CopyConstantsHold DEF CopyIInv, CopyReadSide, CopyWriteSide, Copy!ReadFromRead
  <1>3. k \in Nat /\ given + k \in 0 .. NumOut
    <2>1. /\ Copy!Least(WriteBufSize, NumOut - given) <= NumOut - given
          /\ Copy!Least(WriteBufSize, NumOut - given) \in {WriteBufSize, NumOut - given}
      BY <1>2, LeastIs
    <2> QED  BY <1>2, <2>1
  <1>4. Copy!Bytes(given, k) \in Seq(Nat)
    BY <1>2, <1>3 DEF Copy!Bytes
  <1>5. ~failed /\ ~dataWithEnd => Split(wOut, Copy!Bytes(given, k), given + k) /\ reported = given
    BY <1>2, <1>3, SplitMore DEF CopyIInv, CopyWriteSide
  <1>6. CopyWriteSide'
    <2>1. failed' = failed /\ wOut' = wOut /\ dataWithEnd' = dataWithEnd /\ ~failed /\ failed \in BOOLEAN
      BY <1>2 DEF CopyWriteSide, CopyIInv, Copy!ReadFromRead, Copy!readVars
    <2>2. given' \in 0 .. NumOut /\ reported' \in Nat
      BY <1>1, <1>2, <1>3
    <2>3. CASE todo' = Copy!Bytes(given, k) /\ UNCHANGED call
      BY <1>1, <1>2, <1>4, <1>5, <2>1, <2>2, <2>3 DEF CopyWriteSide
    <2>4. CASE dataWithEnd /\ given + k = NumOut /\ call' = "none" /\ UNCHANGED todo
      BY <1>2, <2>1, <2>2, <2>4 DEF CopyWriteSide
    <2> QED  BY <1>1, <2>3, <2>4
  <1> QED  BY <1>6, CopyReadSideRests DEF CopyIInv, Copy!ReadFromRead

LEMMA CopyReadFromEnd ==
  ASSUME CopyIInv, Copy!ReadFromEnd
  PROVE  CopyIInv'
  <1>1. ~failed /\ ~dataWithEnd => Len(wOut) = given
    BY DEF CopyIInv, CopyReadSide, CopyWriteSide, Copy!ReadFromEnd, Split
  <1>2. CopyWriteSide'
    <2>1. /\ failed' \in BOOLEAN /\ call' = "none" /\ given' = given /\ todo' = todo /\ wOut' = wOut
          /\ reported' = reported /\ dataWithEnd' = dataWithEnd /\ todo = <<>> /\ call = "ReadFrom"
      BY DEF Copy!ReadFromEnd, Copy!readVars
    <2>2. ~failed /\ (~dataWithEnd => Split(wOut, todo, given) /\ reported = given)
      BY <2>1 DEF CopyIInv, CopyWriteSide
    <2>3. ~failed' /\ ~dataWithEnd' => Split(wOut', todo', given') /\ reported' = Len(wOut')
      BY <1>1, <2>1, <2>2
    <2> QED  BY <2>1, <2>3 DEF CopyIInv, CopyWriteSide
  <1> QED  BY <1>2, CopyReadSideRests DEF CopyIInv, Copy!ReadFromEnd

LEMMA CopyReadFromWrite ==
  ASSUME CopyIInv, Copy!ReadFromWrite
  PROVE  CopyIInv'
  <1>1. todo \in Seq(Nat) /\ wOut \in Seq(Nat) /\ Len(todo) \in Nat /\ given \in Nat
    BY CopyConstantsHold DEF CopyIInv, CopyReadSide, CopyWriteSide
  <1>2. wOut' \in Seq(Nat)
    <2>1. \A j \in 0 .. Len(todo) : SubSeq(todo, 1, j) \in Seq(Nat)
      BY <1>1
    <2>2. wOut' = wOut \o todo \/ \E j \in 0 .. Len(todo) : wOut' = wOut \o SubSeq(todo, 1, j)
      BY DEF Copy!ReadFromWrite
    <2>3. \A t \in Seq(Nat) : wOut \o t \in Seq(Nat)
      BY <1>1
    <2> QED  BY <1>1, <2>1, <2>2, <2>3, Zenon
  <1>3. ~failed /\ ~dataWithEnd => Split(wOut \o todo, <<>>, given)
    <2> SUFFICES ASSUME ~failed, ~dataWithEnd PROVE Split(wOut \o todo, <<>>, given)
      OBVIOUS
    <2> DEFINE m == Len(todo)
    <2>1. SubSeq(todo, 1, m) = todo /\ m \in 0 .. m
      BY <1>1
    <2>2. Copy!Rest(todo, m) = <<>>
      BY <1>1 DEF Copy!Rest
    <2>3. Split(wOut \o SubSeq(todo, 1, m), Copy!Rest(todo, m), given)
      BY <1>1, <2>1, SplitMove DEF CopyIInv, CopyWriteSide
    <2> QED  BY <2>1, <2>2, <2>3
  <1>4. CopyWriteSide'
    <2>1. /\ todo' = <<>> /\ given' = given /\ reported' = reported /\ dataWithEnd' = dataWithEnd
          /\ call = "ReadFrom" /\ ~failed /\ failed \in BOOLEAN /\ given \in 0 .. NumOut /\ reported \in Nat
          /\ ~dataWithEnd => reported = given
      BY DEF CopyIInv, CopyWriteSide, Copy!ReadFromWrite, Copy!readVars
    <2>2. CASE wOut' = wOut \o todo /\ UNCHANGED <<call, failed>>
      BY <1>2, <1>3, <2>1, <2>2 DEF CopyWriteSide
    <2>3. CASE failed' = TRUE /\ call' = "none"
      BY <1>2, <2>1, <2>3 DEF CopyWriteSide
    <2> QED  BY <2>2, <2>3 DEF Copy!ReadFromWrite
  <1> QED  BY <1>4, CopyReadSideRests DEF CopyIInv, Copy!ReadFromWrite

LEMMA CopySteps == CopyIInv /\ [Copy!Next]_(Copy!vars) => CopyIInv'
  <1> SUFFICES ASSUME CopyIInv, [Copy!Next]_(Copy!vars) PROVE CopyIInv'
    OBVIOUS
  <1>1. CASE UNCHANGED Copy!vars
    BY <1>1, CopyReadSideRests DEF CopyIInv, CopyWriteSide, Copy!vars, Copy!readVars, Copy!writeVars
  <1> QED  BY <1>1, CopyRead, CopyReadEOF, CopyWrite, CopyWriteChunk, CopyReadFrom, CopyReadFromRead,
              CopyReadFromEnd, CopyReadFromWrite DEF Copy!Next

LEMMA CopyFollows == CopyIInv => Copy!ReadInOrder /\ Copy!EOFIsLast /\ Copy!WrittenInOrder
  <1> SUFFICES ASSUME CopyIInv PROVE Copy!ReadInOrder /\ Copy!EOFIsLast /\ Copy!WrittenInOrder
    OBVIOUS
  <1>0. ASSUME NEW done \in Seq(Nat), NEW hold \in Seq(Nat), NEW total \in Nat, Split(done, hold, total)
        PROVE  done \o hold = Copy!Bytes(0, total)
    <2> DEFINE n == Len(done)
               m == Len(hold)
    <2>1. n \in Nat /\ m \in Nat /\ n + m = total /\ done = Numbers(0, n) /\ hold = Numbers(n, m)
      BY <1>0 DEF Split
    <2> HIDE DEF n, m
    <2>2. Numbers(0, n) \o Numbers(n, m) = Numbers(0, n + m)
      BY <2>1, NumbersOn
    <2>3. Copy!Bytes(0, total) = Numbers(0, total)
      BY DEF Copy!Bytes, Numbers
    <2> QED  BY <2>1, <2>2, <2>3
  <1>1. inGot \in Nat /\ given \in Nat
    BY CopyConstantsHold DEF CopyIInv, CopyReadSide, CopyWriteSide
  <1>2. Copy!ReadInOrder
    BY <1>0, <1>1 DEF CopyIInv, CopyReadSide, CopyWriteSide, Copy!ReadInOrder
  <1>3. Copy!EOFIsLast
    BY <1>1 DEF CopyIInv, CopyReadSide, CopyWriteSide, Split, Copy!EOFIsLast
  <1>4. Copy!WrittenInOrder
    BY <1>0, <1>1 DEF CopyIInv, CopyReadSide, CopyWriteSide, Copy!WrittenInOrder
  <1> QED  BY <1>2, <1>3, <1>4

-----------------------------------------------------------------------------
(* The process *)

(* Services are started and stopped in order, and the router is closed     *)
(* when none of them runs; a UDP service that has stopped relays nothing.  *)
ProcessIInv ==
  /\ main \in {"clients", "dns", "router", "services", "starting", "waiting", "stopping",
               "closing", "exited", "fatal", "killed"}
  /\ next \in Nat
  /\ service \in [Process!Services -> {"new", "started", "stopping", "swept", "stopped"}]
  /\ session \in [Process!Services -> [Sessions -> {"none", "routing", "relaying", "done"}]]
  /\ router \in {"none", "open", "closed"} /\ notified \in BOOLEAN
  /\ main \in {"clients", "dns", "router", "services"} => \A i \in Process!Services : service[i] = "new"
  /\ main = "starting" => \A i \in Process!Services : i >= next => service[i] = "new"
  /\ main = "stopping" => \A i \in Process!Services : i < next => service[i] \in {"new", "stopped"}
  /\ main \in {"clients", "dns", "router", "services", "starting", "waiting", "stopping"} => router # "closed"
  /\ main \in {"closing", "exited"} \/ router = "closed" =>
       \A i \in Process!Services : service[i] \in {"new", "stopped"}
  /\ \A i \in Process!Services, c \in Sessions : service[i] = "new" => session[i][c] = "none"
  /\ \A i \in UDP, c \in Sessions : service[i] = "stopped" => session[i][c] # "relaying"

LEMMA ProcessConstantsHold ==
  /\ N \in Nat \ {0} /\ UDP \subseteq Process!Services /\ Process!Services \subseteq Nat
  /\ \A i \in Process!Services : 1 <= i /\ i <= N
  BY PathAssumption DEF Process!ManagerConstants, Process!Services

LEMMA ProcessStarts == Process!Init => ProcessIInv
  <1> SUFFICES ASSUME Process!Init PROVE ProcessIInv
    OBVIOUS
  <1>1. /\ service \in [Process!Services -> {"new", "started", "stopping", "swept", "stopped"}]
        /\ session \in [Process!Services -> [Sessions -> {"none", "routing", "relaying", "done"}]]
    BY DEF Process!Init
  <1>2. \A i \in Process!Services : service[i] = "new" /\ \A c \in Sessions : session[i][c] = "none"
    BY DEF Process!Init
  <1> QED  BY <1>1, <1>2, ProcessConstantsHold DEF Process!Init, ProcessIInv

LEMMA ProcessCreates ==
  ASSUME ProcessIInv, Process!CreatePart \/ Process!CreateFails \/ Process!CreateServices
  PROVE  ProcessIInv'
  BY ProcessConstantsHold
     DEF ProcessIInv, Process!CreatePart, Process!Create, Process!CreateFails, Process!CreateServices

LEMMA ProcessServicesStart ==
  ASSUME ProcessIInv, Process!StartService \/ Process!StartFails \/ Process!Notify \/ Process!Signal
  PROVE  ProcessIInv'
  <1>1. CASE Process!StartService
    <2>1. /\ main = "starting" /\ main' = main /\ session' = session /\ router' = router /\ notified' = notified
          /\ next' = next + 1 /\ router # "closed" /\ next \in Nat /\ next' \in Nat
      BY <1>1 DEF ProcessIInv, Process!StartService
    <2>2. /\ service' \in [Process!Services -> {"new", "started", "stopping", "swept", "stopped"}]
          /\ \A i \in Process!Services : service'[i] = IF i = next THEN "started" ELSE service[i]
      BY <1>1 DEF ProcessIInv, Process!StartService
    <2>3. ASSUME NEW i \in Process!Services, i >= next' PROVE service'[i] = "new"
      <3>1. i \in Nat /\ i # next /\ i >= next
        BY <2>1, <2>3, ProcessConstantsHold
      <3> QED  BY <2>1, <2>2, <3>1 DEF ProcessIInv
    <2> QED  BY <2>1, <2>2, <2>3, ProcessConstantsHold DEF ProcessIInv
  <1>2. CASE Process!StartFails
    BY <1>2 DEF ProcessIInv, Process!StartFails
  <1>4. CASE Process!Notify
    <2>1. notified' \in BOOLEAN /\ main' = "waiting" /\ main = "starting"
      BY <1>4 DEF Process!Notify
    <2> QED  BY <1>4, <2>1 DEF ProcessIInv, Process!Notify
  <1>3. CASE Process!Signal
    <2>1. main' \in {main, "killed"}
      BY <1>3 DEF Process!Signal
    <2> QED  BY <1>3, <2>1 DEF ProcessIInv, Process!Signal
  <1> QED  BY <1>1, <1>2, <1>3, <1>4

LEMMA ProcessServicesStop ==
  ASSUME ProcessIInv, Process!StopBegin \/ Process!StopService \/ Process!SweepService \/ Process!StopReturns
  PROVE  ProcessIInv'
  BY ProcessConstantsHold
     DEF ProcessIInv, Process!StopBegin, Process!StopService, Process!SweepService, Process!StopReturns,
         Process!Waits

LEMMA ProcessCloses ==
  ASSUME ProcessIInv, Process!StopEnds \/ Process!Close \/ Process!Exit \/ UNCHANGED Process!vars
  PROVE  ProcessIInv'
  BY ProcessConstantsHold
     DEF ProcessIInv, Process!StopEnds, Process!Close, Process!Exit, Process!vars

LEMMA ProcessSessions ==
  ASSUME ProcessIInv, NEW i \in Process!Services, NEW c \in Sessions, Process!SessionStep(i, c)
  PROVE  ProcessIInv'
  BY ProcessConstantsHold
     DEF ProcessIInv, Process!SessionStep, Process!Open, Process!Routed, Process!RouterRejects,
         Process!RelayEnds, Process!To, Process!Others, Process!Running

LEMMA ProcessSteps == ProcessIInv /\ [Process!Next]_(Process!vars) => ProcessIInv'
  <1> SUFFICES ASSUME ProcessIInv, [Process!Next]_(Process!vars) PROVE ProcessIInv'
    OBVIOUS
  <1>1. CASE Process!MainStep \/ Process!Signal
    BY <1>1, ProcessCreates, ProcessServicesStart, ProcessServicesStop, ProcessCloses, Zenon
       DEF Process!MainStep
  <1> QED  BY <1>1, ProcessSessions, ProcessCloses DEF Process!Next, Process!Finished

LEMMA ProcessFollows == ProcessIInv => Process!ClosedAfterServices
  <1> SUFFICES ASSUME ProcessIInv, router = "closed" PROVE Process!ClosedAfterServices
    BY DEF Process!ClosedAfterServices
  <1>1. \A i \in Process!Services : service[i] \in {"new", "stopped"}
    BY DEF ProcessIInv
  <1>2. ASSUME NEW i \in UDP, NEW c \in Sessions PROVE session[i][c] # "relaying"
    BY <1>1, ProcessConstantsHold DEF ProcessIInv
  <1> QED  BY <1>1, <1>2 DEF Process!ClosedAfterServices

(* What a service that has stopped may never do. *)
LEMMA StoppedSteps ==
  ASSUME ProcessIInv, [Process!Next]_(Process!vars), NEW i \in UDP, service[i] = "stopped"
  PROVE  /\ service'[i] = "stopped"
         /\ \A c \in Sessions : session'[i][c] = "relaying" => session[i][c] = "relaying"
  <1>0. i \in Process!Services /\ i \in Nat
    BY ProcessConstantsHold
  <1>1. CASE \/ Process!CreatePart \/ Process!CreateFails \/ Process!CreateServices \/ Process!StartFails
             \/ Process!Notify \/ Process!StopBegin \/ Process!StopEnds \/ Process!Close \/ Process!Exit
             \/ Process!Signal \/ UNCHANGED Process!vars
    <2>1. service' = service /\ session' = session
      BY <1>1 DEF Process!CreatePart, Process!CreateFails, Process!CreateServices, Process!StartFails,
         Process!Notify, Process!StopBegin, Process!StopEnds, Process!Close, Process!Exit,
         Process!Signal, Process!vars
    <2> QED  BY <2>1
  <1>2. CASE Process!StartService
    BY <1>0, <1>2 DEF ProcessIInv, Process!StartService
  <1>3. CASE Process!StopService \/ Process!SweepService \/ Process!StopReturns
    BY <1>0, <1>3 DEF ProcessIInv, Process!StopService, Process!SweepService, Process!StopReturns
  <1>4. ASSUME NEW x \in Process!Services, NEW c \in Sessions, Process!SessionStep(x, c)
        PROVE  /\ service'[i] = "stopped"
               /\ \A y \in Sessions : session'[i][y] = "relaying" => session[i][y] = "relaying"
    <2>1. service' = service
      BY <1>4 DEF Process!SessionStep, Process!Open, Process!Routed, Process!RouterRejects,
         Process!RelayEnds, Process!Others
    <2>2. ASSUME NEW y \in Sessions, session'[i][y] = "relaying" PROVE session[i][y] = "relaying"
      BY <1>0, <1>4, <2>2 DEF ProcessIInv, Process!SessionStep, Process!Open, Process!Routed,
         Process!RouterRejects, Process!RelayEnds, Process!To
    <2> QED  BY <2>1, <2>2
  <1> QED  BY <1>1, <1>2, <1>3, <1>4 DEF Process!Next, Process!MainStep, Process!Finished

-----------------------------------------------------------------------------
(* Beginnings of sequences *)

First(s, n) == SubSeq(s, 1, n)

LEMMA FirstIs ==
  ASSUME NEW X, NEW s \in Seq(X), NEW n \in 0 .. Len(s)
  PROVE  /\ First(s, n) \in Seq(X) /\ Len(First(s, n)) = n
         /\ \A i \in 1 .. n : First(s, n)[i] = s[i]
  BY DEF First

(* One more. *)
LEMMA FirstOn ==
  ASSUME NEW X, NEW s \in Seq(X), NEW n \in Nat, n < Len(s)
  PROVE  First(s, n) \o <<s[n + 1]>> = First(s, n + 1)
  <1> DEFINE a == First(s, n)
             b == <<s[n + 1]>>
             u == First(s, n + 1)
  <1>1. Len(s) \in Nat /\ n \in 0 .. Len(s) /\ n + 1 \in 0 .. Len(s) /\ n + 1 \in 1 .. Len(s)
    OBVIOUS
  <1>2. a \in Seq(X) /\ Len(a) = n /\ \A i \in 1 .. n : a[i] = s[i]
    BY <1>1, FirstIs
  <1>3. u \in Seq(X) /\ Len(u) = n + 1 /\ \A i \in 1 .. n + 1 : u[i] = s[i]
    BY <1>1, FirstIs
  <1>4. b \in Seq(X) /\ Len(b) = 1 /\ b[1] = s[n + 1]
    BY <1>1
  <1> HIDE DEF a, b, u
  <1>5. /\ a \o b \in Seq(X) /\ Len(a \o b) = n + 1
        /\ \A i \in 1 .. n + 1 : (a \o b)[i] = IF i <= n THEN a[i] ELSE b[i - n]
    <2>1. /\ a \o b \in Seq(X) /\ Len(a \o b) = Len(a) + Len(b)
          /\ \A i \in 1 .. Len(a) + Len(b) : (a \o b)[i] = IF i <= Len(a) THEN a[i] ELSE b[i - Len(a)]
      BY <1>2, <1>4, ConcatProperties, Zenon
    <2> QED  BY <1>2, <1>4, <2>1
  <1>6. \A i \in 1 .. n + 1 : (a \o b)[i] = u[i]
    <2> TAKE i \in 1 .. n + 1
    <2>1. CASE i <= n
      BY <1>2, <1>3, <1>5, <2>1, SMTT(20)
    <2>2. CASE i = n + 1
      <3>1. i - n = 1 /\ ~ (i <= n)
        BY <2>2
      <3> QED  BY <1>3, <1>4, <1>5, <2>2, <3>1
    <2>3. i <= n \/ i = n + 1
      OBVIOUS
    <2> QED  BY <2>1, <2>2, <2>3, Zenon
  <1>7. a \o b = u
    BY <1>3, <1>5, <1>6, SeqEqual
  <1> QED  BY <1>7 DEF a, b, u

(* The first of two parts of a beginning is one. *)
LEMMA FirstOfTwo ==
  ASSUME NEW X, NEW s \in Seq(X), NEW n \in 0 .. Len(s), NEW a \in Seq(X), NEW b \in Seq(X),
         a \o b = First(s, n)
  PROVE  a = First(s, Len(a)) /\ Len(a) <= n /\ Len(a) \in 0 .. Len(s)
  <1>1. /\ Len(a) \in Nat /\ Len(b) \in Nat /\ Len(s) \in Nat /\ Len(a \o b) = Len(a) + Len(b)
        /\ \A i \in 1 .. Len(a) + Len(b) : (a \o b)[i] = IF i <= Len(a) THEN a[i] ELSE b[i - Len(a)]
    BY ConcatProperties
  <1>2. Len(First(s, n)) = n /\ \A i \in 1 .. n : First(s, n)[i] = s[i]
    BY FirstIs
  <1>3. Len(a) + Len(b) = n
    BY <1>1, <1>2
  <1>4. Len(a) <= n /\ Len(a) \in 0 .. Len(s)
    BY <1>1, <1>3
  <1>5. /\ First(s, Len(a)) \in Seq(X) /\ Len(First(s, Len(a))) = Len(a)
        /\ \A i \in 1 .. Len(a) : First(s, Len(a))[i] = s[i]
    BY <1>4, FirstIs
  <1>6. \A i \in 1 .. Len(a) : a[i] = First(s, Len(a))[i]
    <2> TAKE i \in 1 .. Len(a)
    <2>1. i \in 1 .. n /\ i \in 1 .. Len(a) + Len(b) /\ i <= Len(a)
      BY <1>1, <1>3
    <2>2. (a \o b)[i] = a[i]
      BY <1>1, <2>1
    <2>3. (a \o b)[i] = s[i]
      BY <1>2, <2>1
    <2> QED  BY <1>5, <2>2, <2>3
  <1>7. a = First(s, Len(a))
    BY <1>5, <1>6, SeqEqual
  <1> QED  BY <1>4, <1>7

(* Taking the first k of the second part over to the first. *)
LEMMA MoveOver ==
  ASSUME NEW X, NEW a \in Seq(X), NEW b \in Seq(X), NEW k \in 0 .. Len(b)
  PROVE  /\ SubSeq(b, 1, k) \in Seq(X) /\ SubSeq(b, k + 1, Len(b)) \in Seq(X)
         /\ a \o SubSeq(b, 1, k) \in Seq(X)
         /\ (a \o SubSeq(b, 1, k)) \o SubSeq(b, k + 1, Len(b)) = a \o b
         /\ k = Len(b) => SubSeq(b, k + 1, Len(b)) = <<>>
  <1> DEFINE u == SubSeq(b, 1, k)
             v == SubSeq(b, k + 1, Len(b))
  <1>1. /\ u \in Seq(X) /\ Len(u) = k /\ \A i \in 1 .. k : u[i] = b[i]
    OBVIOUS
  <1>2. /\ v \in Seq(X) /\ Len(v) = Len(b) - k /\ \A i \in 1 .. (Len(b) - k) : v[i] = b[k + i]
    OBVIOUS
  <1>3. k = Len(b) => v = <<>>
    OBVIOUS
  <1> HIDE DEF u, v
  <1>4. u \o v = b
    <2>1. k \in Nat /\ Len(b) \in Nat /\ k + (Len(b) - k) = Len(b)
      OBVIOUS
    <2>2. /\ u \o v \in Seq(X) /\ Len(u \o v) = Len(u) + Len(v)
          /\ \A i \in 1 .. Len(u) + Len(v) : (u \o v)[i] = IF i <= Len(u) THEN u[i] ELSE v[i - Len(u)]
      BY <1>1, <1>2, ConcatProperties, Zenon
    <2>3. Len(u \o v) = Len(b)
      BY <1>1, <1>2, <2>1, <2>2
    <2>4. \A i \in 1 .. Len(b) : (u \o v)[i] = b[i]
      <3> TAKE i \in 1 .. Len(b)
      <3>1. CASE i <= k
        BY <1>1, <1>2, <2>1, <2>2, <3>1
      <3>2. CASE i > k
        <4>1. i - k \in 1 .. (Len(b) - k) /\ k + (i - k) = i /\ i \in 1 .. Len(u) + Len(v) /\ ~ (i <= Len(u))
          BY <1>1, <1>2, <3>2
        <4>2. (u \o v)[i] = v[i - k]
          BY <1>1, <2>2, <4>1
        <4>3. v[i - k] = b[k + (i - k)]
          BY <1>2, <4>1
        <4> QED  BY <4>1, <4>2, <4>3
      <3>3. i <= k \/ i > k
        OBVIOUS
      <3> QED  BY <3>1, <3>2, <3>3, Zenon
    <2> QED  BY <2>2, <2>3, <2>4, SeqEqual
  <1>5. (a \o u) \o v = a \o (u \o v)
    BY <1>1, <1>2, ConcatAssociative, SMTT(30)
  <1>6. a \o u \in Seq(X)
    BY <1>1, ConcatProperties
  <1> QED  BY <1>1, <1>2, <1>3, <1>4, <1>5, <1>6 DEF u, v

(* A longer sequence has the same beginnings. *)
LEMMA FirstOfLonger ==
  ASSUME NEW X, NEW s \in Seq(X), NEW e \in X, NEW n \in 0 .. Len(s)
  PROVE  /\ Append(s, e) \in Seq(X) /\ Len(Append(s, e)) = Len(s) + 1
         /\ First(Append(s, e), n) = First(s, n)
  <1>1. Append(s, e) \in Seq(X) /\ Len(Append(s, e)) = Len(s) + 1 /\ \A i \in 1 .. Len(s) : Append(s, e)[i] = s[i]
    OBVIOUS
  <1>2. n \in 0 .. Len(s) + 1 /\ n \in 0 .. Len(Append(s, e))
    BY <1>1
  <1>3. /\ First(Append(s, e), n) \in Seq(X) /\ Len(First(Append(s, e), n)) = n
        /\ \A i \in 1 .. n : First(Append(s, e), n)[i] = Append(s, e)[i]
    BY <1>1, <1>2, FirstIs
  <1>4. First(s, n) \in Seq(X) /\ Len(First(s, n)) = n /\ \A i \in 1 .. n : First(s, n)[i] = s[i]
    BY FirstIs
  <1>5. \A i \in 1 .. n : First(Append(s, e), n)[i] = First(s, n)[i]
    BY <1>1, <1>3, <1>4
  <1> QED  BY <1>1, <1>3, <1>4, <1>5, SeqEqual

(* One step of FlattenSeq: g has the shorter ones. *)
Flattened(s, g, i) == IF i = 1 THEN s[i] ELSE g[i - 1] \o s[i]

LEMMA FlattenExists ==
  ASSUME NEW s, NEW n \in Nat
  PROVE  \E g : g = [i \in 1 .. n |-> Flattened(s, g, i)]
  <1> DEFINE G == {k \in Nat : \E g : g = [i \in 1 .. k |-> Flattened(s, g, i)]}
  <1>1. 0 \in G
    <2> DEFINE g == [i \in 1 .. 0 |-> 0]
    <2>1. g = [i \in 1 .. 0 |-> Flattened(s, g, i)]
      OBVIOUS
    <2> HIDE DEF g
    <2> QED  BY <2>1
  <1>2. ASSUME NEW k \in 0 .. (n - 1), k \in G PROVE k + 1 \in G
    <2>1. PICK g : g = [i \in 1 .. k |-> Flattened(s, g, i)]
      BY <1>2
    <2> DEFINE h == [i \in 1 .. (k + 1) |-> Flattened(s, g, i)]
    <2>2. \A i \in 1 .. k : h[i] = g[i]
      BY <2>1
    <2>3. \A i \in 1 .. (k + 1) : Flattened(s, h, i) = Flattened(s, g, i)
      <3> TAKE i \in 1 .. (k + 1)
      <3>1. CASE i = 1
        BY <3>1 DEF Flattened
      <3>2. CASE i # 1
        <4>1. i - 1 \in 1 .. k
          BY <3>2
        <4>2. h[i - 1] = g[i - 1]
          BY <2>2, <4>1
        <4> HIDE DEF h
        <4> QED  BY <3>2, <4>2 DEF Flattened
      <3> QED  BY <3>1, <3>2
    <2>4. h = [i \in 1 .. (k + 1) |-> Flattened(s, h, i)]
      <3>1. h = [i \in 1 .. (k + 1) |-> Flattened(s, g, i)]
        OBVIOUS
      <3> HIDE DEF h
      <3> QED  BY <2>3, <3>1
    <2> HIDE DEF h
    <2> QED  BY <2>4
  <1>3. n \in G
    <2>1. n \in 0 .. n
      OBVIOUS
    <2> HIDE DEF G
    <2> QED  BY <1>1, <1>2, <2>1, UpTo
  <1> QED  BY <1>3

LEMMA FlattenType ==
  ASSUME NEW X, NEW s, NEW n \in Nat \ {0}, Len(s) = n, \A i \in 1 .. n : s[i] \in Seq(X)
  PROVE  FlattenSeq(s) \in Seq(X)
  <1> DEFINE g == CHOOSE g : g = [i \in 1 .. n |-> Flattened(s, g, i)]
  <1>1. g = [i \in 1 .. n |-> Flattened(s, g, i)]
    BY FlattenExists
  <1>2. FlattenSeq(s) = g[n]
    BY DEF FlattenSeq, Flattened
  <1> HIDE DEF g
  <1> DEFINE G == {i \in 0 .. n : i = 0 \/ g[i] \in Seq(X)}
  <1>3. 0 \in G
    OBVIOUS
  <1>4. ASSUME NEW k \in 0 .. (n - 1), k \in G PROVE k + 1 \in G
    <2>1. k + 1 \in 1 .. n /\ k + 1 \in 0 .. n
      OBVIOUS
    <2>2. g[k + 1] = Flattened(s, g, k + 1)
      BY <1>1, <2>1
    <2>3. CASE k = 0
      BY <2>1, <2>2, <2>3 DEF Flattened
    <2>4. CASE k # 0
      <3>1. k + 1 # 1 /\ (k + 1) - 1 = k /\ g[k] \in Seq(X) /\ s[k + 1] \in Seq(X)
        BY <1>4, <2>1, <2>4
      <3>2. g[k + 1] = g[k] \o s[k + 1]
        BY <2>2, <3>1 DEF Flattened
      <3>3. g[k] \o s[k + 1] \in Seq(X)
        BY <3>1, ConcatProperties
      <3> QED  BY <2>1, <3>2, <3>3
    <2> QED  BY <2>3, <2>4
  <1>5. n \in G
    <2>1. n \in 0 .. n /\ n \in Nat
      OBVIOUS
    <2> HIDE DEF G
    <2> QED  BY <1>3, <1>4, <2>1, UpTo
  <1> QED  BY <1>2, <1>5

-----------------------------------------------------------------------------
(* The HTTP proxy *)

Pieces == HTTP!Requests \X {"head", "body"}
Answers == Nat \X {"interim", "final"}

LEMMA StreamType ==
  ASSUME kind \in [HTTP!Requests -> {"plain", "body", "last", "connect"}]
  PROVE  HTTP!Stream \in Seq(Pieces)
  <1> DEFINE s == [r \in HTTP!Requests |->
                     IF kind[r] = "body" THEN <<<<r, "head">>, <<r, "body">>>> ELSE <<<<r, "head">>>>]
  <1>1. NumRequests \in Nat \ {0}
    BY PathAssumption DEF HTTP!HTTPConstants
  <1>2. \A i \in 1 .. NumRequests : s[i] \in Seq(Pieces)
    <2> TAKE i \in 1 .. NumRequests
    <2>1. <<i, "head">> \in Pieces /\ <<i, "body">> \in Pieces
      BY DEF Pieces, HTTP!Requests
    <2>2. <<<<i, "head">>, <<i, "body">>>> \in Seq(Pieces) /\ <<<<i, "head">>>> \in Seq(Pieces)
      BY <2>1
    <2> QED  BY <2>2 DEF HTTP!Requests
  <1>3. Len(s) = NumRequests
    BY <1>1 DEF HTTP!Requests
  <1>4. HTTP!Stream = FlattenSeq(s)
    BY DEF HTTP!Stream, HTTP!FlattenSeq, FlattenSeq
  <1> HIDE DEF s
  <1> QED  BY <1>1, <1>2, <1>3, <1>4, FlattenType

HTTPTypes ==
  /\ kind \in [HTTP!Requests -> {"plain", "body", "last", "connect"}]
  /\ hSent \in 0 .. Len(HTTP!Stream) /\ taken \in 0 .. hSent
  /\ fw \in {"none", "gather", "spill", "flush", "respond", "reply", "next", "closing", "closed"}
  /\ hHandler \in {"accept", "route", "wait", "dial", "relay", "done", "tunnel"}
  /\ held \in Seq(Pieces) /\ initial \in Seq(Pieces) /\ hToRemote \in Seq(Pieces)
  /\ resp \in Seq(Answers) /\ inHand \in Seq(Answers) /\ toClient \in Seq(Answers)
  /\ answers \in Seq(Answers) /\ relayed \in 0 .. Len(answers)

(* Upwards: what was taken from the client is in the pipe or went on, to   *)
(* the initial payload and then to the remote end.                         *)
Upwards ==
  /\ hHandler = "accept" => taken = 0
  /\ fw \in {"none", "respond", "reply", "next"} => held = <<>>
  /\ hHandler \in {"accept", "tunnel"} => fw = "none"
  /\ fw = "none" => hHandler \in {"accept", "tunnel", "done"}
  /\ hHandler \in {"accept", "route", "wait"} => initial = <<>>
  /\ hHandler \in {"accept", "route", "wait", "dial"} =>
       hToRemote = <<>> /\ initial \o held = First(HTTP!Stream, taken)
  /\ hUp = "run" => hHandler = "relay" /\ hToRemote \o held = First(HTTP!Stream, taken)
  /\ Len(hToRemote) <= taken /\ hToRemote = First(HTTP!Stream, Len(hToRemote))

(* Downwards: what was read from the remote end is with the client or on   *)
(* its way, as long as the forwarder runs.                                 *)
Downwards ==
  /\ fw \notin {"reply", "closing", "closed"} => resp = <<>>
  /\ fw \notin {"closing", "closed"} => (toClient \o resp) \o inHand = First(answers, relayed)
  /\ Len(toClient) <= relayed /\ toClient = First(answers, Len(toClient))

HTTPIInv == HTTPTypes /\ Upwards /\ Downwards

LEMMA NothingFirst ==
  ASSUME NEW s
  PROVE  First(s, 0) = <<>>
  BY DEF First

LEMMA HTTPStarts == HTTP!Init => HTTPIInv
  <1> SUFFICES ASSUME HTTP!Init PROVE HTTPIInv
    OBVIOUS
  <1> USE DEF HTTP!Init
  <1>1. HTTP!Stream \in Seq(Pieces)
    BY StreamType
  <1>2. HTTPTypes
    BY <1>1 DEF HTTPTypes
  <1>3. <<>> \o <<>> = <<>> /\ Len(<<>>) = 0 /\ (<<>> \o <<>>) \o <<>> = <<>>
    OBVIOUS
  <1>4. Upwards
    BY <1>3, NothingFirst DEF Upwards
  <1>5. Downwards
    BY <1>3, NothingFirst DEF Downwards
  <1> QED  BY <1>2, <1>4, <1>5 DEF HTTPIInv

LEMMA StreamSame ==
  ASSUME HTTPIInv, kind' = kind
  PROVE  /\ HTTP!Stream' = HTTP!Stream /\ HTTP!Stream \in Seq(Pieces)
         /\ Len(HTTP!Stream) \in Nat /\ hSent \in Nat /\ taken \in Nat
         /\ taken <= hSent /\ hSent <= Len(HTTP!Stream)
  <1>1. HTTP!Stream' = HTTP!Stream
    BY DEF HTTP!Stream
  <1>2. HTTP!Stream \in Seq(Pieces)
    BY StreamType DEF HTTPIInv, HTTPTypes
  <1>3. Len(HTTP!Stream) \in Nat
    BY <1>2
  <1> QED  BY <1>1, <1>2, <1>3 DEF HTTPIInv, HTTPTypes

(* A step that moves nothing upwards, and one that moves nothing downwards.*)
LEMMA UpwardsRest ==
  ASSUME HTTPIInv, UNCHANGED <<kind, taken, held, initial, hToRemote, hHandler, hUp>>,
         fw' = "none" <=> fw = "none",
         fw' \in {"respond", "reply", "next"} => held = <<>>
  PROVE  Upwards'
  BY StreamSame DEF HTTPIInv, Upwards, First

LEMMA DownwardsRest ==
  ASSUME HTTPIInv, UNCHANGED <<resp, inHand, toClient, answers, relayed>>,
         fw' = fw \/ fw' \in {"closing", "closed"} \/ fw \notin {"reply", "closing", "closed"}
  PROVE  Downwards'
  BY DEF HTTPIInv, Downwards, First

(* The ends of the connection. *)
LEMMA HTTPEnds ==
  ASSUME HTTPIInv, HTTP!ClientSends \/ HTTP!ClientEnds \/ HTTP!RemoteEnds \/ HTTP!DeadlinePasses
  PROVE  HTTPIInv'
  <1> USE DEF HTTP!clientVars, HTTP!forwardVars, HTTP!relayVars, HTTP!remoteVars,
              HTTP!ClientSends, HTTP!ClientEnds, HTTP!RemoteEnds, HTTP!DeadlinePasses
  <1>1. HTTPTypes'
    <2>1. HTTP!Stream' = HTTP!Stream /\ hSent' \in 0 .. Len(HTTP!Stream) /\ taken' \in 0 .. hSent'
      BY StreamSame, SMTT(30) DEF HTTPIInv, HTTPTypes
    <2> QED  BY <2>1 DEF HTTPIInv, HTTPTypes
  <1>2. Upwards'
    BY UpwardsRest DEF HTTPIInv, Upwards
  <1>3. Downwards'
    BY DownwardsRest
  <1> QED  BY <1>1, <1>2, <1>3 DEF HTTPIInv

LEMMA HTTPRemoteAnswers ==
  ASSUME HTTPIInv, HTTP!RemoteAnswers
  PROVE  HTTPIInv'
  <1> USE DEF HTTP!clientVars, HTTP!forwardVars, HTTP!relayVars, HTTP!remoteVars
  <1>1. PICK form \in {"interim", "final"} : answers' = Append(answers, <<HTTP!Finals + 1, form>>)
    BY DEF HTTP!RemoteAnswers
  <1>2. HTTP!Finals \in Nat
    <2>1. answers \in Seq(Answers) /\ Len(answers) \in Int /\ DOMAIN answers = 1 .. Len(answers)
      BY DEF HTTPIInv, HTTPTypes
    <2>2. IsFiniteSet(1 .. Len(answers))
      BY <2>1, FS_Interval
    <2>3. IsFiniteSet({i \in DOMAIN answers : answers[i][2] = "final"})
      BY <2>1, <2>2, FS_Subset
    <2>4. HTTP!Finals = Cardinality({i \in DOMAIN answers : answers[i][2] = "final"})
      BY DEF HTTP!Finals, HTTP!Cardinality, Cardinality, HTTP!IsFiniteSet, IsFiniteSet
    <2> QED  BY <2>3, <2>4, FS_CardinalityType
  <1>3. <<HTTP!Finals + 1, form>> \in Answers
    BY <1>2 DEF Answers
  <1>4. /\ answers' \in Seq(Answers) /\ Len(answers') = Len(answers) + 1
        /\ \A n \in 0 .. Len(answers) : First(answers', n) = First(answers, n)
    <2> DEFINE e == <<HTTP!Finals + 1, form>>
    <2>1. answers \in Seq(Answers) /\ Len(answers) \in Nat /\ 0 \in 0 .. Len(answers) /\ e \in Answers
      BY <1>3 DEF HTTPIInv, HTTPTypes
    <2>2. answers' = Append(answers, e)
      BY <1>1
    <2> HIDE DEF e
    <2>3. Append(answers, e) \in Seq(Answers) /\ Len(Append(answers, e)) = Len(answers) + 1
      BY <2>1, FirstOfLonger
    <2>4. ASSUME NEW n \in 0 .. Len(answers) PROVE First(Append(answers, e), n) = First(answers, n)
      BY <2>1, FirstOfLonger
    <2> QED  BY <2>2, <2>3, <2>4
  <1>5. relayed \in 0 .. Len(answers') /\ relayed \in 0 .. Len(answers) /\ Len(toClient) \in 0 .. Len(answers)
    BY <1>4 DEF HTTPIInv, HTTPTypes, Downwards
  <1>6. HTTPTypes'
    BY <1>4, <1>5, StreamSame DEF HTTPIInv, HTTPTypes, HTTP!RemoteAnswers
  <1>7. Upwards'
    BY UpwardsRest DEF HTTPIInv, Upwards, HTTP!RemoteAnswers
  <1>8. Downwards'
    BY <1>4, <1>5 DEF HTTPIInv, Downwards, HTTP!RemoteAnswers
  <1> QED  BY <1>6, <1>7, <1>8 DEF HTTPIInv

(* One more piece of the client's stream comes behind what is held. *)
LEMMA OneMoreHeld ==
  ASSUME HTTPIInv, kind' = kind, hSent > taken
  PROVE  /\ taken + 1 \in 0 .. hSent
         /\ HTTP!Stream[taken + 1] \in Pieces
         /\ Append(held, HTTP!Stream[taken + 1]) \in Seq(Pieces)
         /\ <<HTTP!Stream[taken + 1]>> \in Seq(Pieces)
         /\ \A a \in Seq(Pieces) : a \o held = First(HTTP!Stream, taken) =>
              a \o Append(held, HTTP!Stream[taken + 1]) = First(HTTP!Stream, taken + 1)
         /\ held = <<>> => Append(held, HTTP!Stream[taken + 1]) = <<HTTP!Stream[taken + 1]>>
  <1> DEFINE e == HTTP!Stream[taken + 1]
  <1>1. /\ HTTP!Stream \in Seq(Pieces) /\ Len(HTTP!Stream) \in Nat /\ hSent \in Nat /\ taken \in Nat
        /\ hSent <= Len(HTTP!Stream) /\ held \in Seq(Pieces)
    BY StreamSame DEF HTTPIInv, HTTPTypes
  <1>2. taken + 1 \in 0 .. hSent /\ taken + 1 \in 1 .. Len(HTTP!Stream) /\ taken < Len(HTTP!Stream)
    BY <1>1
  <1>3. e \in Pieces
    BY <1>1, <1>2
  <1>4. First(HTTP!Stream, taken) \o <<e>> = First(HTTP!Stream, taken + 1)
    BY <1>1, <1>2, FirstOn
  <1> HIDE DEF e
  <1>5. Append(held, e) = held \o <<e>> /\ <<e>> \in Seq(Pieces) /\ Append(held, e) \in Seq(Pieces)
    BY <1>1, <1>3
  <1>6. ASSUME NEW a \in Seq(Pieces), a \o held = First(HTTP!Stream, taken)
        PROVE  a \o Append(held, e) = First(HTTP!Stream, taken + 1)
    <2>1. (a \o held) \o <<e>> = a \o (held \o <<e>>)
      BY <1>1, <1>5, ConcatAssociative, SMTT(30)
    <2> QED  BY <1>4, <1>5, <1>6, <2>1
  <1>7. held = <<>> => Append(held, e) = <<e>>
    BY <1>3
  <1> QED  BY <1>2, <1>3, <1>5, <1>6, <1>7 DEF e

(* The first request, and the end of a connection that has none. *)
LEMMA HTTPAccept ==
  ASSUME HTTPIInv, HTTP!Accept
  PROVE  HTTPIInv'
  <1> USE DEF HTTP!clientVars, HTTP!forwardVars, HTTP!relayVars, HTTP!remoteVars
  <1>1. /\ hHandler = "accept" /\ hSent > 0 /\ hHandler' = "route" /\ taken' = taken + 1
        /\ held' = <<HTTP!Stream[taken + 1]>> /\ fw' \in {"gather", "flush"}
        /\ UNCHANGED <<kind, hSent, resp, toClient, initial, hUp, hDown, inHand, hToRemote, relayed, answers>>
    BY DEF HTTP!Accept, HTTP!Begin
  <1>2. taken = 0 /\ fw = "none" /\ held = <<>> /\ initial = <<>> /\ hToRemote = <<>> /\ hUp # "run" /\ resp = <<>>
        /\ initial \o held = First(HTTP!Stream, taken)
    BY <1>1 DEF HTTPIInv, Upwards, Downwards
  <1>3. hSent > taken
    BY <1>1, <1>2
  <1>4. /\ taken + 1 \in 0 .. hSent /\ held' \in Seq(Pieces) /\ held' = Append(held, HTTP!Stream[taken + 1])
        /\ initial \o held' = First(HTTP!Stream, taken + 1)
    BY <1>1, <1>2, <1>3, OneMoreHeld DEF HTTPIInv, HTTPTypes
  <1>5. HTTP!Stream' = HTTP!Stream
    BY <1>1, StreamSame
  <1>6. HTTPTypes'
    BY <1>1, <1>4, <1>5 DEF HTTPIInv, HTTPTypes
  <1>7. Len(hToRemote) = 0 /\ First(HTTP!Stream, 0) = <<>> /\ 0 <= taken'
    BY <1>1, <1>2, NothingFirst
  <1>8. Upwards'
    BY <1>1, <1>2, <1>4, <1>5, <1>7 DEF Upwards
  <1>9. Downwards'
    BY <1>1, <1>2, DownwardsRest
  <1> QED  BY <1>6, <1>8, <1>9 DEF HTTPIInv

LEMMA HTTPConnect ==
  ASSUME HTTPIInv, HTTP!Connect \/ HTTP!AcceptFails
  PROVE  HTTPIInv'
  <1> USE DEF HTTP!clientVars, HTTP!forwardVars, HTTP!relayVars, HTTP!remoteVars
  <1>1. /\ hHandler = "accept" /\ hHandler' \in {"tunnel", "done"} /\ taken' \in 0 .. hSent
        /\ UNCHANGED <<kind, hSent, held, resp, toClient, initial, hUp, hDown, inHand, hToRemote, relayed, answers, fw>>
    BY DEF HTTP!Connect, HTTP!AcceptFails, HTTPIInv, HTTPTypes
  <1>2. fw = "none" /\ held = <<>> /\ hToRemote = <<>> /\ hUp # "run"
    BY <1>1 DEF HTTPIInv, Upwards
  <1>3. HTTP!Stream' = HTTP!Stream
    BY <1>1, StreamSame
  <1>4. HTTPTypes'
    BY <1>1, <1>3 DEF HTTPIInv, HTTPTypes
  <1>5. Len(hToRemote) = 0 /\ First(HTTP!Stream, 0) = <<>> /\ 0 <= taken'
    BY <1>1, <1>2, NothingFirst
  <1>6. Upwards'
    BY <1>1, <1>2, <1>3, <1>5 DEF Upwards
  <1>7. Downwards'
    BY <1>1, DownwardsRest
  <1> QED  BY <1>4, <1>6, <1>7 DEF HTTPIInv

(* A body, or the next request, comes off the client's connection. *)
LEMMA OneMoreTaken ==
  ASSUME HTTPIInv, hSent > taken, fw \in {"gather", "next"}, fw' \in {"gather", "flush"},
         held' = Append(held, HTTP!Stream[taken + 1]), taken' = taken + 1,
         UNCHANGED <<kind, hSent, resp, toClient, initial, hUp, inHand, hToRemote, relayed, answers, hHandler>>
  PROVE  HTTPIInv'
  <1>1. /\ taken + 1 \in 0 .. hSent /\ held' \in Seq(Pieces)
        /\ \A a \in Seq(Pieces) : a \o held = First(HTTP!Stream, taken) =>
             a \o held' = First(HTTP!Stream, taken + 1)
    BY OneMoreHeld
  <1>2. HTTP!Stream' = HTTP!Stream /\ taken \in Nat
    BY StreamSame
  <1>3. HTTPTypes'
    BY <1>1, <1>2 DEF HTTPIInv, HTTPTypes
  <1>4. hToRemote \in Seq(Pieces) /\ initial \in Seq(Pieces) /\ Len(hToRemote) \in Nat
    BY DEF HTTPIInv, HTTPTypes
  <1>5. hHandler \notin {"accept", "tunnel"} /\ Len(hToRemote) <= taken'
    BY <1>2, <1>4 DEF HTTPIInv, Upwards
  <1>6. /\ initial \o held = First(HTTP!Stream, taken) => initial \o held' = First(HTTP!Stream, taken')
        /\ hToRemote \o held = First(HTTP!Stream, taken) => hToRemote \o held' = First(HTTP!Stream, taken')
    BY <1>1, <1>4
  <1>7. Upwards'
    BY <1>2, <1>5, <1>6 DEF HTTPIInv, Upwards
  <1>8. Downwards'
    BY DownwardsRest
  <1> QED  BY <1>3, <1>7, <1>8 DEF HTTPIInv

LEMMA HTTPGather ==
  ASSUME HTTPIInv, HTTP!Gather
  PROVE  HTTPIInv'
  BY OneMoreTaken DEF HTTP!Gather, HTTP!clientVars, HTTP!relayVars, HTTP!remoteVars

(* The forwarder goes on without moving anything, or gives up. *)
LEMMA HTTPGoesOn ==
  ASSUME HTTPIInv,
         UNCHANGED <<kind, hSent, taken, held, resp, toClient, hHandler, initial, hUp, inHand, hToRemote, relayed, answers>>,
         \/ fw = "gather" /\ fw' = "spill"
         \/ fw # "none" /\ fw' \in {"closing", "closed"}
  PROVE  HTTPIInv'
  <1>1. HTTP!Stream' = HTTP!Stream
    BY StreamSame
  <1>2. HTTPTypes'
    BY <1>1 DEF HTTPIInv, HTTPTypes
  <1>3. Upwards'
    BY UpwardsRest
  <1>4. Downwards'
    BY DownwardsRest
  <1> QED  BY <1>2, <1>3, <1>4 DEF HTTPIInv

LEMMA HTTPForwarderQuiet ==
  ASSUME HTTPIInv, HTTP!Spill \/ HTTP!GatherFails \/ HTTP!ReplyFails \/ HTTP!ClosePipe
  PROVE  HTTPIInv'
  BY HTTPGoesOn DEF HTTP!Spill, HTTP!GatherFails, HTTP!ReplyFails, HTTP!ClosePipe,
                    HTTP!clientVars, HTTP!relayVars, HTTP!remoteVars

LEMMA HTTPNextRequest ==
  ASSUME HTTPIInv, HTTP!NextRequest
  PROVE  HTTPIInv'
  <1> USE DEF HTTP!clientVars, HTTP!forwardVars, HTTP!relayVars, HTTP!remoteVars
  <1>1. CASE hSent > taken /\ HTTP!Begin(req + 1)
    <2>1. fw = "next" /\ held = <<>>
      BY DEF HTTP!NextRequest, HTTPIInv, Upwards
    <2>2. held' = Append(held, HTTP!Stream[taken + 1])
      BY <1>1, <2>1, OneMoreHeld DEF HTTP!NextRequest, HTTP!Begin
    <2> QED  BY <1>1, <2>1, <2>2, OneMoreTaken DEF HTTP!NextRequest, HTTP!Begin
  <1>2. CASE fw' = "closing" /\ UNCHANGED <<taken, req, held>>
    BY <1>2, HTTPGoesOn DEF HTTP!NextRequest
  <1> QED  BY <1>1, <1>2 DEF HTTP!NextRequest

(* A reader takes k pieces from the pipe. *)
LEMMA HTTPTaken ==
  ASSUME HTTPIInv, NEW k \in 1 .. Len(held), HTTP!Taken(k), kind' = kind
  PROVE  /\ fw \in {"spill", "flush"} /\ fw' \in {"spill", "flush", "gather", "respond"}
         /\ fw' = "respond" => held' = <<>>
         /\ UNCHANGED <<taken, req, resp, toClient>>
         /\ held' \in Seq(Pieces) /\ SubSeq(held, 1, k) \in Seq(Pieces)
         /\ \A a \in Seq(Pieces) :
              a \o SubSeq(held, 1, k) \in Seq(Pieces) /\ (a \o SubSeq(held, 1, k)) \o held' = a \o held
         /\ <<>> \o SubSeq(held, 1, k) = SubSeq(held, 1, k)
  <1>1. held \in Seq(Pieces) /\ Len(held) \in Nat /\ k \in 0 .. Len(held) /\ <<>> \in Seq(Pieces)
    BY DEF HTTPIInv, HTTPTypes
  <1>2. ASSUME NEW a \in Seq(Pieces)
        PROVE  /\ SubSeq(held, 1, k) \in Seq(Pieces) /\ SubSeq(held, k + 1, Len(held)) \in Seq(Pieces)
               /\ a \o SubSeq(held, 1, k) \in Seq(Pieces)
               /\ (a \o SubSeq(held, 1, k)) \o SubSeq(held, k + 1, Len(held)) = a \o held
               /\ k = Len(held) => SubSeq(held, k + 1, Len(held)) = <<>>
    BY <1>1, MoveOver
  <1>3. /\ held' = SubSeq(held, k + 1, Len(held)) /\ UNCHANGED <<taken, req, resp, toClient>>
        /\ fw \in {"spill", "flush"}
        /\ fw' = IF k < Len(held) THEN fw ELSE IF fw = "spill" THEN "gather" ELSE "respond"
    BY DEF HTTP!Taken, HTTP!Writing
  <1>4. fw' = "respond" => k = Len(held)
    BY <1>1, <1>3
  <1>5. /\ SubSeq(held, 1, k) \in Seq(Pieces) /\ SubSeq(held, k + 1, Len(held)) \in Seq(Pieces)
        /\ k = Len(held) => SubSeq(held, k + 1, Len(held)) = <<>>
    BY <1>1, <1>2
  <1>6. <<>> \o SubSeq(held, 1, k) = SubSeq(held, 1, k)
    BY <1>5, ConcatEmptySeq
  <1>7. fw' \in {"spill", "flush", "gather", "respond"}
    BY <1>3
  <1> QED  BY <1>2, <1>3, <1>4, <1>5, <1>6, <1>7

LEMMA HTTPWaitRead ==
  ASSUME HTTPIInv, HTTP!WaitRead
  PROVE  HTTPIInv'
  <1> USE DEF HTTP!clientVars, HTTP!forwardVars, HTTP!relayVars, HTTP!remoteVars
  <1>1. PICK k \in 1 .. Len(held) : HTTP!Taken(k) /\ initial' = SubSeq(held, 1, k)
    BY DEF HTTP!WaitRead
  <1>2. /\ hHandler = "wait" /\ hHandler' \in {"dial", "done"}
        /\ UNCHANGED <<kind, hSent, hUp, hDown, inHand, hToRemote, relayed, answers>>
    BY DEF HTTP!WaitRead
  <1>3. /\ fw \in {"spill", "flush"} /\ fw' \in {"spill", "flush", "gather", "respond"}
        /\ fw' = "respond" => held' = <<>>
        /\ UNCHANGED <<taken, resp, toClient>>
        /\ held' \in Seq(Pieces) /\ initial' \in Seq(Pieces)
    BY <1>1, <1>2, HTTPTaken
  <1>4. initial = <<>> /\ hToRemote = <<>> /\ initial \o held = First(HTTP!Stream, taken) /\ hUp # "run"
    BY <1>2 DEF HTTPIInv, Upwards
  <1>5. <<>> \in Seq(Pieces)
    OBVIOUS
  <1>6. initial' \o held' = First(HTTP!Stream, taken)
    <2>1. (<<>> \o SubSeq(held, 1, k)) \o held' = <<>> \o held /\ <<>> \o SubSeq(held, 1, k) = SubSeq(held, 1, k)
      BY <1>1, <1>2, <1>5, HTTPTaken
    <2> QED  BY <1>1, <1>4, <2>1, Zenon
  <1>7. HTTP!Stream' = HTTP!Stream
    BY <1>2, StreamSame
  <1>8. HTTPTypes'
    BY <1>2, <1>3, <1>7 DEF HTTPIInv, HTTPTypes
  <1>9. Upwards'
    BY <1>2, <1>3, <1>4, <1>6, <1>7 DEF HTTPIInv, Upwards
  <1>10. Downwards'
    BY <1>2, <1>3, DownwardsRest
  <1> QED  BY <1>8, <1>9, <1>10 DEF HTTPIInv

LEMMA HTTPRelayUp ==
  ASSUME HTTPIInv, HTTP!RelayUp
  PROVE  HTTPIInv'
  <1> USE DEF HTTP!clientVars, HTTP!forwardVars, HTTP!relayVars, HTTP!remoteVars
  <1>1. PICK k \in 1 .. Len(held) :
          /\ HTTP!Taken(k)
          /\ \/ hUp' = "ended" /\ UNCHANGED hToRemote
             \/ hToRemote' = hToRemote \o SubSeq(held, 1, k) /\ UNCHANGED hUp
    BY DEF HTTP!RelayUp
  <1>2. hUp = "run" /\ UNCHANGED <<kind, hSent, hHandler, initial, hDown, inHand, relayed, answers>>
    BY DEF HTTP!RelayUp
  <1>3. hHandler = "relay" /\ hToRemote \o held = First(HTTP!Stream, taken) /\ hToRemote \in Seq(Pieces)
    BY <1>2 DEF HTTPIInv, HTTPTypes, Upwards
  <1>4. /\ fw \in {"spill", "flush"} /\ fw' \in {"spill", "flush", "gather", "respond"}
        /\ fw' = "respond" => held' = <<>>
        /\ UNCHANGED <<taken, resp, toClient>>
        /\ held' \in Seq(Pieces)
    BY <1>1, <1>2, HTTPTaken
  <1> DEFINE more == hToRemote \o SubSeq(held, 1, k)
  <1>5. more \in Seq(Pieces) /\ more \o held' = First(HTTP!Stream, taken)
    BY <1>1, <1>2, <1>3, HTTPTaken
  <1>6. HTTP!Stream' = HTTP!Stream /\ HTTP!Stream \in Seq(Pieces) /\ taken \in 0 .. Len(HTTP!Stream)
    BY <1>2, StreamSame
  <1>7. hToRemote' = more \/ hToRemote' = hToRemote
    BY <1>1
  <1>8. \/ UNCHANGED hToRemote /\ hUp' = "ended"
        \/ hToRemote' = more /\ UNCHANGED hUp
    BY <1>1
  <1> HIDE DEF more
  <1>9. HTTPTypes'
    BY <1>2, <1>4, <1>5, <1>6, <1>7 DEF HTTPIInv, HTTPTypes
  <1>10. Len(more) <= taken /\ more = First(HTTP!Stream, Len(more))
    BY <1>4, <1>5, <1>6, FirstOfTwo
  <1>11. Upwards'
    <2>1. Len(hToRemote') <= taken' /\ hToRemote' = First(HTTP!Stream', Len(hToRemote'))
      BY <1>4, <1>6, <1>7, <1>10 DEF HTTPIInv, Upwards
    <2>2. hUp' = "run" => hToRemote' \o held' = First(HTTP!Stream', taken')
      BY <1>4, <1>5, <1>6, <1>8
    <2> QED  BY <1>2, <1>3, <1>4, <2>1, <2>2 DEF Upwards
  <1>12. Downwards'
    BY <1>2, <1>4, DownwardsRest
  <1> QED  BY <1>9, <1>11, <1>12 DEF HTTPIInv

(* handleConn goes on, ends, or dials; nothing comes out of the pipe. *)
LEMMA HTTPHandlerQuiet ==
  ASSUME HTTPIInv,
         UNCHANGED <<kind, hSent, taken, fw, held, resp, toClient, initial, inHand, hToRemote, relayed, answers>>,
         \/ hHandler = "route" /\ hHandler' \in {"done", "dial", "wait"} /\ UNCHANGED hUp
         \/ hHandler \in {"wait", "dial"} /\ hHandler' = "done" /\ UNCHANGED hUp
         \/ hHandler = "relay" /\ hUp = "ended" /\ hHandler' = "done" /\ UNCHANGED hUp
         \/ hUp' = "ended" /\ UNCHANGED hHandler
  PROVE  HTTPIInv'
  <1>1. HTTP!Stream' = HTTP!Stream
    BY StreamSame
  <1>2. HTTPTypes'
    BY <1>1 DEF HTTPIInv, HTTPTypes
  <1>3. Upwards'
    BY <1>1 DEF HTTPIInv, Upwards
  <1>4. Downwards'
    BY DownwardsRest
  <1> QED  BY <1>2, <1>3, <1>4 DEF HTTPIInv

LEMMA HTTPDial ==
  ASSUME HTTPIInv, HTTP!Dial
  PROVE  HTTPIInv'
  <1> USE DEF HTTP!clientVars, HTTP!forwardVars, HTTP!relayVars, HTTP!remoteVars
  <1>1. CASE hHandler' = "done" /\ UNCHANGED <<hToRemote, hUp>>
    BY <1>1, HTTPHandlerQuiet DEF HTTP!Dial
  <1>2. CASE hHandler' = "relay" /\ hToRemote' = initial /\ hUp' = "run"
    <2>1. /\ hHandler = "dial"
          /\ UNCHANGED <<kind, hSent, taken, fw, held, resp, toClient, initial, inHand, relayed, answers>>
      BY DEF HTTP!Dial
    <2>2. initial \o held = First(HTTP!Stream, taken) /\ initial \in Seq(Pieces) /\ held \in Seq(Pieces) /\ fw # "none"
      BY <2>1 DEF HTTPIInv, HTTPTypes, Upwards
    <2>3. HTTP!Stream' = HTTP!Stream /\ HTTP!Stream \in Seq(Pieces) /\ taken \in 0 .. Len(HTTP!Stream)
      BY <2>1, StreamSame
    <2>4. Len(initial) <= taken /\ initial = First(HTTP!Stream, Len(initial))
      BY <2>2, <2>3, FirstOfTwo
    <2>5. HTTPTypes'
      BY <1>2, <2>1, <2>3 DEF HTTPIInv, HTTPTypes
    <2>6. Upwards'
      BY <1>2, <2>1, <2>2, <2>3, <2>4 DEF HTTPIInv, Upwards
    <2>7. Downwards'
      BY <2>1, DownwardsRest
    <2> QED  BY <2>5, <2>6, <2>7 DEF HTTPIInv
  <1> QED  BY <1>1, <1>2 DEF HTTP!Dial

LEMMA HTTPHandlerGoesOn ==
  ASSUME HTTPIInv, HTTP!Route \/ HTTP!WaitFails \/ HTTP!RelayDone \/ HTTP!RelayUpEnds
  PROVE  HTTPIInv'
  <1> USE DEF HTTP!clientVars, HTTP!forwardVars, HTTP!relayVars, HTTP!remoteVars
  <1>1. CASE HTTP!Route
    BY <1>1, HTTPHandlerQuiet DEF HTTP!Route
  <1>2. CASE HTTP!WaitFails
    BY <1>2, HTTPHandlerQuiet DEF HTTP!WaitFails
  <1>3. CASE HTTP!RelayDone
    BY <1>3, HTTPHandlerQuiet DEF HTTP!RelayDone
  <1>4. CASE HTTP!RelayUpEnds
    BY <1>4, HTTPHandlerQuiet DEF HTTP!RelayUpEnds
  <1> QED  BY <1>1, <1>2, <1>3, <1>4

(* An answer is read from the remote end ... *)
LEMMA HTTPRelayDown ==
  ASSUME HTTPIInv, HTTP!RelayDown
  PROVE  HTTPIInv'
  <1> USE DEF HTTP!clientVars, HTTP!forwardVars, HTTP!relayVars, HTTP!remoteVars
  <1> DEFINE e == answers[relayed + 1]
             b == toClient \o resp
  <1>1. /\ inHand = <<>> /\ relayed < Len(answers) /\ inHand' = <<e>> /\ relayed' = relayed + 1
        /\ UNCHANGED <<kind, hSent, taken, fw, held, resp, toClient, hHandler, initial, hUp, hToRemote, answers>>
    BY DEF HTTP!RelayDown
  <1>2. /\ answers \in Seq(Answers) /\ Len(answers) \in Nat /\ relayed \in Nat /\ relayed + 1 \in 0 .. Len(answers)
        /\ relayed + 1 \in 1 .. Len(answers) /\ toClient \in Seq(Answers) /\ resp \in Seq(Answers) /\ Len(toClient) \in Nat
    BY <1>1 DEF HTTPIInv, HTTPTypes
  <1>3. e \in Answers
    BY <1>2
  <1>4. First(answers, relayed) \o <<e>> = First(answers, relayed + 1)
    BY <1>1, <1>2, FirstOn
  <1>5. HTTP!Stream' = HTTP!Stream
    BY <1>1, StreamSame
  <1>6. b \in Seq(Answers)
    BY <1>2, ConcatProperties
  <1>7. b \o <<>> = b
    BY <1>6, ConcatEmptySeq
  <1> HIDE DEF e
  <1>8. HTTPTypes'
    BY <1>1, <1>2, <1>3, <1>5 DEF HTTPIInv, HTTPTypes
  <1>9. Upwards'
    BY <1>1, UpwardsRest DEF HTTPIInv, Upwards
  <1>10. Downwards'
    <2>1. fw \notin {"closing", "closed"} => b \o inHand = First(answers, relayed)
      BY DEF HTTPIInv, Downwards
    <2> HIDE DEF b
    <2>2. fw \notin {"closing", "closed"} => b \o <<e>> = First(answers, relayed + 1)
      BY <1>1, <1>4, <1>7, <2>1
    <2>3. Len(toClient) <= relayed + 1
      BY <1>2 DEF HTTPIInv, Downwards
    <2>4. b' = b
      BY <1>1 DEF b
    <2>5. fw' \notin {"closing", "closed"} => b' \o inHand' = First(answers', relayed')
      BY <1>1, <2>2, <2>4
    <2> QED  BY <1>1, <2>3, <2>5 DEF HTTPIInv, Downwards, b
  <1> QED  BY <1>8, <1>9, <1>10 DEF HTTPIInv

(* ... or there is none, or nobody to have it. *)
LEMMA HTTPRelayDownEnds ==
  ASSUME HTTPIInv, HTTP!RelayDownEnds
  PROVE  HTTPIInv'
  <1> USE DEF HTTP!clientVars, HTTP!forwardVars, HTTP!relayVars, HTTP!remoteVars
  <1>1. /\ inHand' = <<>> /\ (inHand = <<>> \/ fw = "closed")
        /\ UNCHANGED <<kind, hSent, taken, fw, held, resp, toClient, hHandler, initial, hUp, hToRemote, relayed, answers>>
    BY DEF HTTP!RelayDownEnds
  <1>2. HTTP!Stream' = HTTP!Stream /\ <<>> \in Seq(Answers)
    BY <1>1, StreamSame
  <1>3. HTTPTypes'
    BY <1>1, <1>2 DEF HTTPIInv, HTTPTypes
  <1>4. Upwards'
    BY <1>1, UpwardsRest DEF HTTPIInv, Upwards
  <1>5. Downwards'
    BY <1>1 DEF HTTPIInv, Downwards
  <1> QED  BY <1>3, <1>4, <1>5 DEF HTTPIInv

(* The forwarder reads a response, or something that is none, or the end. *)
LEMMA HTTPReadResponse ==
  ASSUME HTTPIInv, HTTP!ReadResponse
  PROVE  HTTPIInv'
  <1> USE DEF HTTP!clientVars, HTTP!forwardVars, HTTP!relayVars, HTTP!remoteVars
  <1>1. /\ fw = "respond" /\ inHand' = <<>>
        /\ \/ resp' = inHand /\ fw' = "reply"
           \/ fw' = "closing" /\ resp' = resp
        /\ UNCHANGED <<kind, hSent, taken, held, toClient, hHandler, initial, hUp, hToRemote, relayed, answers>>
    BY DEF HTTP!ReadResponse
  <1>2. HTTP!Stream' = HTTP!Stream /\ <<>> \in Seq(Answers)
    BY <1>1, StreamSame
  <1>3. /\ resp = <<>> /\ held = <<>> /\ (toClient \o resp) \o inHand = First(answers, relayed)
        /\ toClient \in Seq(Answers) /\ inHand \in Seq(Answers)
    BY <1>1 DEF HTTPIInv, HTTPTypes, Upwards, Downwards
  <1>4. toClient \o <<>> = toClient /\ toClient \o inHand \in Seq(Answers)
    BY <1>3, ConcatEmptySeq, ConcatProperties
  <1>5. (toClient \o inHand) \o <<>> = toClient \o inHand
    BY <1>4, ConcatEmptySeq
  <1>6. fw' = "reply" => (toClient' \o resp') \o inHand' = First(answers', relayed')
    BY <1>1, <1>3, <1>4, <1>5
  <1>7. HTTPTypes'
    BY <1>1, <1>2 DEF HTTPIInv, HTTPTypes
  <1>8. Upwards'
    BY <1>1, <1>3, UpwardsRest
  <1>9. Downwards'
    BY <1>1, <1>6 DEF HTTPIInv, Downwards
  <1> QED  BY <1>7, <1>8, <1>9 DEF HTTPIInv

(* The client gets the response. *)
LEMMA HTTPReply ==
  ASSUME HTTPIInv, HTTP!Reply
  PROVE  HTTPIInv'
  <1> USE DEF HTTP!clientVars, HTTP!forwardVars, HTTP!relayVars, HTTP!remoteVars
  <1>1. /\ fw = "reply" /\ resp' = <<>> /\ toClient' = toClient \o resp /\ fw' \in {"closing", "next"}
        /\ UNCHANGED <<kind, hSent, taken, held, hHandler, initial, hUp, inHand, hToRemote, relayed, answers>>
    BY DEF HTTP!Reply
  <1>2. HTTP!Stream' = HTTP!Stream /\ <<>> \in Seq(Answers)
    BY <1>1, StreamSame
  <1>3. /\ held = <<>> /\ (toClient \o resp) \o inHand = First(answers, relayed)
        /\ toClient \in Seq(Answers) /\ resp \in Seq(Answers) /\ inHand \in Seq(Answers)
        /\ answers \in Seq(Answers) /\ relayed \in 0 .. Len(answers)
    BY <1>1 DEF HTTPIInv, HTTPTypes, Upwards, Downwards
  <1>4. toClient' \in Seq(Answers) /\ toClient' \o inHand = First(answers, relayed)
    BY <1>1, <1>3, ConcatProperties
  <1>5. toClient' = First(answers, Len(toClient')) /\ Len(toClient') <= relayed
    BY <1>3, <1>4, FirstOfTwo, ZenonT(40)
  <1>6. toClient' \o <<>> = toClient'
    BY <1>4, ConcatEmptySeq
  <1>7. (toClient' \o resp') \o inHand' = First(answers', relayed')
    BY <1>1, <1>4, <1>6
  <1>8. HTTPTypes'
    BY <1>1, <1>2, <1>4 DEF HTTPIInv, HTTPTypes
  <1>9. Upwards'
    BY <1>1, <1>3, UpwardsRest
  <1>10. Downwards'
    BY <1>1, <1>5, <1>7 DEF Downwards
  <1> QED  BY <1>8, <1>9, <1>10 DEF HTTPIInv

LEMMA HTTPSteps ==
  ASSUME HTTPIInv, [HTTP!Next]_(HTTP!vars)
  PROVE  HTTPIInv'
  <1>1. CASE UNCHANGED HTTP!vars
    <2>1. HTTP!Stream' = HTTP!Stream
      BY <1>1, StreamSame DEF HTTP!vars, HTTP!clientVars
    <2> USE DEF HTTP!vars, HTTP!clientVars, HTTP!forwardVars, HTTP!relayVars, HTTP!remoteVars
    <2>2. HTTPTypes'
      BY <1>1, <2>1 DEF HTTPIInv, HTTPTypes
    <2>3. Upwards'
      BY <1>1, UpwardsRest DEF HTTPIInv, Upwards
    <2>4. Downwards'
      BY <1>1, DownwardsRest
    <2> QED  BY <2>2, <2>3, <2>4 DEF HTTPIInv
  <1>2. CASE HTTP!ClientSends \/ HTTP!ClientEnds \/ HTTP!RemoteAnswers \/ HTTP!RemoteEnds
             \/ HTTP!Spill \/ HTTP!DeadlinePasses
    BY <1>2, HTTPEnds, HTTPRemoteAnswers, HTTPForwarderQuiet
  <1>3. CASE HTTP!Forwarder
    BY <1>3, HTTPGather, HTTPForwarderQuiet, HTTPReadResponse, HTTPReply, HTTPNextRequest DEF HTTP!Forwarder
  <1>4. CASE HTTP!Handler
    BY <1>4, HTTPAccept, HTTPConnect, HTTPWaitRead, HTTPDial, HTTPHandlerGoesOn DEF HTTP!Handler
  <1>5. CASE HTTP!RelaysUp \/ HTTP!RelaysDown
    BY <1>5, HTTPRelayUp, HTTPHandlerGoesOn, HTTPRelayDown, HTTPRelayDownEnds DEF HTTP!RelaysUp, HTTP!RelaysDown
  <1>6. CASE HTTP!Finished
    BY <1>1, <1>6 DEF HTTP!Finished
  <1> QED  BY <1>1, <1>2, <1>3, <1>4, <1>5, <1>6 DEF HTTP!Next

LEMMA HTTPFollows == HTTPIInv => HTTP!RequestsInOrder /\ HTTP!AnswersInOrder
  <1> SUFFICES ASSUME HTTPIInv PROVE HTTP!RequestsInOrder /\ HTTP!AnswersInOrder
    OBVIOUS
  <1>1. /\ HTTP!Stream \in Seq(Pieces) /\ Len(HTTP!Stream) \in Nat /\ taken \in Nat /\ taken <= Len(HTTP!Stream)
        /\ answers \in Seq(Answers) /\ Len(answers) \in Nat /\ relayed \in Nat /\ relayed <= Len(answers)
        /\ toClient \in Seq(Answers) /\ hToRemote \in Seq(Pieces) /\ Len(toClient) \in Nat /\ Len(hToRemote) \in Nat
    <2>1. HTTP!Stream \in Seq(Pieces)
      BY StreamType DEF HTTPIInv, HTTPTypes
    <2> QED  BY <2>1 DEF HTTPIInv, HTTPTypes
  <1>2. HTTP!IsPrefix(hToRemote, HTTP!Stream)
    <2>1. SubSeq(hToRemote, 1, Len(hToRemote)) = hToRemote
      BY <1>1
    <2>2. Len(hToRemote) <= Len(HTTP!Stream) /\ hToRemote = SubSeq(HTTP!Stream, 1, Len(hToRemote))
      BY <1>1 DEF HTTPIInv, Upwards, First
    <2> QED  BY <2>1, <2>2 DEF HTTP!IsPrefix
  <1>3. HTTP!IsPrefix(toClient, answers)
    <2>1. SubSeq(toClient, 1, Len(toClient)) = toClient
      BY <1>1
    <2>2. Len(toClient) <= Len(answers) /\ toClient = SubSeq(answers, 1, Len(toClient))
      BY <1>1 DEF HTTPIInv, Downwards, First
    <2> QED  BY <2>1, <2>2 DEF HTTP!IsPrefix
  <1>4. HTTP!RequestsInOrder
    BY <1>2 DEF HTTP!RequestsInOrder, HTTPIInv, Upwards, First
  <1>5. HTTP!AnswersInOrder
    BY <1>3 DEF HTTP!AnswersInOrder, HTTPIInv, Downwards, First
  <1> QED  BY <1>4, <1>5

-----------------------------------------------------------------------------
(* Shadowsocks streams *)

(* The proofs about streams, for one connection and for two. *)
OneStreams == INSTANCE ShadowStreamProofs WITH
  sent <- written, Sessions <- {"c1"}, ServerPSK <- "server"

TwoStreams == INSTANCE ShadowStreamProofs WITH
  sent <- written, Sessions <- {"c1", "c2"}, ServerPSK <- "server",
  PSKs <- Users, InitialPayloads <- {1}, MaxSent <- 1

(* They are about the module of the one connection. *)
LEMMA OneStarts == One!Init => OneStreams!ShadowConstants /\ OneStreams!Init
  BY PathAssumption DEF One!Init, One!Dirs, One!None, One!ShadowConstants, OneStreams!Init, OneStreams!Dirs,
                        OneStreams!None, OneStreams!ShadowConstants

(* The steps are the same ones. *)
LEMMA OneMoves == [One!Next]_(One!vars) => [OneStreams!Next]_(OneStreams!vars)
  BY DEF One!clientVars, One!writerVars, One!readerVars, One!vars, One!Dirs, One!None, One!FixedLen,
         One!SaltLen, One!Salt, One!Uint16, One!Bytes, One!Box, One!Opens, One!NextNonce, One!WriteTwo,
         One!Room, One!PaddedLens, One!Request, One!WriteChunk, One!HasExcess, One!WriteExcess, One!ClientWrite,
         One!GivesUp, One!Fail, One!Advance, One!Take, One!ServerHeader, One!VariableHeaderOk, One!ServerVariable,
         One!ReadLength, One!ReadPayload, One!ReadEnds, One!HeaderRefused, One!Accepted, One!ServerWrite,
         One!ClientHeader, One!CloseWrite, One!Fault, One!Damaged, One!Disturb, One!Cut, One!CarryOver,
         One!Finished, One!Next, One!RemoveAt, One!InsertAt, One!ReplaceAt, OneStreams!clientVars,
         OneStreams!writerVars, OneStreams!readerVars, OneStreams!vars, OneStreams!Dirs, OneStreams!None,
         OneStreams!FixedLen, OneStreams!SaltLen, OneStreams!Salt, OneStreams!Uint16, OneStreams!Bytes,
         OneStreams!Box, OneStreams!Opens, OneStreams!NextNonce, OneStreams!WriteTwo, OneStreams!Room,
         OneStreams!PaddedLens, OneStreams!Request, OneStreams!WriteChunk, OneStreams!HasExcess,
         OneStreams!WriteExcess, OneStreams!ClientWrite, OneStreams!GivesUp, OneStreams!Fail, OneStreams!Advance, OneStreams!Take,
         OneStreams!ServerHeader, OneStreams!VariableHeaderOk, OneStreams!ServerVariable, OneStreams!ReadLength,
         OneStreams!ReadPayload, OneStreams!ReadEnds, OneStreams!HeaderRefused, OneStreams!Accepted,
         OneStreams!ServerWrite, OneStreams!ClientHeader, OneStreams!CloseWrite, OneStreams!Fault,
         OneStreams!Damaged, OneStreams!Disturb, OneStreams!Cut, OneStreams!CarryOver, OneStreams!Finished,
         OneStreams!Next, OneStreams!RemoveAt, OneStreams!InsertAt, OneStreams!ReplaceAt

(* So are the properties. *)
LEMMA OneFollows ==
  ASSUME OneStreams!IInv
  PROVE  /\ One!DeliveredInOrder /\ One!NoncesUsedOnce /\ One!OwnStreamsAccepted
         /\ One!ServedOnce /\ One!ResponsesAnswerTheRequest
  <1>1. /\ OneStreams!DeliveredInOrder /\ OneStreams!NoncesUsedOnce /\ OneStreams!OwnStreamsAccepted
        /\ OneStreams!ServedOnce /\ OneStreams!ResponsesAnswerTheRequest
    BY OneStreams!StreamFollows
  <1> QED
    BY <1>1 DEF One!DeliveredInOrder, One!NoncesUsedOnce, One!OwnStreamsAccepted, One!ServedOnce,
                One!ResponsesAnswerTheRequest, One!Bytes, One!Dirs, One!Known, One!None, One!Salt,
                OneStreams!DeliveredInOrder, OneStreams!NoncesUsedOnce, OneStreams!OwnStreamsAccepted,
                OneStreams!ServedOnce, OneStreams!ResponsesAnswerTheRequest, OneStreams!Bytes, OneStreams!Dirs,
                OneStreams!Known, OneStreams!None, OneStreams!Salt

(* They are about the module of the two connections. *)
LEMMA TwoStarts == Two!Init => TwoStreams!ShadowConstants /\ TwoStreams!Init
  BY PathAssumption DEF Two!Init, Two!Dirs, Two!None, Two!ShadowConstants, TwoStreams!Init, TwoStreams!Dirs,
                        TwoStreams!None, TwoStreams!ShadowConstants

(* The steps are the same ones. *)
LEMMA TwoMoves == [Two!Next]_(Two!vars) => [TwoStreams!Next]_(TwoStreams!vars)
  BY DEF Two!clientVars, Two!writerVars, Two!readerVars, Two!vars, Two!Dirs, Two!None, Two!FixedLen,
         Two!SaltLen, Two!Salt, Two!Uint16, Two!Bytes, Two!Box, Two!Opens, Two!NextNonce, Two!WriteTwo,
         Two!Room, Two!PaddedLens, Two!Request, Two!WriteChunk, Two!HasExcess, Two!WriteExcess, Two!ClientWrite,
         Two!GivesUp, Two!Fail, Two!Advance, Two!Take, Two!ServerHeader, Two!VariableHeaderOk, Two!ServerVariable,
         Two!ReadLength, Two!ReadPayload, Two!ReadEnds, Two!HeaderRefused, Two!Accepted, Two!ServerWrite,
         Two!ClientHeader, Two!CloseWrite, Two!Fault, Two!Damaged, Two!Disturb, Two!Cut, Two!CarryOver,
         Two!Finished, Two!Next, Two!RemoveAt, Two!InsertAt, Two!ReplaceAt, TwoStreams!clientVars,
         TwoStreams!writerVars, TwoStreams!readerVars, TwoStreams!vars, TwoStreams!Dirs, TwoStreams!None,
         TwoStreams!FixedLen, TwoStreams!SaltLen, TwoStreams!Salt, TwoStreams!Uint16, TwoStreams!Bytes,
         TwoStreams!Box, TwoStreams!Opens, TwoStreams!NextNonce, TwoStreams!WriteTwo, TwoStreams!Room,
         TwoStreams!PaddedLens, TwoStreams!Request, TwoStreams!WriteChunk, TwoStreams!HasExcess,
         TwoStreams!WriteExcess, TwoStreams!ClientWrite, TwoStreams!GivesUp, TwoStreams!Fail, TwoStreams!Advance, TwoStreams!Take,
         TwoStreams!ServerHeader, TwoStreams!VariableHeaderOk, TwoStreams!ServerVariable, TwoStreams!ReadLength,
         TwoStreams!ReadPayload, TwoStreams!ReadEnds, TwoStreams!HeaderRefused, TwoStreams!Accepted,
         TwoStreams!ServerWrite, TwoStreams!ClientHeader, TwoStreams!CloseWrite, TwoStreams!Fault,
         TwoStreams!Damaged, TwoStreams!Disturb, TwoStreams!Cut, TwoStreams!CarryOver, TwoStreams!Finished,
         TwoStreams!Next, TwoStreams!RemoveAt, TwoStreams!InsertAt, TwoStreams!ReplaceAt

(* So are the properties. *)
LEMMA TwoFollows ==
  ASSUME TwoStreams!IInv
  PROVE  /\ Two!DeliveredInOrder /\ Two!NoncesUsedOnce /\ Two!OwnStreamsAccepted
         /\ Two!ServedOnce /\ Two!ResponsesAnswerTheRequest
  <1>1. /\ TwoStreams!DeliveredInOrder /\ TwoStreams!NoncesUsedOnce /\ TwoStreams!OwnStreamsAccepted
        /\ TwoStreams!ServedOnce /\ TwoStreams!ResponsesAnswerTheRequest
    BY TwoStreams!StreamFollows
  <1> QED
    BY <1>1 DEF Two!DeliveredInOrder, Two!NoncesUsedOnce, Two!OwnStreamsAccepted, Two!ServedOnce,
                Two!ResponsesAnswerTheRequest, Two!Bytes, Two!Dirs, Two!Known, Two!None, Two!Salt,
                TwoStreams!DeliveredInOrder, TwoStreams!NoncesUsedOnce, TwoStreams!OwnStreamsAccepted,
                TwoStreams!ServedOnce, TwoStreams!ResponsesAnswerTheRequest, TwoStreams!Bytes, TwoStreams!Dirs,
                TwoStreams!Known, TwoStreams!None, TwoStreams!Salt

(* The invariant of the connections the behaviour is about. *)
ShadowIInv ==
  IF part = "two" THEN TwoStreams!IInv ELSE OneStreams!IInv

(* A step of the path is one of the Shadowsocks streams, or leaves them. *)
LEMMA ShadowPart ==
  ASSUME [NextPath]_pathVars
  PROVE  part' = part /\ (part # "two" => [One!Next]_(One!vars)) /\ (part = "two" => [Two!Next]_(Two!vars))
  <1>1. UNCHANGED shadowVars => UNCHANGED One!vars /\ UNCHANGED Two!vars
    BY DEF shadowVars, One!vars, One!clientVars, One!writerVars, One!readerVars,
           Two!vars, Two!clientVars, Two!writerVars, Two!readerVars
  <1> USE DEF pathVars, TCPMoves, CopyMoves, ProcessMoves, ShadowMoves, HTTPMoves, StreamMoves
  <1> QED  BY <1>1 DEF NextPath

(* The invariant holds at the start. *)
LEMMA ShadowStarts == ASSUME InitPath PROVE ShadowIInv
  <1>1. CASE part = "two"
    <2>1. TwoStreams!ShadowConstants /\ TwoStreams!Init
      BY <1>1, TwoStarts DEF InitPath
    <2>2. TwoStreams!IInv
      BY <2>1, TwoStreams!StreamStarts
    <2> QED  BY <1>1, <2>2 DEF ShadowIInv
  <1>2. CASE part # "two"
    <2>1. OneStreams!ShadowConstants /\ OneStreams!Init
      BY <1>2, OneStarts DEF InitPath
    <2>2. OneStreams!IInv
      BY <2>1, OneStreams!StreamStarts
    <2> QED  BY <1>2, <2>2 DEF ShadowIInv
  <1> QED  BY <1>1, <1>2

(* The invariant is kept. *)
LEMMA ShadowSteps == ASSUME ShadowIInv, [NextPath]_pathVars PROVE ShadowIInv'
  <1>1. CASE part = "two"
    <2>1. TwoStreams!ShadowConstants
      BY PathAssumption DEF Two!ShadowConstants, TwoStreams!ShadowConstants
    <2>2. TwoStreams!IInv /\ [TwoStreams!Next]_(TwoStreams!vars)
      BY <1>1, ShadowPart, TwoMoves DEF ShadowIInv
    <2>3. TwoStreams!IInv'
      BY <2>1, <2>2, TwoStreams!StreamSteps
    <2> QED  BY <1>1, <2>3, ShadowPart DEF ShadowIInv
  <1>2. CASE part # "two"
    <2>1. OneStreams!ShadowConstants
      BY PathAssumption DEF One!ShadowConstants, OneStreams!ShadowConstants
    <2>2. OneStreams!IInv /\ [OneStreams!Next]_(OneStreams!vars)
      BY <1>2, ShadowPart, OneMoves DEF ShadowIInv
    <2>3. OneStreams!IInv'
      BY <2>1, <2>2, OneStreams!StreamSteps
    <2> QED  BY <1>2, <2>3, ShadowPart DEF ShadowIInv
  <1> QED  BY <1>1, <1>2

(* What the path says of the streams. *)
LEMMA ShadowFollows ==
  ASSUME ShadowIInv
  PROVE  /\ ShadowStreamsFaithful
         /\ part = "two" => Two!ServedOnce /\ Two!ResponsesAnswerTheRequest
  <1>1. CASE part = "two"
    <2>1. TwoStreams!IInv
      BY <1>1 DEF ShadowIInv
    <2>2. /\ Two!DeliveredInOrder /\ Two!NoncesUsedOnce /\ Two!OwnStreamsAccepted
          /\ Two!ServedOnce /\ Two!ResponsesAnswerTheRequest
      BY <2>1, TwoFollows
    <2> QED  BY <1>1, <2>2 DEF ShadowStreamsFaithful, Shadow
  <1>2. CASE part # "two"
    <2>1. OneStreams!IInv
      BY <1>2 DEF ShadowIInv
    <2>2. One!DeliveredInOrder /\ One!NoncesUsedOnce /\ One!OwnStreamsAccepted
      BY <2>1, OneFollows
    <2> QED  BY <1>2, <2>2 DEF ShadowStreamsFaithful, Shadow
  <1> QED  BY <1>1, <1>2

-----------------------------------------------------------------------------
(* The path *)

(* What the parts of the TCP path rely on when they meet: the relay hands   *)
(* its writer buffers of the length it takes (BufferContract), handleConn   *)
(* has lifted the deadline of the initial payload wait from a connection it *)
(* dials or relays for, and the manager closes the router after the         *)
(* services, for every number of services, connections and bytes.           *)
THEOREM PathContractsHold == SpecPath => []PathContracts
  <1>1. InitPath => StreamIInv /\ TCPIInv /\ ProcessIInv
    BY StreamStarts, TCPStarts, ProcessStarts DEF InitPath
  <1>2. StreamIInv /\ [NextPath]_pathVars => StreamIInv'
    BY StreamPart, StreamSteps
  <1>3. TCPIInv /\ [NextPath]_pathVars => TCPIInv'
    BY TCPPart, TCPSteps
  <1>4. ProcessIInv /\ [NextPath]_pathVars => ProcessIInv'
    BY ProcessPart, ProcessSteps
  <1>5. StreamIInv /\ TCPIInv /\ ProcessIInv => PathContracts
    BY StreamFollows, TCPFollows, ProcessFollows DEF PathContracts
  <1> QED  BY <1>1, <1>2, <1>3, <1>4, <1>5, SpecIsSafe, PTL DEF SafePath

(* Wherever bytes pass, what comes out is an unbroken part of what went in. *)
(* Through handleConn it begins with the client's first byte, but for what  *)
(* an HTTP CONNECT handshake read ahead, and has nothing else in it but the *)
(* buffer of zeros that a wait that timed out leaves before it, exactly     *)
(* once and only then; through the relay, the Read, Write and ReadFrom of   *)
(* CopyReadWriter and the pipe of the HTTP proxy it is a beginning.         *)
THEOREM PathBytesInOrder == SpecPath => []BytesInOrder
  <1>1. InitPath => StreamIInv /\ TCPIInv /\ CopyIInv /\ HTTPIInv
    BY StreamStarts, TCPStarts, CopyStarts, HTTPStarts DEF InitPath
  <1>2. StreamIInv /\ [NextPath]_pathVars => StreamIInv'
    BY StreamPart, StreamSteps
  <1>3. TCPIInv /\ [NextPath]_pathVars => TCPIInv'
    BY TCPPart, TCPSteps
  <1>4. CopyIInv /\ [NextPath]_pathVars => CopyIInv'
    BY CopyPart, CopySteps
  <1>5. HTTPIInv /\ [NextPath]_pathVars => HTTPIInv'
    BY HTTPPart, HTTPSteps
  <1>6. StreamIInv /\ TCPIInv /\ CopyIInv /\ HTTPIInv => BytesInOrder
    BY StreamFollows, TCPFollows, CopyFollows, HTTPFollows DEF BytesInOrder
  <1> QED  BY <1>1, <1>2, <1>3, <1>4, <1>5, <1>6, SpecIsSafe, PTL DEF SafePath

(* Whatever the path does to what a ShadowStreamWriter sealed (it loses,    *)
(* repeats, swaps or damages boxes, cuts a connection off, or carries a     *)
(* stream over to another one), a reader returns an unbroken beginning of   *)
(* what one writer wrote, and no key is used with a nonce twice; and        *)
(* reading fails only if the path did.  For every length of addresses,      *)
(* initial payloads and padding, and every number of faults.                *)
THEOREM ShadowStreamsAreFaithful == SpecPath => []ShadowStreamsFaithful
  <1>1. InitPath => ShadowIInv
    BY ShadowStarts
  <1>2. ShadowIInv /\ [NextPath]_pathVars => ShadowIInv'
    BY ShadowSteps
  <1>3. ShadowIInv => ShadowStreamsFaithful
    BY ShadowFollows
  <1> QED  BY <1>1, <1>2, <1>3, SpecIsSafe, PTL DEF SafePath

(* A Shadowsocks request is served on one connection at most, though the    *)
(* path takes it to several, unless the salt pool cleaned its salt away in  *)
(* between; and a client returns only what was written in response to its   *)
(* own request.  The HTTP proxy's forwarder writes the remote end's         *)
(* answers to the client in order, none twice and none skipped: while both  *)
(* ends are there, what is neither written nor held in the forwarder's and  *)
(* the relay's hands is not read yet (how long it is held is not said).     *)
THEOREM RequestsAreAnsweredOnce == SpecPath => []RequestsAnsweredOnce
  <1>1. InitPath => ShadowIInv /\ HTTPIInv
    BY ShadowStarts, HTTPStarts DEF InitPath
  <1>2. ShadowIInv /\ [NextPath]_pathVars => ShadowIInv'
    BY ShadowSteps
  <1>3. HTTPIInv /\ [NextPath]_pathVars => HTTPIInv'
    BY HTTPPart, HTTPSteps
  <1>4. ShadowIInv /\ HTTPIInv => RequestsAnsweredOnce
    BY ShadowFollows, HTTPFollows DEF RequestsAnsweredOnce
  <1> QED  BY <1>1, <1>2, <1>3, <1>4, SpecIsSafe, PTL DEF SafePath

(* A service that Manager.Stop has stopped stays so, and none of its UDP    *)
(* sessions that come out of the router after that begin to relay.          *)
THEOREM ServicesStopForGood == SpecPath => Process!StoppedForGood
  <1>1. InitPath => ProcessIInv
    BY ProcessStarts DEF InitPath
  <1>2. ProcessIInv /\ [NextPath]_pathVars => ProcessIInv'
    BY ProcessPart, ProcessSteps
  <1>3. ProcessIInv /\ [NextPath]_pathVars =>
          [\A i \in UDP : service[i] = "stopped" =>
             /\ service'[i] = "stopped"
             /\ \A c \in Sessions : session'[i][c] = "relaying" => session[i][c] = "relaying"]_(Process!vars)
    BY ProcessPart, StoppedSteps
  <1> QED  BY <1>1, <1>2, <1>3, SpecIsSafe, PTL DEF SafePath, Process!StoppedForGood
=============================================================================
