--------------------------- MODULE PacketHeadroom ---------------------------
(***************************************************************************)
(* The buffer arithmetic of a UDP relay: a packet is received into the     *)
(* middle of a buffer, unpacked where it lies and packed again around its  *)
(* payload by the other protocol (ss2022/packet.go, direct/packet.go,      *)
(* zerocopy/packet.go; the buffers are made by service/udp_nat.go,         *)
(* udp_session.go and udp_transparent_linux.go).  The relay leaves in      *)
(* front of the packet only the difference between what the two protocols  *)
(* need at most, although the header that is taken off may be far shorter  *)
(* than that.                                                              *)
(*                                                                         *)
(* A protocol is what its packets are made of: the lengths of its fixed    *)
(* headers in each direction, the headroom it asks for padding, its AEAD   *)
(* tag, and whether its header carries an address.                         *)
(***************************************************************************)
EXTENDS Integers

CONSTANTS
    Servers,        \* protocols of the relay's server
    Clients,        \* protocols of its clients
    MTUs,           \* MTUs of servers and clients
    AddrLens,       \* lengths of encoded addresses
    MaxAddrLen,     \* the longest one, a domain's
    IPv6AddrLen,    \* the longest one of an IP address
    Paddings,       \* padding lengths looked at
    Payloads        \* payload lengths looked at

IPHeaderLengths == {20, 40, 48}     \* IPv4, IPv6, IPv6 with a jumbo option

UDPHeaderLength == 8

MaxUint16 == 65535

Protocol == [up : Nat, down : Nat, maxPadding : Nat, tag : Nat, hasAddr : BOOLEAN]

(* A protocol without padding does not follow one with padding unless its  *)
(* header is the shorter one: the room reserved for padding is lost when a *)
(* packet comes without.                                                   *)
Follows(p, q) ==
    /\ q.maxPadding <= p.maxPadding \/ p.up <= q.up
    /\ q.maxPadding <= p.maxPadding \/ p.down <= q.down

ASSUME HeadroomAssumption ==
    /\ Servers \subseteq Protocol /\ Clients \subseteq Protocol
    /\ \A s \in Servers, c \in Clients : Follows(s, c) /\ Follows(c, s)
    /\ \A s \in Servers : s.hasAddr \/ (s.up = 0 /\ s.down = 0 /\ s.maxPadding = 0)
    /\ \A c \in Clients : c.hasAddr \/ (c.up = 0 /\ c.down = 0 /\ c.maxPadding = 0)
    /\ MTUs \subseteq Nat /\ AddrLens \subseteq Nat /\ Paddings \subseteq Nat /\ Payloads \subseteq Nat
    /\ MaxAddrLen \in Nat /\ IPv6AddrLen \in Nat

VARIABLES
    from,       \* the protocol the packet is unpacked with
    to,         \* the protocol it is packed with
    dir,        \* "up": to the target, "down": back to the client
    limit,      \* the longest packet the packer may make
    front,      \* headroom in front of the received packet
    size,       \* length of the buffer
    at,         \* where the packet, or its payload, begins in the buffer
    len,        \* its length
    addrLen,    \* the address of the packet: its length as received
    payload,    \* the length of the payload, as the sender packed it
    padding,    \* the length of the padding in the packet
    state       \* "received", "unpacked", "packed", "refused"

bufferVars == <<from, to, dir, limit, front, size, at, len, addrLen, payload, padding, state>>

---------------------------------------------------------------------------
Max2(x, y) == IF x >= y THEN x ELSE y

Min2(x, y) == IF x <= y THEN x ELSE y

(* The headers of a protocol without padding and address. *)
Fixed(p, d) == IF d = "up" THEN p.up ELSE p.down

(* What an address of length n adds to the header of p. *)
AddrPart(p, n) == IF p.hasAddr THEN n ELSE 0

LongestAddr(d) == IF d = "up" THEN MaxAddrLen ELSE IPv6AddrLen

FrontHeadroom(p, d) == Fixed(p, d) + p.maxPadding + AddrPart(p, LongestAddr(d))

RearHeadroom(p) == p.tag

(* MaxPacketSizeForAddr, with the length of the IP header for the address. *)
MaxPacketSize(mtu, ip) == mtu - ip - UDPHeaderLength

(* bug: the difference is taken the wrong way round *)
Reserve_Swapped(most, own) == Max2(own - most, 0)

(* The headroom a relay reserves beyond what the received packet frees. *)
Reserve(most, own) == Max2(most - own, 0)

(* A packet as the peer sends it: header, padding, address, payload, tag.  *)
PacketLen(p, d, pad, n, pl) == Fixed(p, d) + pad + AddrPart(p, n) + pl + p.tag

(* The packet is read into the buffer the relay made for this direction.   *)
(* Uplink buffers are made for the client with the most headroom, other.   *)
Receive(s, c, other, d, mtu, ip, rmtu, rip) ==
    /\ dir = d
    /\ from = IF d = "up" THEN s ELSE c
    /\ to = IF d = "up" THEN c ELSE s
    /\ limit = MaxPacketSize(mtu, ip)
    /\ LET most == IF d = "up" THEN Max2(FrontHeadroom(c, d), FrontHeadroom(other, d)) ELSE FrontHeadroom(s, d)
           mostRear == IF d = "up" THEN Max2(RearHeadroom(c), RearHeadroom(other)) ELSE RearHeadroom(s)
           recvSize == MaxPacketSize(rmtu, IF d = "up" THEN 20 ELSE rip)
       IN  /\ front = Reserve(most, FrontHeadroom(from, d))
           /\ size = front + recvSize + Reserve(mostRear, RearHeadroom(from))
           /\ addrLen <= LongestAddr(d)
           /\ padding = 0 \/ from.maxPadding > 0
           /\ padding <= MaxUint16
           /\ len = PacketLen(from, d, padding, addrLen, payload)
           /\ len <= recvSize
    /\ at = front
    /\ state = "received"

BufferInit ==
    \E s \in Servers, c \in Clients, other \in Clients, d \in {"up", "down"}, mtu \in MTUs,
       ip \in IPHeaderLengths, rmtu \in MTUs, rip \in IPHeaderLengths :
        /\ addrLen \in AddrLens
        /\ padding \in Paddings
        /\ payload \in Payloads
        /\ Receive(s, c, other, d, mtu, ip, rmtu, rip)

(* UnpackInPlace: the headers are taken off the front, the tag off the end.*)
UnpackPacket ==
    /\ state = "received"
    /\ at' = at + Fixed(from, dir) + padding + AddrPart(from, addrLen)
    /\ len' = len - Fixed(from, dir) - padding - AddrPart(from, addrLen) - from.tag
    /\ state' = "unpacked"
    /\ UNCHANGED <<from, to, dir, limit, front, size, addrLen, payload, padding>>

HeaderNoPadding(n) == Fixed(to, dir) + AddrPart(to, n)

(* bug: the AEAD tag is not counted *)
MaxPaddingLen_NoTag(n) == Min2(Min2(limit - HeaderNoPadding(n) - len, at - HeaderNoPadding(n)), MaxUint16)

(* bug: the length of the padding may not fit its field *)
MaxPaddingLen_NoField(n) == Min2(limit - HeaderNoPadding(n) - len - to.tag, at - HeaderNoPadding(n))

(* maxPaddingLen of the Shadowsocks 2022 packers. *)
MaxPaddingLen(n) ==
    Min2(Min2(limit - HeaderNoPadding(n) - len - to.tag, at - HeaderNoPadding(n)), MaxUint16)

(* bug: a packet that leaves no room for padding is refused *)
TooBig_OffByOne(n) ==
    IF to.maxPadding > 0 THEN MaxPaddingLen(n) <= 0 ELSE HeaderNoPadding(n) + len + to.tag > limit

(* The packer does not fit the packet into its limit; one with padding     *)
(* also refuses a header that does not fit the buffer.                     *)
TooBig(n) ==
    IF to.maxPadding > 0 THEN MaxPaddingLen(n) < 0 ELSE HeaderNoPadding(n) + len + to.tag > limit

(* PackInPlace with an address written in n bytes: an IPv4 address mapped  *)
(* to IPv6 is written shorter than it was read, and the tunnel's target or *)
(* the packet's source stands in where the packet had no address.          *)
PackPacket(n) ==
    /\ state = "unpacked"
    /\ ~TooBig(n)
    /\ \E pad \in Paddings :
          /\ pad = 0 \/ (to.maxPadding > 0 /\ pad \in 1..MaxPaddingLen(n))
          /\ padding' = pad
          /\ at' = at - HeaderNoPadding(n) - pad
          /\ len' = HeaderNoPadding(n) + pad + len + to.tag
    /\ addrLen' = n
    /\ state' = "packed"
    /\ UNCHANGED <<from, to, dir, limit, front, size, payload>>

(* ErrPayloadTooBig: the packet is dropped.  A packer with padding returns *)
(* at once, the others have written their header by then.                  *)
Refuse(n) ==
    /\ state = "unpacked"
    /\ TooBig(n)
    /\ LET header == IF to.maxPadding > 0 THEN 0 ELSE HeaderNoPadding(n)
       IN  at' = at - header /\ len' = header + len
    /\ addrLen' = n
    /\ state' = "refused"
    /\ UNCHANGED <<from, to, dir, limit, front, size, payload, padding>>

(* The address the packer writes. *)
Written(n) == n <= IF from.hasAddr THEN addrLen ELSE LongestAddr(dir)

(* The next packet is another behaviour. *)
Finished == state \in {"packed", "refused"} /\ UNCHANGED bufferVars

BufferNext ==
    \/ UnpackPacket
    \/ \E n \in AddrLens : Written(n) /\ PackPacket(n)
    \/ \E n \in AddrLens : Written(n) /\ Refuse(n)
    \/ Finished

BufferSpec == BufferInit /\ [][BufferNext]_bufferVars

---------------------------------------------------------------------------
(* Properties.                                                             *)

(* The packet, with the tag that Seal appends, stays inside the buffer: no *)
(* slice is out of range, whichever protocols meet and however short the   *)
(* header was that made room.                                              *)
InBounds == at >= 0 /\ len >= 0 /\ at + len <= size

(* A packed packet keeps the limit that follows from the MTU.              *)
KeepsLimit == state = "packed" => len <= limit

(* A packet is refused only because it would exceed the limit, never for   *)
(* want of room in the relay's buffer.                                     *)
RefusedOnlyForSize ==
    state = "refused" => Fixed(to, dir) + AddrPart(to, addrLen) + payload + to.tag > limit

(* The peer finds the payload: it reads the padding's length from a field  *)
(* of 16 bits, and what is left behind header and address is the payload.  *)
PeerUnpacks ==
    state = "packed" =>
        len - Fixed(to, dir) - (padding % (MaxUint16 + 1)) - AddrPart(to, addrLen) - to.tag = payload

=============================================================================
