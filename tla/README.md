# Verification of shadowsocks-go

TLA+ models of the parts of shadowsocks-go that carry its state and its
concurrency, checked by TLC on small instances. The safety of the replay
protection, the packet buffers, the UDP relays, the DNS resolver, the router and most
of the TCP path is also proved with TLAPS, for every value of the parameters.
Line numbers are those of the commit this directory belongs to.

## 1. The system

shadowsocks-go is a proxy. Servers (Shadowsocks 2022, SOCKS5, HTTP, direct,
transparent) accept TCP connections or UDP packets; the router picks a client
for each connection or UDP session; the client opens the way to the target,
possibly through another proxy. `main` builds a `Manager`, starts its relays,
waits for a signal, stops them and closes the router.

| Component | State it keeps | Operations | Interacts with | What is hard | What makes it correct |
|---|---|---|---|---|---|
| Sliding window filter (`ss2022/slidingwindow.go`) | last counter, ring of bit blocks | `IsOk`, `MustAdd`, `Add`, `Reset` | unpackers | jumps around the size of the ring, edge of the window, a partial `Reset` | a counter is accepted once; no fresh counter of the window is refused |
| Client unpacker (`ss2022/packet.go`) | current and old server session (ID, cipher, filter), last-seen time | `UnpackInPlace` | filter, header parser, NAT downlink | session changes, late and repeated packets, truncated timestamps | no packet is returned twice |
| Server unpacker and packers (`ss2022/packet.go`, `ss2022/udp.go`) | filter; packet IDs; the server's current user | `NewUnpacker`, `NewPacker`, `UnpackInPlace`, `PackInPlace` | session relay | state shared between sessions; filter lost with the session | no packet forwarded twice; replies are sealed for the session's user |
| Salt pool (`ss2022/saltpool.go`) | map salt -> time, last cleanup | `Add` | TCP request acceptance | clock read before the mutex, retention against truncated timestamps | a request is accepted once, or only in a stated case again; entries do not pile up |
| UDP relays (`service/udp_session*.go`, `service/udp_nat*.go`) | session table, channels, sockets, wait groups, packet pool, batches | receive loop, session and uplink goroutines, `Start`, `Stop` | packers, router, pool | three goroutines per session against `Stop`; failures half way; partly sent batches | no send on a closed channel, no use of a closed socket, no lost or doubled packet buffer, `Stop` returns |
| Transparent relay (`service/udp_transparent_linux.go`) | as above, and a socket per source heard from | as above | as above | as above | as above |
| Packet buffers (`zerocopy/packet.go`, `zerocopy/zerocopy.go`, all packers) | a packet's place in its buffer | `UnpackInPlace`, `PackInPlace` | relays | two protocols with different headers in one buffer, padding, 16-bit lengths | nothing out of bounds; refused only for its size; the peer gets the payload |
| TCP relay (`service/tcp.go`) | listener, connection handlers | accept loop, `Stop`, initial payload wait, fallback | router, clients, stream relay | timeout of the wait, bytes read by a failed handshake | the remote end gets the client's bytes in order |
| Stream relay (`zerocopy/stream.go`, `zerocopy/tcp.go`) | buffers with headroom | `TwoWayRelay`, `CopyReadWriter` | all streams | data together with an error, half close, buffers one side or the other owns | an unbroken prefix in each direction, all of it on success |
| Shadowsocks streams (`ss2022/stream.go`, `ss2022/header.go`) | ciphers and nonces, read buffer | request, response, chunked read and write | stream relay, salt pool | excess payload, nonces, streams carried over by the path | reader returns a prefix of what its peer wrote |
| DNS resolver (`dns/dns.go`) | cache, lookups in progress | UDP lookup with resends, TCP fallback | router, clients | two senders and a reader, timeouts, TTL | a reply counts once, lookups return, cache hits are fresh |
| Router (`router/`) | routes and criteria | build routes, `GetTCPClient`, `GetUDPClient` | resolver, sets | inversion, order, resolvers that are needed but missing | the first route all of whose fields match |
| Manager (`service/service.go`, `cmd/`) | services, router | create, start, stop, close | all services | failures half way, sessions nobody waits for | a signal ends the process; the router is closed last |
| Domain sets, prefix sets (`domainset/`, `prefixset/`) | matchers | build, match | router | three implementations of suffix matching | all agree |
| HTTP proxy server (`http/server.go`, `pipe/`) | a forwarder goroutine, a duplex pipe | `NewHttpStreamServerReadWriter` | TCP relay, on the other side of the pipe | two goroutines with one connection and its deadline, a pipe without buffer | requests and responses in order; the forwarder ends with the connection |
| SOCKS5, HTTP client, direct (`socks5/`, `http/client.go`, `direct/`) | little beyond a connection | handshakes, address encodings | servers, clients | sequential | decode inverts encode |
| Sockets (`conn/`), utilities | none | system calls, helpers | all | platform code | out of scope |

The hazards of the code, each at its line with the properties that cover it,
are in `PROJECT.json`.

## 2. Modules

| Module | Models | Uses |
|---|---|---|
| `Filter` | the sliding window filter as operators on its value | |
| `Timestamps` | the timestamps of requests and packets, and their validation | |
| `ReplayFilter` | abstract: what a replay filter promises | |
| `SlidingWindow` | one filter in use; refines `ReplayFilter` | `Filter` |
| `ShadowPacketClient` | server packers, a bad network, the client's unpacker | `Filter`, `Timestamps` |
| `ShadowPacketServer` | client packers, a bad network, the server's unpacker and the life of the relay's session | `Filter`, `Timestamps` |
| `PacketHeadroom` | one packet in one buffer, unpacked by one protocol and packed by another | |
| `UDPPackets` | the three above side by side | `ShadowPacketClient`, `ShadowPacketServer`, `PacketHeadroom` |
| `SaltPool` | concurrent handlers, timestamp check, `Add` | `Timestamps` |
| `ReplayProtection` | a filter and a salt pool side by side | `SlidingWindow`, `SaltPool` |
| `UDPSessionRelay` | session relay, generic loops, with the server's current user | |
| `UDPSessionRelayMmsg` | session relay, recvmmsg/sendmmsg loops | `UDPSessionRelay` |
| `UDPNATRelay`, `UDPNATRelayMmsg` | NAT relay, generic and batched | `UDPSessionRelay`, `UDPSessionRelayMmsg` |
| `UDPRelays` | the four relays, chosen by a setting | all of these |
| `UDPTransparentRelay` | transparent relay | |
| `TCPRelay` | accept loop, handlers, `Stop` | |
| `HTTPServer` | a connection of the HTTP proxy: the forwarder, the pipe and the handler behind it | |
| `BytePipe` | abstract: one direction of a relay | |
| `StreamRelay` | two-way relay with headroom; each direction refines `BytePipe` | `BytePipe` |
| `CopyReadWriter` | the wrapper that makes a zero-copy stream an ordinary one | |
| `ShadowStream` | Shadowsocks 2022 streams over a path with faults | |
| `Manager` | `main` and `Manager` | |
| `TCPPath` | `TCPRelay` to `Manager` side by side | all of these |
| `DNSResolver` | lookups, senders, cache | |
| `Router` | construction and matching of routes | |
| `MC*` | instances for TLC | the module they are named after |
| `ShadowsocksProofs` | theorems on the filter, the client's and the server's unpacker, the salt pool, the packet buffers | `SlidingWindow`, `ShadowPacketClient`, `ShadowPacketServer`, `SaltPool`, `PacketHeadroom` |
| other `*Proofs` | theorems | the module they are named after |
| `FiniteSums` | lemmas on sums over finite sets, and induction up to a number | |

Definitions named `X_Y` with a comment that starts with "bug:" are deliberate
mistakes in `X`; `PROJECT.json` lists the property each of them breaks, which
shows that the property depends on that piece of code. They are not part of
any specification.

Four modules put parts side by side that meet only through interfaces. In
`UDPPackets` and `TCPPath` the variable `part`, in `ReplayProtection` the variable
`memory`, drawn by the initial predicate, tells which part a behaviour is about;
the others rest. So that parts can share a
module, their specifications have names of their own: `WindowSpec`, `ServerSpec`,
`PoolSpec`, `ReplaySpec`, `BufferSpec`, `SpecPackets`, `SpecRelays`, `SpecPath`. In `UDPRelays` the
variable `setting` is the relay that runs and who sends to it. The interleavings
examined are those inside a part.

### Filter, SlidingWindow, ReplayFilter

A filter is the record `[last, ring]`; a 64-bit block is the set of the
positions of its one bits. Shifts and masks are quotients and remainders. The
loop that clears blocks is the set of slots it visits. `Add` has tests and a loop of
its own in the code, and so it has in the model (`AddOk`, `AddClears`): nothing but
`RingExact` says that the two loops leave the same ring. `SlidingWindow` offers
counters through `Add` and through `IsOk` followed by `MustAdd`, and resets the
filter; the code itself never calls `Reset` or `Add` outside of tests, but both
are part of the type's interface. `ReplayFilter` is the promise: accept what
was not accepted before and is at most `Window` behind the greatest accepted
counter, refuse everything else.

### ShadowPacketClient, ShadowPacketServer

The client's state is the unpacker's: `current` and `old` (session ID, filter)
and `oldLastSeen`. A session whose AEAD is nil has the ID `NoSession`. Packets
that server sessions produced stay in `sent` and can be unpacked at any time,
any number of times, intact or damaged: loss, delay, reordering and
duplication. `HeaderError` keeps the order of the checks. `UnpackInPlace` reads
the clock for the session switch, in the timestamp check and for the last-seen
time; the action lets up to `CallTicks` pass between them. Timestamps are
whole seconds (`Unix`), the clock runs in ticks. `seen`, `delivered`
and `repeated` are history.

The server's unpacker lives as long as the relay's session: `NewUnpacker` on
its first packet, the filter made after the first packet that opens, the packet
queued, the read deadline set by the uplink after it wrote, the eviction when
it passes, and what the channel still holds drained afterwards. `NatTimeout` is
assumed to be at least `2 * MaxEpochDiff * Second`, the 60 s below which the program
refuses a configuration (`service/udp.go:16`). Timestamps are truncated to seconds, so
that a packet stamped a full 30 s ahead is valid for up to 61 s: with less than
that as the timeout it can be forwarded again after its session was evicted.
`ForwardedOnce` excepts these packets (`fromAhead`, only when the timeout is below 61 s)
and those that raced the eviction (`raced`), and no others.

### PacketHeadroom

A protocol is the lengths of its headers in both directions, its longest
padding, its tag, and whether it has an address. The state is a packet's place
(`at`, `len`) in the relay's buffer with `front` bytes ahead of it. `BufferInit`
receives a packet of any length the buffer takes, `UnpackPacket` moves `at` over
the headers, `PackPacket` decides on padding as the packers do (cut by what the limit
and the headroom leave, its length a 16-bit field) and moves `at` back, and
`Refuse` is the packers' error. Address lengths, payloads and paddings are
chosen around every limit. That a packet is
refused for its source address, and the cache of the last resolved domain in
the direct packers, are left out.

### SaltPool

A handler validates the timestamp, reads the clock (`ReadClock`), then runs the
rest of `Add` under the mutex (`AddLocked`), so handlers may run `Add` in
another order than they read the clock. `HandlerTicks` bounds the time from the
timestamp check to the end of `Add`; time does not pass a handler that is due.
`Retention` is the code's, `2 * MaxEpochDiff * Second`. It does not cover the second
that truncation adds to a request from as far ahead as is accepted, which is
therefore accepted again: `RequestsAcceptedOnce` is violated (run `salt_pool_replay`).
`RepeatedOnlyFromAhead` says that no other request is.

### The UDP relays

Goroutines: the receive loop (`recv`), per session object the session
goroutine (`pc[e]`: set-up, then natConn -> serverConn) and the uplink goroutine
(`up[e]`: channel -> natConn), and the caller of `Stop` (`stop`).

| Action of `UDPSessionRelay` | Code (`service/udp_session.go`) |
|---|---|
| `RecvGet`, `RecvRead`, `RecvDeadline`, `RecvBadPacket` | receive loop, 167-256 |
| `RecvExisting`, `RecvNew`, `Enqueue` | under `s.mu`, 219-469 |
| `RouterOk/Fails`, `NewClientSession`, `ListenUDP`, `SwapState`, `StartRelay` | session goroutine, 329-439 |
| `NewPackerAEAD`, `NewPackerBlock` | `ss2022/udp.go` 164-180: two reads of the current user |
| `DownRead`, `DownWrite`, `DownTimeout` | 570-653 |
| `DeferredWgDone`, `Cleanup`, `Drain` | deferred calls, last in first out: 346, then 316-326 |
| `UpReceive`, `UpPack`, `UpWrite`, `UpExtend`, `UpClose` | 490-535, 435-436 |
| `StopBegin` ... `StopClose` | 676-714 |

What happens under `s.mu` is one step. Packet contents are left out: a queued
packet is a token, and `out` counts the tokens taken from the pool. Clients'
addresses stand for the pair of address and control message, and `Unparsable`
are those whose control message `ParsePktinfoCmsg` refuses. `lastParsed` is the place
of a session's last packet whose control message was not refused (`Heard`). Read deadlines are
"armed" or "expired"; `UpExtend` arms whatever was set before, `Stop`'s deadline
included, as the code does. `sync.WaitGroup` follows its implementation: a
`Done` that reaches zero releases the waiter, and `Wait` panics when it then
finds the counter used again. A failing `SetReadDeadline` in `Stop` is not
modelled: on an open socket it does not fail. Nor are the statistics, for which the
uplink reads the length of a packet it has just put back (`udp_session.go:532-534`):
another goroutine may have taken it from the pool, and the count that is logged is then wrong. `Stop` before a successful `Start`
returns at once and is not modelled. The server is one with user keys
(`uPSKMap`); without them there is only one key.

`UDPSessionRelayMmsg` keeps the life of a session and replaces the loops: the
receive loop holds a vector of `MaxIov` packets, refills the used part, handles
all messages of a `recvmmsg` under one hold of the mutex (one action per
message, the mutex held between them), and the uplink collects up to `BatchSize`
packets from the channel without blocking, packs them and sends them in as many
writes as it takes, where a write is one step that takes part of the batch or fails. `UDPNATRelay` keys the table by the client's address,
caches the control message and parses it again only when it changes;
`UDPNATRelayMmsg` is that with the batched loops. `UDPTransparentRelay` has
its own loops: each source that answers gets a reply socket bound to its
address, whose creation may fail, and replies are batched by socket.

### TCPRelay, StreamRelay, BytePipe, CopyReadWriter

A handler goes through handshake (which may fail having read some bytes, with
the fallback or the rejection policy taking over), routing, the wait for an
initial payload with its deadline, dialling and the relay. Bytes are numbered,
so order, loss and repetition are visible. Two deviations of the code are followed
by history variables, so that `ClientBytesInOrder` says exactly what the remote end gets:
`timedOut`, after which the zeroed buffer of the wait precedes the client's bytes, and
`lost`, the bytes behind a CONNECT request that the HTTP proxy's reader had already read
(`http/server.go:23`, `41`). `StreamRelay` has, per direction, a
reader that may ask for a least buffer (`MinReads`) and a writer that may take
at most so much (`MaxWrites`), and the two loops of `Relay` and
`relayFallback`: data may come with the end of the stream or an error; the end
is passed on by closing the writer, and the first error of a direction is what
`TwoWayRelay` returns. Each direction implements `BytePipe`: bytes come out in
the order they went in, and the end comes after the last of them.
A read that returns no byte and no error, on which `Relay` returns as at the end of the
stream (`zerocopy/stream.go:124-129`), is not in the model. The readers of the program return
none on streams of its own writers: a chunk of length zero is an error, and the server
writes no empty payload with its response header. A foreign server could
announce one (`ss2022/stream.go:386-442`), and the relay would take it for the end.
The shortcut for two TCP connections (`DirectTwoWayRelay`, `io.Copy`) is
another implementation of the same pipe and is not modelled separately.

### HTTPServer

The forwarder (`fw`) reads a request from the client's connection, writes it to
its end of the pipe, reads a response from there, writes that to the client and
goes on with the next request (`http/server.go` 49-166). The handler (`handler`,
`up`, `down`) is `handleConn` with the other end of the pipe. A write to the pipe is
a pair of steps, because it waits for a reader: the forwarder has `held`
something for the pipe until `WaitRead` or `RelayUp` took the last piece of it, and
the downward direction has a response `inHand` until `ReadResponse`. A request
is a head and perhaps a body; the head goes ahead of the body when the
forwarder's buffer overflows (`Spill`). A response is one message, which may be
an interim one (1xx) and may come before the body. Client and remote end may stop
at any moment, requests and responses may not parse. Two things the
forwarder does are visible in the model and not judged by a property: it
takes an interim response for the response, so that the final one is passed on
only with a later request; and it sends later requests to the target of the
first one whatever their `Host`.

### ShadowStream

What is sealed is a box with its key, nonce, length and fields; the AEAD is
external and opens a box only with its own key, nonce and length. The client
writes its request with address, padding and as much of the initial payload as
fits, then the rest in chunks; the server accepts it (identity header, timestamp, salt
pool), and answers with a response
header that carries the request's salt. There is no clock: a timestamp out of range
is one cause of `HeaderRefused`, and before it adds a salt the pool may drop any of
those it has (`forgotten`), which includes everything the code's retention does.
That a request is served once therefore excepts salts the pool has forgotten;
when it may forget is `SaltPool`'s subject. The path may lose, repeat, swap or
damage a box, cut the stream off, or carry it over to another connection. A
connection that ends between a length chunk and its payload chunk is reported
as `io.EOF`, that is, as a clean end; `DeliveredInOrder` promises a prefix and
allows for it.

### DNSResolver

One goroutine per lookup and two senders, one per family. Over UDP each sender
sends its query up to `Iterations` times until it is told to stop; the reader
counts each family once, checks for truncation and falls back to TCP; a timeout
ends the wait at any moment. `DialTCP` may hang: `Dial` goes through a client that may wait for its
proxy's answer, and the deadline is set only afterwards (`dns/dns.go:647`, `660`). The two senders share a packer without
synchronisation; what that can garble is, to the resolver, a query without an
answer. Only types and TTLs of answer records are kept. A reply without address records
leaves `minTTL` at its start value of `math.MaxUint32` (`dns/dns.go:373`, `674`), so an empty
result is cached for 136 years; the model has a `MaxTTL` in its place.

### Router

Configurations, requests and resolver answers are drawn by the initial
predicate; `NewRouter` turns the configuration into routes as
`RouteConfig.Route` does, `ConfigRefused` is its errors, and `TestMet`,
`TestNotMet`, `TestFails` and `Matched` step through routes and criteria.
Criteria are the code's: plain, inverted, OR groups, and the domain criterion
with expected addresses. `FirstMatchingRoute` compares with
`Matches`, which says of a route what its fields ask for, all kinds of fields together, without
groups, order and early returns. The comments on the fields say what each of them means alone;
that prefixes and countries, or domains and prefixes, are alternatives, and that an inverted domain
criterion is met by an address, is what the code does, and `Matches` follows it. The latter contradicts a
comment (run `router_inverted_domains`). `client` is what a match answers, `ErrRejected` where the code returns a nil
client. `RouterAssumption` types the configurations, requests and answers the
initial predicate draws. Answers are fixed during a match, and, as in the code, only the first
IPv6 address, or else the first IPv4 address, is tested. Sets are given by
what they contain.

### Manager

Creation of the parts, `Start` of each service (a failure of either is fatal and
ends the process there), the signal, which kills the process before
`signal.Notify`, `Stop` of each service in order, and `Close`. A relay is its sessions: in the router, relaying, gone; `Stop` waits
for the relaying sessions of UDP services and for none of TCP services. The UDP services are
session and NAT relays; that `Stop` of a transparent relay panics where a session is still in the
router is in `UDPTransparentRelay`.

## 3. What the runs show

| Run | Instance | What it shows |
|---|---|---|
| `replay_protection`, memory "window" | 4 blocks of 2 bits, counters 0..11 | the ring is exactly the accepted counters, whether `Add` or `MustAdd` put them there (`RingExact`); the abstract replay filter is implemented, so nothing is accepted twice and nothing fresh refused |
| `replay_protection`, memory "pool" | 2 handlers, 2 salts, the code's retention of twice the accepted difference | a salt is forgotten only after the retention, none outlives two retentions after an `Add`, only a request from as far ahead as is accepted is accepted again |
| `packets`, part "buffer" | the real header lengths of direct, none, SOCKS5 and Shadowsocks 2022 with 0 to 2 identity headers, MTUs of 1280, 1500 and 70000 | buffers are not left (`InBounds`), packets keep the limit, are refused only for their size, and the peer finds the payload |
| `packets`, part "server" | 1 client session, 3 packets, 5 ticks, the least NAT timeout | no packet is forwarded twice except across an eviction that raced with it, or if it came from a full 30 s ahead; none is queued twice in a session (`ForwardedOnce`) |
| `packets`, part "client" | 3 sessions and a foreign one, 4 packets, 5 ticks, a minute of 2 ticks | no packet is returned twice; packets forgotten with their session have expired; filters stay with their sessions |
| `udp_relays` | the four relays; two clients, or one whose sessions follow each other, or one that changes address or control message | packet buffers are accounted for, the table is exact, nothing is used after it was released, `Stop` waits for the relays, replies go to the last place that was parsed; no deadlock |
| `udp_relays_liveness` | the four relays, one client | `Stop` returns; finished sessions let go of everything |
| `transparent_relay` | 1 client, 2 session objects, batches of 2, 1 source | no packet or reply is forgotten, only live sessions hold sockets and table entries, `Stop` waits for the relays and returns |
| `tcp_path` | parts "process" (2 services, 2 sessions each), "tcp" (every configuration, 3 bytes), "http" (2 requests, each plain, with a body, or the last, or a CONNECT), "stream", "copy", "one" and "two" Shadowsocks connections with one fault | the contracts between the parts; bytes in order, an HTTP client's requests and responses included; a Shadowsocks reader returns a prefix of what its peer wrote, and on a path without faults everything; requests are answered once; each direction is a `BytePipe`; connections end, `Stop` returns, a signal ends the process |
| `dns` | setting "Alone": one caller, UDP with 3 resends, then TCP; setting "Together": two callers over TCP that share the cache | each query is counted once, each sender told once, cache hits are fresh, every lookup returns that does not hang in `Dial` |
| `router` | three cases: one route with all destination fields and inversions, one with all source fields, two in order with what they need present or missing | what a match needs is there: the GeoIP database (a nil one panics) and a resolver (without one each lookup fails); the first matching route is taken; errors have a cause |
| `session_relay_user_key` | 2 users | violated: a session gets another user's key |
| `tcp_relay_timeout` | as `tcp_path` | violated: the remote end gets bytes the client did not send |
| `salt_pool_replay` | as `replay_protection` | violated: a request is accepted twice |
| `router_inverted_domains` | as `router` | violated: a route for "all domains except those" takes an address |

### Bounds

* `SlidingWindow`: 12 counters are 6 blocks for a ring of 4, so jumps by less
  than, exactly and more than the ring, and the reuse of every slot, all occur.
* `ShadowPacketClient`: ratios matter, not seconds. The code has 30 s of
  accepted difference and a minute; the instance has 1 and 2 ticks, the tightest
  that satisfy `ClientAssumption`. Three sessions are the fewest in which a
  session is forgotten. The server's clock is ahead by the accepted
  difference, which keeps packets valid longest. A filter of two blocks of
  one bit is the smallest whose window moves.
* `ShadowPacketServer`: a NAT timeout of 2 ticks is the least the assumption
  allows with a difference of 1; 5 ticks are two lives of a session.
* `SaltPool`: two ticks a second make truncation visible; the retention is 4 ticks,
  twice the accepted second. `MaxTime` allows an
  entry to be cleaned, sent again and cleaned again.
* UDP relays: two session objects are enough for an old session that still
  drains while its successor starts, and for one session in the router while
  the other relays when `Stop` comes. A channel of two is filled, partly drained
  and closed with packets in it. Vectors of two have a used and an unused half
  and, on the way out, a batch sent in two calls.
* `TCPRelay`: three bytes and a buffer of two leave a byte after the handshake
  and after the wait. `StreamRelay`: reads of three for writers of two make a
  piece and a rest. `ShadowStream`: an initial payload of 9 does not fit the
  6 bytes of a box with its header, and needs more than one chunk; two
  connections are what a stream can be mixed up between.
* `HTTPServer`: two requests are a first and a next one; a body is one piece, so
  that what the wait takes and what the relay takes differ.
* `DNSResolver`: three sends are a first, a middle and a last; TTLs of 0, 1 and 2
  with a clock of 0 and 1 make expired and fresh entries.

Symmetry is used only in runs without temporal properties other than action
properties. Deadlock is checked except in runs whose clock is bounded
(`packets`, `replay_protection`, `salt_pool_replay`).

### Fairness

A goroutine that can run does, a read deadline that is set passes, and what a
peer has been sent it takes (the TCP relay's writes end). These are Go's
scheduler, timers, and the kernel. Deferred calls of a relay's session, which
need the relay's mutex, have strong fairness, because a batched receive loop takes
and releases that mutex for ever: `sync.Mutex` hands it to a waiter after a
millisecond. Set-up after the router's answer is taken to end; the name
lookup it may do has the system resolver's timeouts. Nothing is assumed of the
router, of traffic, of peers ending their streams, of the upstream DNS server, of `Dial`
of the resolver's TCP client,
or of `Stop` being called. The NAT timeout is certain only while the uplink
has nothing to send, because each packet extends it. `Manager` takes from the
relays' runs that UDP sessions of a service being stopped end. That an HTTP
connection ends is promised when client and remote end have ended their streams
and the remote end has taken what it was sent.

### Where code and comments disagree

Four runs expect a violation; the comments they refute are quoted in
`PROJECT.json`:

* `PackerHasSessionsUser` (`ss2022/udp.go:176`): `NewPacker` reads the server's
  current user after the router has answered, outside the mutex. A packet of
  another user in between makes the session seal replies with that user's key.
* `OnlyClientBytes` (`service/tcp.go:198`): when the wait for the initial payload
  times out, the whole zeroed buffer is passed to `Dial` as payload.
* `RequestsAcceptedOnce` (`ss2022/header.go:97`): timestamps are compared in whole seconds, and
  a request from a full 30 s ahead is in range for up to 61 s; the pool keeps its salt for 60.
* `InvertedDomainsAreDomains` (`router/route.go:536`): a target that is an address does not meet
  a domain criterion and so meets the inverted one.

The modules state further properties that comments or neighbouring code suggest
and that do not hold. Naming one as the `INVARIANT` (or `PROPERTY`) of the
module's run shows a behaviour; for an instantiated module, through its instance
(`TCP`, `HTTP`, `Copy`, `Process`).

| Property | Module | What happens |
|---|---|---|
| `DropsOnlyAfterAChange` | `ShadowPacketClient` | the first session change within a minute of the first packet is refused, though there was no change before it: the last-seen time of the old session starts at the time of creation |
| `StopNeverPanics` | `UDPSessionRelay` | a session that leaves the router while `Stop` returns from `s.wg.Wait` makes `Wait` panic ("WaitGroup is reused before previous Wait has returned") |
| `StopNeverPanics` | `UDPTransparentRelay` | `Stop` calls `SetReadDeadline` on the nil `natConn` of a session still in the router (`service/udp_transparent_linux.go:734`) |
| `FailedWriteIsAWarning` | `UDPSessionRelayMmsg` | a write that fails after the channel was closed within a batch is logged through a nil packet (`service/udp_session_linux.go:483`) |
| `EOFIsNoError` | `StreamRelay` | data that comes with `io.EOF` makes `relayFallback` return `io.EOF` as an error (`zerocopy/stream.go:168`) |
| `ReadFromLosesNothing` | `CopyReadWriter` | bytes that come with `io.EOF` are dropped (`zerocopy/stream.go:553`) |
| `EvictedOnlyWhenInactive` | `ShadowPacketServer` | a session with an accepted packet still in its channel is evicted, and its filter with it (`service/udp_session.go:520`) |
| `NeverStuck` | `HTTPServer` | the remote end fails while the forwarder writes a request and a response is on its way: nobody reads the pipe any more, the downward direction waits for the forwarder, and both wait for ever (`http/server.go:81`) |
| `ForwarderEnds` | `HTTPServer` | when routing or dialling fails nothing closes the pipe's other end, and the forwarder stays in its write (`http/server.go:81`, `service/tcp.go:152`) |
| `BodyHasItsTime` | `HTTPServer` | the deadline of the initial payload wait ends the forwarder's read of a body that takes longer (`service/tcp.go:172`) |
| `ConnectLosesNothing` | `HTTPServer` | bytes that came with a CONNECT request stay in the reader that parsed it (`http/server.go:41`) |
| `TTLIsThatOfAddressRecords` | `DNSResolver` | the TTL of a CNAME shortens a result's life (`dns/dns.go:530`) |
| `RouterOpenWhileUsed` | `Manager` | `Close` closes the router under connections that `Stop` does not wait for (`service/service.go:183`) |

Also not true, and not stated in a module, is that replies of a UDP session go to where its last
accepted packet came from (`service/udp_session.go:264-291`, `udp_nat.go:234`): the caches are updated
before the control message is parsed. A packet whose message does not parse is dropped, but
a second one like it finds itself in the caches, is relayed, and the replies go to the place before.
`RepliesGoToTheClient` says what does hold: they go to the last place that was parsed.

The invariants of the runs are stated so that they hold beside these: a
panicked process stands still, `ForwardedOnce` excepts the eviction that
raced with the packet, `ClientBytesInOrder` names the filler of a timed-out wait and what a
CONNECT loses, and `LookupReturns` excepts a `Dial` that does not return.

## 4. What is proved

TLAPS checks the theorems below for every value of the constants that satisfies
the named assumptions of the modules (`FilterAssumption`, `CounterAssumption`,
`TimeAssumption`, `ClientAssumption`, `ServerAssumption`, `PoolAssumption`,
`HeadroomAssumption`, `RelayAssumption`, `MmsgAssumption`, `NATAssumption`,
`SettingsAssumption`, `TransparentAssumption`, `StreamAssumption`, `PathAssumption`,
`ResolverAssumption`, `RouterAssumption`). TLC evaluates
each of them in the run of its module. Most only type the constants. The relays
ask that the session objects of a behaviour are finitely many, because packets and
goroutines are counted over them; two assumptions that carry an argument
(`ClientAssumption`, `HeadroomAssumption`) are discussed below. `NatTimeout` in
`ServerAssumption` and `Retention` in `PoolAssumption` are the code's.

Each safety theorem follows from an invariant that every step preserves, stated
as a conjunction of named parts with one lemma per part or per action. Each of
these invariants was checked by TLC on the instance of its module before it was
proved.

### Replay protection: `ShadowsocksProofs`

* The filter (`WindowTypeCorrect`, `RingIsExact`, `NoCounterTwice`,
  `Refinement`): the ring is exact, no counter is accepted twice, and `ReplayFilter` is
  implemented, by `Add` as by `IsOk` with `MustAdd`, whose loops are proved apart. The inductive invariant is
  `Represents(filter, accepted, Counters)`: within the blocks from
  `Block(last) - RingBlocks + 1` to `Block(last)` the ring is exactly the set of
  accepted counters. It speaks of whole blocks and not of the window, because
  the bits after `last` in its block, and those before the window in the
  oldest block, become visible when the filter advances. It says nothing of
  the blocks ahead, which is why the partial `Reset` is right. The lemmas
  on the operators (slots are injective within a ring's length, `Advance` clears the
  blocks ahead and keeps those that remain, `SetBit` changes one counter) serve the
  two unpackers as well.
* The client's unpacker (`TypeCorrect`, `FiltersExact`, `ForgottenExpired`,
  `NoReplay`). A delivered packet is remembered by the current or the old
  filter, or its session was forgotten, and then its timestamp will have expired when
  a new session may be opened. This needs
  `Minute >= (MaxEpochDiff + 1) * Second`: 60 s against 31 s.
* The server's unpacker (`ServerForwardsOnce`). Besides types, that queued packets
  are the session's own (`OwnPackets`) and none is queued twice (`QueueDistinct`), two
  things are invariant. `RemembersLive`: the filter of a session that is
  open remembers what is queued or written, and what was forwarded and is
  still in date. `Guarded`: a forwarded packet that is in date keeps its session
  open, because the uplink has not yet extended the deadline for it, or because
  the deadline it set lies beyond the packet's date. The latter takes
  `NatTimeout >= 2 * MaxEpochDiff * Second` and that the packet was not stamped as far ahead as is
  accepted, or one more second of timeout. The proof shows that these packets, and
  those the eviction raced with, are the only exceptions. The theorem is about `ServerSpec`; a step of
  `SpecPackets` is one of `ServerNext` or leaves `serverVars` alone.
* The salt pool (`PoolTypeCorrect`, `RetentionKept`, `RequestsAcceptedOnceUnlessAhead`,
  `PoolIsCleaned`), for any number of handlers and the code's retention. A salt that is
  missing was added more than a retention ago, so a request that is in range again
  has a timestamp at least `MaxEpochDiff` ahead of the second in which it was first checked,
  but for the handler's delay.
  `PoolIsCleaned` is the action property `EntriesLeaveInTime`. It rests on
  `PoolRecent`: the last cleanup is not ahead of the clock, and no entry is more than
  a retention older than it.

### Packet buffers: `ShadowsocksProofs`

`InBounds`, `KeepsLimit`, `RefusedOnlyForSize` and `PeerUnpacks` for all protocols,
MTUs, addresses, paddings and payloads. The inductive invariant says where the
payload lies between `UnpackPacket` and `PackPacket`: `at` is the front room the relay
reserved plus the header that was taken off, and the room behind the payload
covers the tag of the other protocol. The relay reserves only the
difference between the headrooms of the two protocols, while the header that was
really taken off may be much shorter (no padding, a short address). That this
suffices is not true of arbitrary protocols: `HeadroomAssumption` asks `Follows`
of each pair, that one that reserves more for padding also has fixed headers at
least as long; and the packed address is no longer than the one that was read. The
program's protocols satisfy it, which TLC evaluates in the run `packets` with
their real lengths; a new protocol with long padding and short headers would not.

### The UDP relays: `UDPRelaysProofs`, `UDPTransparentRelayProofs`

For any number of clients, session objects and packets, any capacity of the
channels and any size of the vectors, and all four relays at once:
`RelaysTypeOK`, `EveryPacketAccountedFor`, `TableIsExact`,
`NothingUsedAfterRelease`, `StopWaitsForRelays` and `RepliesGoToTheClient`. That
`out` and `wg` are never negative (no packet is put back twice, `Done` never
panics) is a result and not an assumption of the invariant, whose `Types` has them
as integers. Its other parts:

| Part | What it says, and why it is needed |
|---|---|
| `Batches` | how far the receive loop and the uplinks are in their vectors |
| `Table` | the table and the sessions that can still take packets correspond |
| `Life` | for each session, which of its goroutines run, and what is then open: state, socket, channel |
| `GroupCounts` | the counter of the wait group is the number of goroutines that owe it a `Done` |
| `EveryPacketAccountedFor` | the packets out of the pool are those in channels, batches and hands |
| `Swept` | after `Stop` has gone through the table, a session still being set up finds its `state` set and does not begin to relay |
| `Replies` | the address and pktinfo stored for a session are those of its last packet that was parsed, and the caches differ from them only after one that was not |

`StopWaitsForRelays` takes `Life`, `GroupCounts` and `Swept` together: serverConn is
closed when the wait group has reached zero, so no goroutine that uses it is
left, and none starts, because the sweep was complete.
`UDPTransparentRelayProofs` (`NoPacketForgotten`, `OnlyLiveSessionsHold`,
`StopWaitsForRelays`) follows the same argument. There nothing but
`natConn` tells `Stop` that a session is being set up, so the invariant has that
it is set exactly when the uplink starts; `Stop` then panics, or finds every
session of the table relaying. `Vectors` says that the message vectors of the
reply sockets are empty whenever the buffers they point into are read into again.

Sums over the sessions are the community modules' `SumFunction`. `FiniteSums`
proves of it what the accounts need: the sum is a natural number, zero when
every term is, and changes by what one term changes.

### TCP path: `TCPPathProofs`, `ShadowStreamProofs`

A step of `SpecPath` is one of a part and leaves the others alone, so each part has an
inductive invariant of its own.

| Invariant | What it says, and why it is needed |
|---|---|
| `StreamIInv` | per direction, `out` followed by `buf` is the first `got` bytes, until an error; `buf` is empty when the loop is through; `Relay` returns without an error only when the reader has seen the end and `out` has everything; what is written at once is no longer than the writer takes |
| `TCPIInv` | per connection, what the remote end has is the client's bytes from the first that the handshake's reader did not keep, after exactly the zeroed buffer when the wait timed out and after nothing otherwise; the deadline is gone wherever the handler is past the wait |
| `CopyIInv` | `Read`: what was returned followed by what is left in the buffer is what was read. `Write` and `ReadFrom`: what was written followed by what the call still has is what was given to it |
| `ProcessIInv` | which services are new, started and stopped at each step of `main`, by the index its loops have reached |
| `HTTPIInv` | `Upwards`: the initial payload or what the remote end was sent, followed by what the pipe holds, is what was read from the client. `Downwards`: what the client got, followed by the response in the forwarder's and the relay's hands, is what was read from the remote end |

| `ShadowIInv` | the `IInv` of `ShadowStreamProofs`, for the connections the behaviour has; see below |

From them follow `PathContractsHold`, `PathBytesInOrder`, `ShadowStreamsAreFaithful`,
`RequestsAreAnsweredOnce` and `ServicesStopForGood`, the last a property of steps. `DirectionsArePipes` is the
refinement of `BytePipe` by each direction of `StreamRelay`: under `StreamIInv` a read,
and every step of the other direction, is a stutter, a write that takes bytes is `Deliver`,
and the end of the loop is `Complete` or `Fail`.
Bytes are numbers and the sequences of successive numbers have lemmas of their own; the
HTTP proxy's stream is a `FlattenSeq`, of which the proof needs only that it is a
sequence of pieces, and how beginnings of a sequence grow and split.

`ShadowStreamProofs` is about `ShadowStream` alone, for any set of connections, PSKs and
users, every length of addresses, initial payloads and padding, and any number of
faults; `TCPPathProofs` instantiates its lemmas for one and for two connections. Its
`IInv` has these parts:

| Part | What it says, and why it is needed |
|---|---|
| `Sealed` | the boxes of a stream alternate between one that announces a length and one that has it; the j-th is sealed with nonce j - 1 under the stream's own key, and has the bytes from `off[j - 1] + 1` to `off[j]`. The offsets are not in the model: the invariant says that there are some |
| `Carried` | an intact box on a path is a box of some stream in that direction, whatever happened to the path |
| `Received` | a reader that has a key is at the box of one stream that its nonce counts, and has returned the bytes up to there; a client's is the response to its own request |
| `Served` | every accepted salt is in the pool or among the forgotten ones, and one that is not forgotten belongs to one connection |
| `Excess` | the buffer the excess payload is written from fits a chunk, and the request went before |
| `Undisturbed` | as long as there was no fault, a path has exactly what was sealed and not yet read, and requests are accepted on their own connection |

A box that opens has the reader's key and nonce, so by `Carried` and `Sealed` it is the next
one of the stream the reader is in: no loss, repetition or swap can make it
another one, and a damaged box does not open. With `Undisturbed` the next box is
also the first on the path and has the announced length, so that nothing fails. That
lengths fit 16 bits and the variable-length header parses, for every padding that
`paddingPayloadLen` may draw, is the lemma `PaddedIs`.

### DNS resolver: `DNSResolverProofs`

For any number of concurrent lookups, names, settings, answers and repeated queries:

* `OneReplyEach`: a result that is cached or returned has exactly one reply to each
  of the two queries. `Replies` follows the result in the making: none, one or
  two replies taken (`Begun`, `Half`, `Complete`), and what the result is in each case.
* `ToldOnce`: no channel is signalled or closed twice, and a sender writes at most one query
  after its family was answered. `Channels`: the channels still open are those of
  the families not done, and a late write is its sender's last.
* `CacheFreshness`: a lookup answered from the cache returns no record beyond
  its TTL (an action property). `TTLs` and `CacheFresh` carry the bound
  from `minTTL` through the expiry of the result to the cache.

### Router: `RouterProofs`

For every configuration, request, set and answer of the resolvers and of the GeoIP
database: `FirstMatchingRoute`, `OutcomesHaveACause` and
`MatchNeverPanics`. The first half of the proof is about the operators: the
criteria a route is built with, seen as a set of groups of alternatives, are one
group for each kind of field that is given, and the verdict of each test stands for
what its field asks for, inversion, expected addresses and missing
resolvers included. The second half is the invariant: the routes are those of
the configuration (`Built`), the cursor is within them (`Cursor`), every route behind
it has a criterion none of whose alternatives is met, and of the current route
the criteria behind it are met and the alternatives behind it are not (`Trail`), and
a match ends where the cursor says (`Ending`).

### Only model-checked

Liveness (`StopReturns`, `SessionsLetGo`, `LookupReturns`, `ConnectionsEnd`, and that
a signal ends the process in `StopsForGood`): fairness is out of the prover's reach.

The induction rules of the prover's library take a predicate as a parameter, which
no backend can instantiate. The three inductions over data that the proofs need (sums over
finite sets, the selection `OfType` of a sequence of records, `FlattenSeq`) have the
predicate as a set, and rule out a least element of its complement.

The type invariants of `SlidingWindow`, `ShadowPacketClient` and `SaltPool`, and
`NoCounterTwice`, are proved and not in a run of their own: the first are part
of the other invariants, the last follows from the refinement.

## 5. Not modelled

* Domain sets (`domainset/`): three matchers of strings and regular
  expressions, read-only after they are built. What matters is agreement over
  all strings, which small sets of model values do not show and the package's
  tests and benchmarks do.
* Prefix sets (`prefixset/`): parsing of text in front of an external tree.
* The statistics the relays log.
* SOCKS5 handshakes (`socks5/`), the HTTP client's CONNECT (`http/client.go`),
  address encodings: sequential
  conversions of bytes, without state between calls; `TCPRelay` takes a
  handshake as succeeding or failing with any part of the stream read.
* The direct packers' cache of the last resolved domain, and their filter on
  source addresses.
* `DirectTwoWayRelay`, which hands two TCP connections to `io.Copy`.
* Sockets, socket options and control messages (`conn/`), utilities
  (`bytestrings/`, `logging/`, `magic/`, `maps/`, `mmap/`, `slices/`):
  system calls and helpers.
* Parsing of configuration and key material, ciphers, byte layouts, logging.

## 6. Plan

1. The domain sets' suffix trie as an operator over labels against its
   reference definition.
