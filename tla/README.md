# A verification project for sv_compress_timing

The repository is the firmware of a measuring device: it sends IEC 61850-9-2
Sampled Values packets, compressed and not, from one Ethernet port of an XMOS
processor, receives them on the other, and measures how long encoding, sending
and decoding take. The program itself is small (`main.xc` and the `rapid61850`
encoder); most of what can go wrong lies in the Ethernet MAC it carries along
(`module_ethernet`, the `full` implementation), which is a program of a dozen
hardware threads that share memory without an operating system.

This directory holds TLA+ models of that code, TLC configurations that check
them and TLAPS proofs about them. `PROJECT.json` lists the runs, the source
lines of each definition (`map`), a deliberately broken variant of a definition
for each property (`mutants`), the hazards and the theorems.

Paths are relative to `src/`; `E/` stands for `module_ethernet/src/full/`.

Running things, here in `tla/`:

    tlasany MiiRxPool.tla
    tlc -workers 2 -config MCMiiRxPool.cfg MCMiiRxPool
    tlapm MiiRxPool_proofs.tla

## 1. Inventory

What is built is fixed by `main_sv_compress_timing/src/ethernet_conf.h` and the
Makefile: the full implementation, two ports, a high (`hp`) and a low (`lp`)
priority pool for each port and direction, rings of 6 packets for a client, a
timestamp ring of 7, 3 clients at most, hardware locks, no traffic shaper, and
(Makefile:19) `DISABLE_ETHERNET_PORT_FORWARDING`; line 20 holds the alternative
with forwarding. The application has one receive client and one transmit client.

| Component | State | Operations | What makes it correct |
|---|---|---|---|
| Packet memory pools, `E/mii_malloc.c` | rdptr, wrptr, rdptr_at_start, wrap pointer, a chain of `hdr->next` in a circular buffer | mii_reserve, mii_reserve_at_least, mii_commit (no lock), mii_get_next_buf, mii_get_my_next_buf, mii_update_my_rdptr, mii_free (under a lock) | No store reaches a queued packet; the pool never looks empty while it is not; a packet freed out of order is reclaimed later; readers never follow a pointer that is not there |
| MII threads, `E/mii_master.xc` | dptr, the packet at hand | mii_rx_pins (one word per 320 ns, whether or not there is room), mii_tx_pins | The wire cannot wait; the oldest packet first, high before low priority; each packet sent once |
| Filter, `E/mii_filter.xc` | none but the packet's | ethernet_filter | Writes filter_result before stage, before the memory is used again |
| Receive server, `E/ethernet_rx_server.xc` | link_status, custom_filter_mask, read pointers | process_received_frame, send_pkt_to_client, service_link_cmd, the server loop | Each holder of a packet uses it once, the last one frees it; every client learns of its packets |
| Receive client, `E/ethernet_rx_client.xc` | none; it is where it is in an exchange | safe_mac_rx and the like, send_cmd and the settings | The token protocol stays in step |
| Transmit server, `E/ethernet_tx_server.xc` | enabled, pendingCmd, locals | service of commands, get_packet_from_client, the timestamp loop, the link timer | Room in both ports or none; each packet goes to its ports once; each time goes to the client that waits for it |
| Transmit client, `E/ethernet_tx_client.xc` | none | mac_tx, mac_tx_timed, mac_tx_offset2, mac_get_macaddr | Calls return, with the packet's own time |
| Counts and rings, `E/mii_queue.c`, `E/mii_ts_queue.h` | transmit_count, ts queue | get_and_dec_transmit_count, set, add_ts_queue_entry, get_ts_queue_entry | One holder finds zero; no entry is overwritten |
| Link status, `E/link_status.c`, smi poll | status and a flag per port, no lock | ethernet_update_link_status, ethernet_link_status_notification | No change is lost |
| Server composition and memory, `E/ethernet_server_full.xc`, `mii_full.h` | the shared memory | starts the threads | Pools do not overlap |
| SV timing application, `main.xc` | ASDU, sv_mode, sv_mode_recv, buffer ring | sv_send_frame, sv_recv_and_process_packet | Sender and receiver agree whether a packet is compressed |
| SV compression, `rapid61850/compress.c` | previous values | svEncodePacket_compress, decode_int32_t, svDecodeDataset... | Decoding gives back the samples and their qualities |
| SV encoding and decoding, `rapid61850/sv*.c`, `encodePacket.c`, `decodePacket.c` | smpCnt, ASDU counter, buffers | sv_update, BER lengths | Lengths fit, counters wrap |
| GOOSE and data model, `rapid61850/gse*.c`, `ctypes.c`, `datatypes.c` | control blocks, the caller's buffers | coders of every type and structure, gseEncodePacket, gseDecode; the program sends no GOOSE | What is decoded is what was encoded; the lengths computed first are those written; a decoder stays in its packet |
| Lite Ethernet, `module_ethernet/src/lite` | two-bank buffer | not in this build | - |
| SMI, PHY, board support, locks, logging, random, OTP | - | pin level or support | - |

How they interact:

    wire -> mii_rx_pins -> receive pool -> filter -> receive server -> client
                               |                         |
                               +---- mii_tx_pins <-------+  (forwarding)
    client -> transmit server -> transmit pool -> mii_tx_pins -> wire
                  ^                                    |
                  +--------- timestamp ring <----------+

* Threads share the packets by pointer. mii_commit and the readers take no lock;
  mii_free does. The field `stage` (0 committed, 1 filtered or to be sent, 2
  sent) says whose turn it is.
* Servers and clients talk over channels: blocking rendezvous for words and
  transactions; single control tokens go into a buffer and are counted.
* `mac_set_custom_filter` and the like are commands on the channel on which
  packets are delivered.

The hard behaviours: lock-free publication next to locked frees; a producer that
compares against a pointer which moves; frees in any order, by several threads;
notifications that cross with commands; a server that waits without a timeout
for the client named in a packet; queues and rings at their limit, packet sizes
at the edge of a reservation; a sender and a receiver that must agree without a word about it; lengths
and differences at the boundaries of their coding. There is no crash recovery: nothing is persistent.

## 2. Plan

Most important first. The order also follows dependence: the abstract fifo shown
for the pools is what the later modules use for a pool.

1. **Pools**: `MiiMempool`, `MiiRxPool`, `MiiTxPool`, abstract `PacketFifo`. *Modelled,
   checked, safety proved, and that they implement PacketFifo.*
2. **Client link**: `RxClientLink`, abstract `RxMailbox`, `RxClientLinkStatus`. *Modelled,
   checked, safety proved, and that it implements RxMailbox.*
3. **Frame flow**: `FrameFlow`. *Modelled, checked, safety proved.*
4. **Transmit server**: `TxServer`. *Modelled, checked, safety proved*; StampIsAwaited and
   TimedOneAtATime when no timed packet goes to both ports.
5. **SV timing**: `SvSample`, `SvTiming`. *Modelled, checked, safety proved.*
6. **SV codec**: `SvPacket`, the bytes of a packet and the walk of the decoder. *Modelled,
   checked, safety proved*, all four invariants. One of them, DecodesAsModelled, is that SvTiming's view
   of a packet is right for every combination of encoder and decoder.
7. **Coders and GOOSE**: `Ber` (integers and lengths), `BasicTypes`, `IedData` (the structures),
   `GoosePacket`, `Goose` (both together). *Modelled, checked, safety proved*, all three invariants
   for every value, control block and byte in the buffers.
8. **Whole path**: the sender, its transmit pool, the cable, a receive pool and the client
   link composed, so that the losses SvTiming allows are those the MAC can cause.

Two abstract specifications, PacketFifo and RxMailbox, are stated. That pools and link
implement their safety part is proved; that they implement all of it, fairness included, is checked.

Each new module gets one run for what it promises; where an inductive invariant is
written, the type invariant becomes one of its conjuncts.

## 3. Modules and code

Definitions carry the names of the code where they can; `map` in PROJECT.json gives the
lines. Definitions under "Wrong versions", or whose comment begins "As ... would be if",
are what mutants put in place of the right ones; nothing else uses them.

### MiiMempool, MiiRxPool, MiiTxPool

`MiiMempool` is `mii_malloc.c`: `rdptr`, `wrptr`, `rdptr_at_start` and the words of the pool,
`mem`. The loads and stores whose order matters are separate actions: mii_commit is a
test (with the read of rdptr_at_start), the store of `hdr->next` and the store of `wrptr`;
mii_free is one step per branch of its loop and one per operand of the `||` at its end.
`fpc` not "idle" is the lock being held. What a packet contains is abstracted; since
any word of it may be mistaken for a next pointer if the chain goes wrong, data
words take values from `Junk`.

`MiiRxPool` adds mii_rx_pins (reserve, the unchecked first words, one guarded store per
word, end of frame, commit), the receive server's own read pointer, and frees in any
order. A dropped word (`dptr = rdptr`) is a stuttering step. `MiiTxPool` adds the transmit
server: `mii_reserve_at_least` with its arithmetic in bytes, the copy, and a commit
whose result nobody reads; packets are freed oldest first. No length is checked. `SentWords` is the
longest packet that fits its reservation, `LoneWords` the longest that is sent into an empty pool, where
it may be longer: so are the uncompressed Sampled Values packets (`WordsSent`).

`queued`, `unread` and `held` are history variables: no action reads them but to say which
packets there are to take and to free.

Abstractions: the two pools of a direction and the two ports are separate instances (a
frame that turns out to be of the other priority is `RxOtherPool`, a packet for the other
port `TxOtherPort`); a frame that the filter finds to be a runt or to have a wrong CRC is a
packet like others here, since it is committed and freed later, and one with the result None in FrameFlow; the stores to `rdptr`,
`rdptr_at_start` and `old_hdr->next` in one branch of mii_free are one step, so the
window between `mii_malloc.c:167` and `:174` is not explored (hazard list).

`PacketFifo` is what a pool promises: a fifo of packets unread, held or freed, with the
oldest freed ones reclaimed in the end. In a pool this fifo is nowhere; it is the packets of `queued`
in the order in which they lie behind rdptr (`Older`, `Place`, `FifoOf` in MiiMempool), and
`Fifo` in MiiRxPool and MiiTxPool adds who holds each.

### RxClientLink, RxClientLinkStatus

One client of the receive server: `link_status[i]` with its ring of `N` = NUM_MII_RX_BUF
pointers, `service_link_cmd` and `ethernet_unified_get_data`/`send_cmd` as the other
side. END tokens are counted in `ends`: the client cannot tell why one was sent. The
request byte and the command word are separate steps of the server because it blocks
between them; data and parameters are one rendezvous step of both sides. Only frames
that fit are put into the ring: a frame for a full ring is dropped and changes
nothing here. (`N` entries hold N-1 frames, whatever mac_set_queue_size asks for.)
`RxMailbox` is the promise: at most N-1 frames, each handed over once, in order, in the end. `Box` is
the ring from rdIndex to wrIndex, without the entry that the client has been given.

`RxClientLinkStatus` adds mac_request_status_packets and the changes of the links:
`LinkCheck` is the poll of the transmit server's thread (what it reads from the PHY is any value),
and the receive server reads a port's flag and sets it to 0 in two steps, as link_status.c has no
lock. A status packet carries the state of port 0 (a comment in the code says so).

### FrameFlow

A packet from the commit of mii_rx_pins to its free: the filter of each port, the
passes of the server over hp then lp pools, the clients' queues, and mii_tx_pins of
each port forwarding the oldest packet of the other port. `stage`, `result`
(filter_result), `forwarding` and `tcount` are the packet's fields; `result` starts with
an earlier packet's value, since the memory is used again without being cleared.
`GetAndDec` is get_and_dec_transmit_count, which is one step under its lock, with the free that
follows a zero. The code delivers to clients only what came from port 1
(`src_port`), and so does `Takers`.

Abstractions: pools are PacketFifos; the exchange with a client is one step
(RxClientLink); process_received_frame is one step although it sets `forwarding`
(`E/ethernet_rx_server.xc:336`) before the count (:345), because a transmit thread can count
only after sending the whole frame, 5 us at least; the transmit threads' own packets
are left out, so nothing of their own keeps them from forwarding. `Forwarding` is a
constant; the run sets it to TRUE, the build line with more holders.

### TxServer

The transmit server's loop (serve each client's pending command, then the
select, then the timestamp rings of both ports), its clients, and mii_tx_pins of both
ports. A request is a packet (timed or not, hp or lp, to port 0, 1 or both) or a call of
mac_get_macaddr. Each channel transaction is a step of both ends. The room
in a pool follows MiiTxPool only in part: an empty pool grants a reservation, one of `Depth`
packets refuses, between them either may happen. mii_tx_pins looks at hp and then lp in two
steps, and a packet may come between. The timestamp ring has its indices and its
missing check for room. Commit and the store of stage 1 are one step: between them
mii_tx_pins finds stage 0 and passes the packet by, just as before the commit.

### SvSample, SvTiming

`SvSample` is the view of a packet that the application level needs: for each of the
`NoASDU` samples whether its fields (svID, smpCnt, ...) are there, whether it is there in full or as a
difference, and what a decoder in either mode leaves of it. `SvTiming` is `main.xc` on top of
that: `SendFrame` is sv_send_frame with everything it calls (set_values, sv_update of the mode,
svEncodePacket when the last ASDU is filled, mac_tx_timed, the change of mode), `Receive`
is sv_recv_and_process_packet (decode in the receiver's mode, validate, change mode, clear). The
receiver starts with the exchange of the clock offset and the custom filter, and
packets that come earlier are lost. `net` is the way from mac_tx_timed to
safe_mac_rx_timed: it keeps the order, and `Lose` takes the oldest packet away. `lostOdd` and
`report` are history: the parity of the losses, and what the last validation said.

A value stands for the eight measurements of a sample. In the wrong mode a full dataset may
decode to anything, which is `Junk`. proxy_clear_decoded_values is part of Receive, so that `decoded` is clear
between packets. Times are left out, and the ring `delay_buffer`: an entry is
filled and used up before the next is taken.

### SvPacket

The bytes from the field `length` on, as svEncodePacket and svEncodePacket_compress write
them: the lengths computed beforehand, and the walk of svDecode and svDecode_compress over them,
one action per element (`Enter`, `TakeNumber`, `EnterASDU`, `LeaveASDU` are the cases of
svDecodeAPDU, `Field` is a turn of svDecodeASDU's loop). The decoders' recursive calls are their last
actions but for the bookkeeping of variables that die, so there is no stack. `Update` puts
one of the chosen samples after the other into the data buffers of the control block, and with the last one the
packet is encoded. These buffers are never cleared: with `left` they hold what the other encoder left there
when the program last used it. Either decoder then reads the packet (`read`); the
receive buffer behind it holds `filler`, since a decoder in the wrong mode may read on there. `ByteAt(p)` is what
it sees at p, `ContentsAt(p)` and `EndAt(p)` where the element at p has its contents and its end.

`Samples` are the measurements of a packet, to choose from; `SmpCnt` is the count of its first sample. `Flag` is the
bit of a byte that says that another one follows, 128 in the code, and all numbers hang on it: a byte is below
2 * Flag and a measurement has four bytes. TLC takes 64, so that its integers hold a measurement: then one has
28 bits, and a byte of the compressed form holds six of them. What matters is kept: a measurement is four
bytes in full, and up to five in the other form, of which the decoder takes four. Lengths, tags and
counts have their real size. The proofs are for 16, 32, 64 and 128. The program never sets a quality, so the one
sent is 0. What arrives need not be: ENCODE_CTYPE_QUALITY fills two of four bytes, and the other two are whatever
was in the buffer; `QualitiesDecode` says exactly when and what.

### Ber, BasicTypes, IedData

`Ber` has the byte order (netmemcpy), the integers of variable length
(ber_integer_length, ber_encode_integer, ber_decode_integer) and the length fields (encodeLength,
decodeLength, getLengthBytes) as operators on sequences of bytes: a number is its bytes in memory, the lowest
first. SvPacket and the modules below use it.

`BasicTypes` is the basic types with their two codings, BER with a tag (gseEncodeBasic.c,
gseDecodeBasic.c) and plain bytes (svEncodeBasic.c, svDecodeBasic.c). The generated functions for the
structures (gseEncode.c, gseDecode.c, svEncode.c, svDecode.c) differ only in the
structure they are for; `IedData` has one operator for each family and the table `Components` of
which structure has what, in place of some sixty functions. They call each other at most twice, a
dataset or a data object its parts and these the basic types: `ber_encode` calls `ber_encode_part`, which calls
BER_ENCODE, and `Encoded`, the body they share, takes what it calls as a parameter; the other families likewise. `InTurn`
is what all the decoders do: one component after the other, each where the one before said that it ended.
The state is one value on its way: into a
buffer full of `stale` bytes, then out of it over another value, `old`. The values, those they are decoded over
and the bytes in the buffer are constants (`Values`, `Targets`, `Stale`); `DataAssumption` says that they have the
sizes of their types, no more. `ArrivedByBER` and `ArrivedPlain` in
BasicTypes document what the coders do to a value:

* A BER QUALITY has two bytes, and the decoder leaves the upper half of what was there; a plain one
  gets in its upper half what was in the encoder's buffer.
* A TIMESTAMP is copied as it is and decoded turned round.
* An ENUM is encoded with the tag of an INTEGER and expected with that of an UNSIGNED; it is never decoded.
* A DBPOS is encoded with tag and length and decoded without them, so its lower half is lost.

Of these types the data model uses QUALITY and TIMESTAMP (in INC); ENUM and DBPOS are only in the library.

### GoosePacket, Goose

`GoosePacket` is gseEncodePacket and the way back: gse_sv_packet_filter, gseDecode and the loop of
gseDecodePDU, one action per tag. The packet carries no dataset (encoder and decoder of allData are empty in
this library). Two things the properties say of it are not what one would expect: `PacketLengths`, that every
length in a packet but two is right, and these two are too large by the length of the last element before
allData, which is counted twice, and by one; and `GooseDecodes`, that the walk ends on the last byte, the tag
of allData, whose length the decoder would read from behind the packet.

`Goose` puts it beside IedData: a behaviour is either a value on its way or a packet, and
`LengthsAnnounced` is about the lengths of both.

## 4. Runs

| Run | Module | Instance | What it asks |
|---|---|---|---|
| rx_pool | MCMiiRxPool | 10 words, headers in 8 places | IInv, no overwrite, nothing lost, mii_free ends, implements PacketFifo |
| tx_pool | MCMiiTxPool | 12 words, packets that leave a byte or are alone | the same, and a granted reservation is enough |
| tx_pool_exact_fit | MCMiiTxPool | 12 words, packets that fill the reservation | **violated**: the pool looks empty while it is not |
| rx_client_link | MCRxClientLink | ring of 4, 3 frames, 2 commands | tokens in step, exchanges end, implements RxMailbox |
| rx_client_link_status | RxClientLinkStatus | ring of 3, 1 frame | **violated**: a transfer begins with a token left over |
| frame_flow | FrameFlow | 2 packets, 2 clients, queues of 1 | no use after free, no leak, holders once, pools drain |
| tx_server | MCTxServer | 2 clients, 3 requests, Depth 2, ring 3 | IInv, times to whom they belong, order, rings, priorities, calls return, pools drain |
| sv_timing | MCSvTiming | 6 samples, 2 packets a second, 3 on their way | packets whole, modes and losses |
| sv_packet | MCSvPacket | 6 samples, differences around powers of two | lengths, differences, qualities, agreement with SvSample |
| goose | MCGoose | 22 values and more of each type, names of 0, 30 and 126 bytes | values arrive, lengths announced, the walk through a packet |
| sv_validation | MCSvTiming | the same as sv_timing | **violated**: a compressed packet fails the validation |
| tx_timed_broadcast | MCTxServer | 1 client, 1 request | **violated**: a second time nobody waits for |

**Bounds.** A pool's behaviour depends on the order of rdptr, wrptr, dptr and the two ends of
the buffer, and on whether a packet ends within MinUsage of the end. Ten words with
headers at least three apart hold up to three packets in addition to the one being written,
wrap at every place (exactly at the end, in the last MinUsage words, before them) and leave packets freed
out of order on both sides of the wrap. `Junk` is {-1}: the value that looks like a
packet already freed, the worst a word can be. In tx_pool a packet within its reservation has
up to two words of data and a packet alone up to seven, which wraps; that copy of seven words runs over a
queued packet when the pool is not empty. In the proofs all these are arbitrary.
In the link run the ring wraps, is full, and is limited by a queue size of 0, 1 and more
than N; two commands suffice for a second command to meet the tokens of the first. In
frame_flow two packets in any of four pools with every filter verdict give up to
three holders for a packet (two clients and the wire) and a full queue; packets of one pool
meet out of order frees. tx_server has each kind of request but the timed broadcast
(see the fourth finding); its ring has three entries, one more than the two that
RingHoldsSent allows, where the code has seven. In sv_timing the second ends at every other packet, so the sample count wraps in both
modes, and three packets on their way leave the modes of several to agree; in the proofs all of this is
arbitrary. In sv_packet a difference is 2^i - 1, 2^i, -2^i or -2^i - 1 for every third i, those where the number of
bytes changes (5, 11, 17, 23) among them, or 0, -1 or the largest or smallest measurement, in none, one, seven or all of the eight measurements, up to one of the last
three samples: each number of bytes occurs, the values at which another byte
begins, and the wrap of a sum (`MCSamples`); the sequence of ASDUs takes 192 to 352 bytes compressed, 255 and 256
among them, where a length takes three bytes instead of two, and 552 in full. In goose a type of
up to four bytes takes every value made of 0, 1, 127, 128 and 255, which is where a byte more or less
is needed for the sign, and the larger types and the structures 20 values whose parts have different lengths;
names of 0, 30 and 126 characters (at most 126, since their lengths are written in one byte) give packets
whose own length takes one, two and three bytes; what lies behind a packet is 0 or the tag
of an element the decoder knows. `MaxRequests`, `MaxPackets` and `MaxCommands`
bound how much is asked for, and nothing else.

**Deadlock** is checked in the pool runs, tx_server and sv_timing. It is off in
rx_client_link, where a client whose filter matches nothing waits for ever, in frame_flow, where
the burst of packets ends, and in sv_packet and goose, where the packet or the value does.

**Fairness.**
* Every actor is a hardware thread with its own share of the cycles, so it takes its next
  step: WF of mii_free (pools), of server and client (link), of server, filter and
  transmit (flow, transmit server).
* rx_client_link: WF of `Client` includes that an idle client takes a notification up; a
  client that never receives gets nothing. The client's commands and the arrival of
  frames have no fairness.
* frame_flow: SF of SendToClient(c): the receive server's select is `#pragma ordered` with
  the clients' channels ahead of the default branch, so a request that is there again
  and again is taken. It also assumes that clients ask, and that the transmit threads have
  time to forward.
* tx_server: SF of SelectCommand and SelectDefault. The link timer fires every 100 ms,
  so it cannot keep the others out; a client just served is not heard until the
  next pass without an event (`enabled`), which makes room for the other.
* Nothing is assumed of the wire or of callers: that more requests come is never assumed.

**What the violated runs show** (the quoted lines are in PROJECT.json):

1. *tx_pool_exact_fit.* `mii_reserve_at_least` grants a reservation that is exactly the free space, and
   a packet may fill it, as the reservation is in bytes and the packet is rounded up to
   words: hp packets of 297 to 300 bytes (348 bytes reserved, 87 words used), lp packets of 1517 and
   1518. Then wrptr meets rdptr with packets queued, which the comment at mii_commit rules
   out and its test (only for a wrap to the start) does not see. `PacketsFit` excludes them
   unless the pool is empty.
2. *rx_client_link_status.* A link change notifies a client without recording it in
   `notified`, so the next frame notifies again, and the extra token is taken for the answer
   to a later command. Only clients of mac_request_status_packets are exposed; this
   firmware has none.
3. *sv_validation.* The compressed encoder writes svID only into the first ASDU; the decoder
   means to remember it in `prev_svID`, but assigns a parameter passed by value, so the other five
   samples are never decoded and main.xc prints "validation failed" for every compressed packet.
   (The differences are also taken with the sign opposite to the one they are added with, which would show if the
   svID were kept.) DecodesAsModelled ties this to the bytes.
4. *tx_timed_broadcast.* mac_tx_timed to ETH_BROADCAST makes the server send a time for each port,
   though the client reads one: the server then waits for a client that is
   elsewhere. The documentation allows the broadcast; this firmware sends to one port.

Also worth knowing: an uncompressed SV packet of six ASDUs (589 bytes) exceeds the 300 bytes for
which an hp reservation is made and no length is checked. It fits because the firmware has one sender that
waits for the time of sending: the server frees a packet when it has told the time and before it takes the
next (TimedOneAtATime in tx_server), so the next is copied into an empty pool, and there it is neither
discarded nor copied over another (ReservationSuffices and NoOverwrite in tx_pool, with `LoneWords`). Nothing else
in the code keeps it so: another sender of such packets, or mac_tx in place of mac_tx_timed, would have to be checked against
the size of the pool.

## 5. Proofs

All for arbitrary constants, under the named assumptions in the modules.

**Pools** (`MiiMempool_proofs`, `MiiRxPool_proofs`, `MiiTxPool_proofs`). The properties are
statements about words, and what keeps them true is the shape of the chain, so the
inductive invariant is about that:

* `Chain(mem, queued, rdptr, wrptr)`: from rdptr, next pointers visit the queued
  packets in circular order and end at wrptr. For the receive pool the same of `unread`
  from the server's pointer.
* `StatusOK`: the mark of a header (negative next) against who holds the packet; `FreeOK`: where
  mii_free is; `ProducerOK`: where the producer may be, above all that dptr lies strictly
  between wrptr and rdptr along the circle, or has met rdptr; for the transmit pool also that
  the words left to copy fit before rdptr (`WordsAhead`). ReservedRoom and EmptyPoolRoom
  are why they do at first.
* `FlagOK`: rdptr_at_start says whether rdptr is at the start. Without it mii_commit's test
  means nothing.

NoOverwrite alone is not inductive: that the next store is harmless now does not say
that the one after it is. The lemmas ChainPop and ChainPush (a packet leaves, a packet
joins a chain), ChainFrame (stores outside the headers leave it) carry each
step; every action has a lemma of its own, and the THEOREMs are `Spec => []IInv`
and what follows from it. In the receive pool EmptyOnlyWhenDrained, NoOverwrite,
OldestIsInUse, AllReclaimed and ReaderNextPositive hold with no assumption about
frames; in the transmit pool the theorems assume `PacketsFit` (a packet leaves a byte of its reservation, or is
alone in a pool large enough for it), and the first finding
shows that they must.

RxPoolImplementsFifo and TxPoolImplementsFifo say that each step of a pool is one of PacketFifo's or changes
nothing there: the store of wrptr is Put, the step to the next packet is Take, a packet marked free is Release,
the move of rdptr is Reclaim. The order is a matter of counting: the place of a packet is the number of older ones,
different packets have different places (`Older` is a total order along the circle), and n
different numbers below n are all of them, so `FifoOf` is a sequence with each packet once. Chain says which
packet a step adds or removes: what it appends is younger than all others, what it removes the oldest, and then
each of the other packets keeps its place or moves up by one.

**Link** (`RxClientLink_proofs`). `TokensAgree` lists, for each pair of places of server and client,
how many tokens are under way, and `NotifiedOfQueue` that notified says that the ring is not
empty; together with the types they are inductive, and TransferInStep and
RequestIsAnswered follow, for every ring size and queue size and any number of commands.
LinkImplementsMailbox needs no more than IInv: ProcessFrame is Accept when the ring has room, SendFrame is
HandOver, and every other step leaves `Box` and `got`, which are all that the mailbox has.

**SV timing** (`SvTiming_proofs`). For PacketsWhole one must know that the two counters of
the sender are equal and that sampleCountMaster is at a packet's place in the second (`CountersAgree`),
and that the ASDUs filled so far are of the present cycle and mode with prev_dataset_values the last of them
(`PartWhole`). For ModesFollowLosses, which speaks of the oldest packet only, the modes have to alternate
along the whole of `net` up to the sender's (`ModesAlternate`): that is what a loss or a
reception hands on. PlainInStepPasses follows from PacketsWhole. The theorems hold of
any NoASDU, any rate, any samples, any losses.

**Frame flow** (`FrameFlow_proofs`). The properties ask the queues and the transmit threads who
holds a packet (`HeldBy`); the steps change one queue or one thread at a time. `IInv`
compares both with `todo`, the server's decision less those who have counted down:
`TodoIsHeld` (a packet is in the queue of each client in todo, once, and marked for forwarding or being
sent if and only if "port" is in it), `TodoIsCounted` (tcount is one less than their number; no holders left means
freed), `PooledUntilFreed`, `TodoIsFiltered`, `OncePooled` (a packet is at one place of one pool), and
`SendsForeign` for the two steps between the end of sending and the count, in which the mark is
cleared and the packet must still be the thread's. The lemmas SendersDiffer (two threads never
have the same packet), UseOnce (one holder counts down: the last one frees) and
UnfreedIsSuffix (mii_free takes only freed packets off the front) carry the steps. The five properties follow for any
number of clients, packets and any verdicts of the filter.

**Coders and GOOSE** (`Packets_proofs`), in four layers. They share the module with the Sampled Values packets
because both are built on the same lemmas about bytes, lengths, sums and parts that are joined.

* Integers and lengths. IntegerComesBack: the bytes ber_encode_integer leaves out are copies of the
  sign (SkippedIsPadding, which follows from where the loop of Shift stops), and they are what
  ber_decode_integer puts back; the lemma LeastNumber gives the place where it stops, NetmemcpyTwice that the
  order of the bytes is restored. LengthComesBack: the three forms of a length, up to 126, up to 255,
  up to 65535, are told apart by the first byte.
* The basic types. BERReturns and PlainReturns: for every value of every type, over any old value, with any bytes
  in the encoder's buffer and behind the element, the decoder leaves what ArrivedByBER and
  ArrivedPlain say. ElementInBuffer is what a decoder sees of an element (its tag, its length, its
  contents, wherever it lies); each type has a lemma that says what its Read makes of the contents.
* The structures. `Total`, FlattenSeq and InTurn are recursive over the components. The rules for such a recursion
  (TotalIs, JoinedIs) give their value at 0 and what one more component adds; what then holds of all of them is shown by the
  least number of components for which it would fail (LeastNumber), which needs no induction over data. InTurnReads is the
  heart: if each reader reads its own part, whatever is behind it, then readers in turn read the parts
  joined, and use all of them. StructureWritten and StructureRead apply it to one structure, PartWritten and PartRead to
  those with basic components, ValueWritten and ValueRead to all the others. For the lengths
  the readers are not the decoders but `Opened`, which takes the next element by the length it announces: OpenedElement
  is one, ElementsOpened a sequence of them, and PartFits and ValueFits say it of the structures. In the plain
  coding a part has no length of its own; SvLengths says that the offsets the encoder uses are where the parts before
  end, and BasicInBuffer what it finds there of the stale buffer.
* The packet. `Layout` says that for each field k the packet is a part before it, the field's element and a part
  behind it (`Front0` to `Front12` are the parts before), so `AtPlaces` can say which element the decoder meets at
  the place of each field, and ValuesFound what it makes of it. GooseDecodes speaks of the end of the walk only; the invariant
  `WalkInv` says where the decoder is: not yet inside, at the sequence, or at the place of a field k with
  just the fields before k found. A step at field k leads to field k + 1, and the last one
  to the tag of allData. WalkLengths compares the length that getGseHeaderLength computes
  with the lengths of the same parts.

`OnTheWay` puts the two together and is inductive: either a value is on its way, and what is coded is what the encoder
makes of it and what is out what the decoder makes of that (`DataInv`), or a packet is and WalkInv holds. The three
invariants of the run, DataDecodes, LengthsAnnounced and GooseDecodes, follow for all behaviours of Goose: ValuesArrive,
LengthsHold and GooseWalk. They hold for values of any bytes, names of up to 126 bytes, numbers and times of any
value, and any bytes in the buffers and behind the packet.

**Sampled Values packets** (`Packets_proofs`). The encoder computes every length before it writes, the decoder believes
each of them, so the argument is about where things lie.

* Numbers. ZigZagComesBack: the sign is moved to the lowest bit and back, for every measurement. GroupsRead: wherever
  the bytes of encode_uint32_t lie, decode_uint32_t steps over all of them, and gives back the number if it has
  at most MaxBytes of them. DifferenceBytes lie where FieldsAt finds them (FieldsRead), one after the other.
* Areas. AreasAre says what is in the area of a dataset after a sample was put there, over whatever was there before,
  and how much of it is sent; FullRead what decode_LE_IED_MUnn_PhsMeas1 makes of it, with the two bytes
  of a quality that were not written (`LeftIn`).
* Layout. `Laid(s, q)`: ASDU k of the packet begins at s[k] and ends at s[k + 1], and each has its fields and its
  data where it should (`ASDULaid`, `HeaderLaid`, `DataLaid`); s ends with the packet. PacketLaid gives it for what
  svEncodePacket writes: HeadingAt is an element whose length was computed, SeqLengthIs the sum over the ASDUs, which is less
  than 65536 with up to 127 of them, JoinedIs and LiesJoined cut the joined ASDUs apart again.
* The walk. `SvInv` says of every state that either the samples are being put into their areas (`Filling`) or the
  packet is laid out and the decoder stands at the beginning, in or behind a certain ASDU (`Decoding`), with
  just the ASDUs before decoded (`Got(n)`): of each that has a header and is read as the sample
  in full that it is, the sample and its qualities; of one without a header, nothing. LengthsAgree alone would not be inductive:
  that the decoder is at a good tag now does not say that the next length leads to another.

Each action has a lemma of its own; PacketDecoded is `SvSpec => []SvInv`, and the four invariants follow from it. They
hold for any number of samples up to 127 (beyond, BER gives the count a second byte, and the decoder, as its comment
says, reads one), for any measurements of 20, 24 and 28 bits (Flag 16, 32 and 64) and of the code's 32 (Flag 128), for all
four combinations of encoder and decoder, and whatever was left in the areas.

**Transmit server** (`TxServer_proofs`). What orders everything is the number of a client's call:
`PoolsInOrder` (in a pool it rises, and only the head can be a packet already sent, a timed one),
`CommitsNewest` (the packet in the server's hand is newer than what its client has in a pool or
on the wire, but for its own copy at the port before), `WireIsOlder` and `AllIssued`; SentOnceInOrder is what
they say of a head. `RingOfHeads` says that a ring has no entry, one or two, at most one for each
priority, and which heads they are; with `NextEntry` coming round after at least three (TxAssumption: the ring is larger
than the number of priorities) RingHoldsSent follows. `OvertakenIsNext` says where the
thread is once a packet was overtaken. IInv is all of these with the types; it needs no assumption about requests.
StampIsAwaited and TimedOneAtATime do: with `NoTimedBroadcast`, that no request for a time is to both ports,
`TimedInv` adds that the client of a timed packet waits while the server commits it (`CommitAwaited`) and that a timed packet
is in one place of one pool (`TimedOncePooled`). tx_timed_broadcast shows that the assumption is needed.

Some facts are theorems whose property no run lists, because they follow from an IInv that the run does list:
OldestIsInUse and RxReaderNextPositive of the receive pool, TxHeadIsLinked and TxAllReclaimed of the transmit pool,
LinkRequestIsAnswered of the link and TimingPlainInStepPasses. TimedInv is not listed either:
it is IInv with TimedOneAtATime, which tx_server checks, and two conjuncts that only its proof needs. BERReturns and
PlainReturns are what DataDecodes says of values of a basic type, for buffers of any length.

**Not proved, checked by TLC only**: all liveness (FreeTerminates, ExchangeEnds, EverythingReclaimed,
CallsReturn, PoolsDrain, and the fairness of PacketFifo and RxMailbox) and anything about ENABLED,
which the prover does not do. Every invariant and every action property of a run that passes is a theorem.

## 6. Not modelled

* The contents of packets: CRC, address and ethertype tests of the filter (any verdict is
  possible in FrameFlow); the Ethernet and VLAN header of Sampled Values packets.
* Timing: the interframe gap, timestamps as numbers, the assembly loops of mii_rx_pins and
  mii_tx_pins. Two hazards rest on timing bounds the code states as xta annotations.
* An unknown destination port (the transmit server drops such a packet; a timed client waits for
  ever); the callers here pass 0 or 1.
* AVB router and traffic shaper code (`#if`s off in this build), SMI and PHY pins, board support,
  logging, OTP.
* What the program measures: sv_timing's times, the plots, the ring of receive buffers; the packets of the
  control block MSVCB02, which it does not use (the coder of its dataset is in IedData).
* Of the coders: the strings of 255 bytes (VISSTRING255), and the variants behind
  GOOSE_FIXED_SIZE and TIMESTAMP_SUPPORTED, which are not compiled here; names of more than 126 bytes.
* The lite implementation, which is not part of this build.
