# ndhc: a TLA+ verification project

ndhc is a DHCP client that runs as three processes.

| Process | Sources | Role |
|---|---|---|
| ndhc-master | `ndhc.c state.c arp.c dhcp.c options.c ifchange.c netlink.c rfkill.c leasefile.c duiaid.c` | event loop, DHCP state machine, ARP |
| ndhc-ifch | `ifchd.c ifchd-parse.rl ifset.c nl.c` | applies addresses, routes, MTU, host name and resolv.conf |
| ndhc-sockd | `sockd.c` | opens sockets, installs packet filters, passes descriptors back |

The loop (`do_ndhc_work`) reads one event per turn and calls `dhcp_handle`, a
coroutine, which uses the ARP operations. The master asks ifch to change the
interface and sockd for sockets, and blocks for each answer. Paths below are
relative to `src/src/` unless they name the repository's `README.md`.

## Modules

There are four specifications. Each looks at the same program from one side and
leaves to the others what its properties do not need.

| Specification | Question | Modules |
|---|---|---|
| `DhcpClient` | what the master does, in which order | `Arp`, `DhcpClient`, `LeaseSpec` (abstract), `DhcpClientMC` |
| `Timing` | when it does it, and what the messages say | `Options`, `DhcpMessage`, `Timing`, `TimingMC` |
| `NetConfig` | what becomes of the interface | `IfSet`, `Ifch`, `NetConfig`, `NetConfigMC` |
| `Processes` | how the processes start, call each other and end | `ClientId`, `Sockd`, `Processes`, `ProcessesMC` |

The theorems are in `ArpProofs`, `DhcpClientProofs`, `TimingProofs`,
`IdentifierProofs` and `ProcessesProofs`.

### DhcpClient

`Arp` holds the ARP state as a record and the operations of `arp.c` as operators
on it. `DhcpClient` is `state.c` under the loop of `ndhc.c`, with link, radio,
signals, `ifchange.c` and `leasefile.c`. `LeaseSpec` is about the address of the
interface: it is set only to one that was granted, once per grant, it stays when
the lease is given up, and only a deconfiguration removes it.

`line` is where the coroutine resumes (`DECONFIG` is the `scrReturn` at
state.c:690). `todo` holds the sections of the current call that have not run;
each section is one action, in source order. The environment moves only when
`todo = {}`, because the process is single-threaded. `cs` is `client_state_t`,
`arp` is `garp` and the fingerprint fields, `host` is the interface,
`cfg_packet` and the lease file, `link` and `sigs` are the outside world.
`host.refused` is history: a deconfiguration was refused and no address set
since. Such a refusal comes after ifch has deleted the addresses (ifset.c:590),
which `DeconfiguredIsBare` checks in `NetConfig`.
`goto reinit` keeps the timeout flag of the call, as in the code.

Abstractions: time is `phase` (T1, T2 and expiry passed) plus a free choice of
which set timers have come; -1 counts as come, as `wake <= nowts` does. A MAC
is the network its owner sits on. A send, an ifch command or a read may fail
when `Faults` allows it. Server and router addresses are never leasable
(`Addrs \cap Hosts = {}`). `LongAddrs` are the 15-character addresses that
`write_leasefile` refuses.

### Timing

`Options` reads and adds options byte by byte. `DhcpMessage` assembles requests
and validates frames, with and without the kernel's filter; a frame is a message
and the set of things wrong with its headers. `Timing` has the timers of
`state.c` and `arp.c` in ticks, and the sleep that `do_ndhc_work` computes.

One action is one turn of the loop (a timeout, a signal, a packet or an ARP
frame, then `dhcp_handle`, then the next sleep), and `Tick` lets time pass while
the loop sleeps. A turn takes no time. The carrier is always up, leases name no
router, and the background and abort options are off; `DhcpClient` has these.
`seen` is history for the properties: which messages differed from the reference
definitions, how a lease was tried to be prolonged, how long a conflict has
waited.

### NetConfig

`IfSet` is the rtnetlink half of ifch: one action per request, answers queued on
the command's socket, the kernel as operators on `kern`; any request can fail.
`Ifch` parses a datagram and executes it command by command. `NetConfig` adds
`ifchange.c`: which commands a bind sends, and what an answer does to
`cfg_packet`. The master may bind, deconfigure or ask for the carrier whenever
it is idle, which includes every order that `DhcpClient` produces.

Abstractions: commands are records; buffer limits are left out; all addresses
fit one datagram of a dump; the broadcast address is left out, because the
parser never marks it as present (ifchd-parse.rl:64).

### Processes

`ClientId` is `duiaid.c`: opening, creating and writing the identifier files are
steps of their own, for several instances on one state directory, each of which
can be killed anywhere and started again. `Sockd` gives the sockets that sockd
can produce and the requests it understands. `Processes` has the start-up of one
instance (the wait for rfkill, the forks, `daemon()`), its blocking calls, and
the two ways a process learns that another ended: SIGCHLD and a closed stream.
What ifch does for a request is in `Ifch`; here it answers yes or no. The places
where `dhcp_handle` itself ends the program are actions too: a bind that has
nothing to send (`BindNothing`), and no lease, a lost fingerprint and
quit-after-lease (`TurnExits`).

A file that exists can be opened for reading; a kill loses nothing that was
written (no power loss); an instance is started again after its old processes
are gone.

## Runs

| Run | Result | Shows |
|---|---|---|
| `link` | pass | after flaps, rfkill, notices and removal, the recorded MACs are those of the attached network; a check succeeds only there |
| `faults` | pass | with failing sends, ifch commands and reads: interface, cfg_packet, lease file and client agree; no work loses its timer; sockets match the lease; the inductive invariant; refinement of `LeaseSpec` |
| `signals` | pass | all signals and options, with conflicts: the last signal decides, sleep is complete, the DHCP socket is open only for a reason |
| `live` | pass | a lease is obtained again and again, an expired one given up, a network check ends |
| `timing` | pass | messages are readable and read as meant, only sound frames are acted on, a lease is held for its time and given up after attempts to renew and rebind, probes have time to be answered, conflicts are answered in time, the loop never spins |
| `netconfig` | pass | what ifch confirmed is on the interface, a deconfigured interface is bare, no stale route, resolv.conf has no server or domain of an old lease, every mask has its prefix length, every request is answered |
| `processes` | pass | an identifier in use never changes, nothing ends unprovoked or undecided, only a locked filter is relied on, calls return, the end of a child is noticed, no process is left behind |
| `moved` | violation | a flap while probing is not checked (README.md:80-82) |
| `resolv_conf` | violation | with a domain, resolv.conf has only the first name server (ndhc.8:93-94) |
| `reacquire` | violation | SIGUSR2, SIGUSR1 and the same lease end the process (ndhc.8:147-150) |
| `collision` | violation | a peer's answer to a probe is ignored (arp.c:682-686) |
| `filter` | violation | the defence filter drops conflicts on little-endian machines (sockd.c:391) |

What the passing runs do not say:

- `signals` has no faults and keeps the link up, since a signal read while the
  carrier is down is lost and a release whose packet cannot be sent is dropped.
- `signals` sends a signal only when the last one was read. Without that
  (`Bursts = TRUE`) `LastSignalWins` fails: a signalfd yields pending signals by
  number, while ndhc.8:141-142 has them processed in the order they are
  received.
- `link` has no faults. A ping that cannot be sent when the link returns ends in
  `IFUP_FAIL` and no check is begun, so that `FingerprintOfThisNetwork` fails.
- `link` has no repeated rfkill block (`rekill`), which clears the note that the
  carrier returned; `FingerprintOfThisNetwork` fails with it.
- `link`, `faults`, `signals` and `live` use `LittleEndian = FALSE`, so that
  conflicts are heard at all.
- `BoundIsConfigured` says that the interface is bare, not that it has the
  address, after a refused deconfiguration and a bind of the same address: the
  bind compares with `cfg_packet` and sends no address. It says nothing of the
  lease file for a 15-character address, which is not written.
- `EndsForAReason` is silent once `dhcp_handle` has decided to end the program.
- `RequestsReadable` takes a DHCPDECLINE as it is sent: its server identifier is
  wrong (see below).
- `AnswersHaveTime` is about the last probe, not about how many were sent.
- `ConfirmedIsApplied` leaves the address out after a refused deconfiguration,
  and allows other addresses that the kernel would not delete.
- `IdentifierStable` leaves out histories in which two instances were at the
  missing DUID file at once (`raced`).
- `GivenUpOnlyWhenOver` leaves out leases whose length in milliseconds does not
  fit 32 bits.
- `CallsReturn` and `ChildDeathNoticed` except a master that waits for the
  answer of a child that has ended: it waits for ever. For this reason, and
  because the wait for rfkill may be endless, `processes` does not check for
  deadlock.

### Bounds

`DhcpClient`: one or two addresses, two hosts, one or two networks.
`MaxRequests` is 5 in the code and 1 or 2 here, `MaxDiscovers` is 2 in the code
and 1 here, and `GwPings` is 6 in the code and 2 or 4 here. `Networks` is a
symmetry because networks are only compared for equality; it is not used with
liveness.

`timing`: a second is 3 ticks and a lease time has 26 values, so that the lease
of 9 seconds wraps (27) and the one of 8 does not (24); all pauses are a few
ticks and keep the order they have in the code where a property compares them.
The numbers of probing stand to each other as the defaults do: a wait of 1, 1 or
2 ticks between probes, 3 probes, and `AnnounceWait` of 2, which decides.
Requests use an option area of 40 bytes, where host names of 11 and 12 bytes
fill the last free byte and lack one. Replies use 40, 12 and 8 bytes. They
include a lease time split over two fields, a reply spread over all three
fields, a message meant for another client, and every single defect of a frame.
`MaxFailures` is one turn in which sending fails.

`netconfig`: four configurations, which between them change the address behind
the same router, change options of the same address, drop options, and name an
MTU that ifch rejects; at most one address left by another program; one address
that the kernel refuses to delete or to list. `PrefixOfEveryMask` covers all 33
masks.

`processes`: two instances, two random numbers, two disturbances (a kill, a
failed call, a signal to end). Two are needed for a crash of one instance during
the start of another, and for a child that ends while the master is told to.

### Fairness

`live`: the process runs, netlink is read, set times come, pings are repeated
after `ARP_RETRANS_DELAY`, probing ends after `ANNOUNCE_WAIT`, and a server that
answers is heard now and then. The first ones follow from the loop; the last is
an assumption on the network. This run has no faults.

`netconfig`: ifch runs and the kernel answers (weak fairness of `IfchStep` and
of the master taking its answer).

`processes`: every process runs (weak fairness of `MasterStep`, `IfchStep`,
`SockdStep`). A turn of the loop ends, and a pending signal and a closed stream
are reported in some turn (strong fairness of `TurnEnds`, `signal_dispatch`,
`StreamClosed`): epoll reports ready descriptors in rotation, so that none is
passed over for ever.

## Proofs

All theorems hold for every value of the constants that the named assumptions
allow.

`DhcpClientProofs` (from `ConstantsAssumption`): `Invariance` (`IInv`), and from
it `TypeCorrect`, `BoundConfigured`, `NeverSleepsAtWork`, `QuietWhenReleased`,
`WorkStaysScheduled`, `FilterMatchesLease` and `Refinement` (of `LeaseSpec`).
The safety properties speak of states between calls, so `IInv` extends them to
the middle of a call: events match the sections that read them (`EventMatches`),
nothing of an old network survives without a lease (`Fresh`), the probed address
is the requested one (`Probed`), the interface has what `cfg_packet` records in
every state, or nothing after a refused deconfiguration (`Configured`), and
`Awake`, `Scheduled` and `SocketMatchesLease`. There is one lemma per action, on
top of lemmas about where an action lands. `ArpProofs` has the lemmas on the ARP
operators.

`TimingProofs` (from `PausesAssumption`): `LoopNeverSpins`. `NoSpin` alone is
not inductive. `SpinInv` adds that after a turn without event and without sleep
the loop knows of it (`timeout = 0`), and that after two it sleeps. The argument
rests only on the failsafe of `do_ndhc_work` and on pauses having a length, not
on which timers are due.

`IdentifierProofs` (from `ClientIdAssumption` and `MeAssumption`):
`IdentifiersAreStable`. The invariant `StableInv` says, as long as no race
happened, that an identifier in use is the one in the files (`InTheFiles`), that
a file being made is part of no identifier and that only one instance makes the
DUID (`MadeOnce`), and that an IAID in memory is the one of its file
(`IaidKept`). An identifier could otherwise change through a file that is
truncated after another instance has read it.

`ProcessesProofs` (same assumptions): `QueuesHoldOne`, `FilterTrustJustified`
and `NothingEndsUnprovoked`, from the invariant `LifeInv` (`CallsInStep`). It
ties what is in the queues to what the master waits for: a request under way is
the master's (`RequestInStep`), an answer is of the kind that was asked for and
tells of a filter only when it is locked (`AnswerInStep`), and undisturbed
children live from their fork on, until the master decides to end
(`Undisturbed`). The types alone do not exclude a late answer to an earlier
request.

Only model-checked: all liveness properties (`live`, `RequestAnswered`,
`StartsAfterRfkill`, `CallsReturn`, `ChildDeathNoticed`, `NoOrphans`), which are
beyond the prover; the link properties, `LastSignalWins` and
`ListensForAReason`; all of `NetConfig`; and, of `Timing`, all but `NoSpin`,
since what the option parsers compute needs induction over their input.

## Behaviour worth knowing

The models reproduce these. Except where a run is named they are no property's
subject.

- The interface is deconfigured at a start without carrier (ndhc.c:477) and when
  the link returns under a lease without a router (state.c:687), and nowhere
  else. A lease that is released, expires, is refused by the server or lost to a
  conflict leaves its address on the interface until another one is bound,
  although ndhc.8:8-9 has ifchd informed when a lease is lost. `LeaseSpec`
  (`GiveUp`) has it so.
- A DHCPDECLINE names the declined address as its server: arp.c:692 passes it
  for the parameter `server` of `send_decline` (dhcp.c:498).
- With the default settings an address is bound after two probes:
  `ANNOUNCE_WAIT` (arp.c:509) is over before the third, while ndhc.8:109-113 has
  the client wait for the specified number, 3 by default.
- A lease above 4294967 s ends early, because its milliseconds wrap
  (state.c:139).
- A conflict soon after the last one is answered at once; README.md:61-62 speaks
  of a limit on the rate of defences.
- A conflict announcement that fails is not tried again.
- When the ACK of a renewal names another address, the probe's timer stays due
  in BOUND and only the failsafe paces the loop (`NoSpin`, `HeldNoLonger`).
- An option of four bytes that a reply repeats is joined to eight bytes and
  ignored.
- Without the kernel's filter, source port and fragments are not checked.
- An MTU that is sent outside the parser's grammar, or a domain without a name
  server, fails the bind.
- The resolv.conf writer cuts its stored lists at the commas, so that a later
  rewrite has only the first entry (run `resolv_conf`; `ResolvConfFollows`
  states what remains true).
- A changed address behind the same router loses the default route until the
  router changes (`RouteNeverStale` allows no route).
- A crash between creating and writing an identifier file leaves an empty file
  that is accepted from then on.
- Two instances that start together without a DUID can use different ones until
  they are started again.
- For ARP sockets, an attach of the filter that failed counts as one that
  succeeded (sockd.c:347, 413); `TrustedFilterIsLocked` is about the DHCP
  socket.
- An rfkill that is lifted before the start-up opens the device is not noticed
  until the next event.

## Not modelled

- Checksum arithmetic, generation of xids, the socket calls of unicast UDP:
  arithmetic and I/O behind one outcome each.
- Layout of netlink attributes, parsing of netlink notices: fixed encodings of
  a library.
- The instructions of the packet filters: each filter is what it passes.
- Failures while writing the lease file: logged and otherwise ignored.
- Command line and configuration files (`cfg.rl`), privilege separation,
  logging: generated code, library calls and text.

`PROJECT.json` gives the parts, the lines that each definition models, and the
hazards of the code with the properties that cover them.
