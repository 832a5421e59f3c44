# gg-singbox in TLA+

`gg command` runs a program under ptrace, rewrites the addresses it connects
to, and relays its traffic through a proxy node. This directory models the
parts of gg in which that can go wrong: the maps that connect a rewritten
address with the original one, the table of UDP associations, the relaying of
TCP connections, the ptrace loop, the start and end of a run, the choice and
saving of the node, and the lookup of a datagram's MTU. Paths below are relative
to `src/`.

## 1. The system

| Component | State | Operations | Interacts with |
|---|---|---|---|
| Address mappers, `proxy/ip_mapper.go` | `mapper`, `revMapper`, `lastAlloc` | `Alloc`, `Get` | called by the tracer (`AllocProjection`, `GetProjection`) and by the proxy's handlers, under `Proxy.mutex` |
| Real IP mapper, `proxy/real_ip_mapper.go` | fake IP -> real IP | `Set`, `Get` | set after a hijacked A query, read by the tracer for ICMP |
| Proxy handlers, `proxy/tcp.go`, `proxy/udp.go` | none of their own | `handleTCP`, `handleUDP`, `hijackDNS`, `forwardDNSMessage` | one goroutine per connection or datagram; dial through the node |
| TCP relay, `proxy/tcp.go` | two copies in progress, and their buffer | `RelayTCP` | a goroutine per direction; the program's connection and the node's |
| UDP associations, `proxy/udp_conn.go`, `proxy/udp.go` | client -> placeholder or socket | `GetOrBuildUDPConn`, `Insert`, `Remove`, `relayUDP` | shared by all datagram goroutines and one relay goroutine per socket |
| Listeners, `proxy/proxy.go` | the listeners | `ListenAndServe`, `ListenTCP`, `ListenUDP`, `TCPPort`, `UDPPort`, `Close` | started by the tracer; `Close` is deferred by `ListenAndServe` alone, which returns only when listening fails |
| Tracer, `tracer/` | socket metadata and saved arguments per thread id | one entry and one exit stop per system call, thread exits | the kernel, the traced program, the mappers |
| Redirection policy, `tracer/stop_handler.go` | none | `checkSocket`, `network`, `handleINet4`, `handleINet6` | called at entry stops |
| Life of a run, `tracer/tracer.go` `New`, `Wait`, `cmd/cmd.go` `Run` | `closed`, `exitErr`, `exitCode`, the context | listen, start, trace, wait, cancel, exit | the goroutines that listen, trace and wait for signals, the caller, the program |
| Node choice, `cmd/dialer.go`, `cmd/cmd.go` | the configuration file | `GetDialer`, `cacheSubscriptionNode`, saving in `Run` | other invocations of gg, through the file |
| Configuration, `cmd/config.go`, `config/` | the same file | `getConfig`, `WriteConfig`, `gg config` | the above |
| Node tests, `cmd/dialer.go`, `dialer/dialer.go` | a semaphore and a result channel | `firstAvailableDialer`, `testLatencies`, `ContextDialer` | goroutine per node |
| MTU lookup, `infra/` | a trie built once from the interfaces | `New`, `Match`, `GetMTU` | `relayUDP` sizes its buffer with it |
| Subscriptions, `cmd/subscription.go` | none | three formats tried in order | node choice |
| Outbounds, `dialer/singbox/` | none | share link -> sing-box options | dials |

What is hard about it: threads of the traced program whose calls overlap
between two stops; sockets shared by threads or inherited; goroutines that dial
or wait between two critical sections; two goroutines that store a result without a
lock and close the same channel; connections in transit when gg ends; addresses that live on in the program
long after they were handed out; pools that wrap; a configuration file that
several runs read and write. `PROJECT.json` lists these hazards at their lines.

What each part owes the rest:

* mappers: an address reads back as the target it was given for, and a target
  keeps its address;
* projection: a flow reaches what the program asked for, whatever other flows
  do between the rewriting and the arrival at the proxy;
* relay: each direction arrives whole and in order, and its end is passed on;
* life of a run: gg ends when the process it started has, with the status of that
  process, and ends in no ordinary way while that process still runs. (What the
  process has forked is traced with it but may outlive it and gg: section 5.)
* associations: one socket per client, not leaked, not closed under its reader,
  nobody waits for ever;
* tracer: it knows what each descriptor is, and pairs a result with the
  arguments of the same call;
* policy: TCP does not go out directly, DNS is hijacked, what is excluded is
  left alone, an address that was already rewritten is not spoiled;
* configuration: what is used for one run only does not become what later runs
  read, and a choice that is to be kept is kept;
* MTU lookup: the answer is that of the longest network around the address.

## 2. The modules

`AddressDirectory` is the abstract promise of the mappers: entries are added,
never changed, and no two share an address. `IPMapper` is the code: the two Go
types are one algorithm over two pools, so they are one module with the pool
(`Last`, `Start`) as parameters. `Alloc` is split into the case of a known and
of a new target; an address is its offset in the prefix.

`Projection` composes two instances of `IPMapper` with the real-IP map and the
handlers. A flow is a record that goes from `sent` (the tracer has projected
its target: `SendToIP`, `SendToDomain`, `SendICMP`) to `relayed`, `answered` or
`dropped` (`HandleTCP`, `HijackDNS`, `RelayUDP`, ...). A handler call is one
step because it holds the mutex for its map accesses and does nothing else that
others see, except that the A query waits for the real server: `HijackDNS`
ends in `forwarding`, and `RestoreRealIP`, `AnswerWithoutRealIP` and
`PassOnEmptyAnswer` are its possible continuations. Flows go to an address or to a name
and DNS queries go to an address (`AddrTargets`), which is also what the pool of
the mapper has to hold. The source address of a
datagram is the kernel's choice (`SourceIP`, external). `Handle` is all that a
flow's goroutine does without waiting for anybody; the answer of a DNS server is
not part of it, because `forwardDNSMessage` reads it without a deadline.

`TCPRelay` is one connection: the two ends send, shut or reset their streams
(`Send`, `Shut`, `Reset`), `handleTCP` dials (`DialSucceeds`, `HandlerFails`),
and each direction has a copier that reads a chunk into a buffer, writes it
(`Read`, `Write`) and ends (`EndOfFile`, `CopyFails`), followed by `CloseWrite`,
which the node's connection may lack. `RelayTCP` gives both copies one buffer;
neither uses it, because the program's side is a `*net.TCPConn`,
which copies for itself in either role, so `Slot(d)` is a buffer for each
direction, and its faulty variant is the shared one. `Cut` is the end of gg.

`Lifecycle` extends `TCPRelay` with the run around it: the goroutine that
listens (`ListenTCP`, `ListenUDP`, `ServeFails`), the one that starts and traces
the program (`StartProcess` to `TraceCloses`), the caller (`Wake`, `NewReturns`,
`WaitReturns`), signals, and the program. The program is two processes: the one
gg starts (`program`) and one that it forks (`child`), which the options of
ptrace make the tracer follow (`Fork`). Either connects, sends and ends, and a
socket stays open while the other has it (`Leaves`); `trace()` returns for the
started process alone (`SeeExit`, `ChildEnds`), and `Kill` kills no other. A signal
lets the started process go first if it is stopped at that moment
(`PtraceDetach`, program `"detached"`), and `Kill` still ends it. The
goroutine of `trace()` is locked to its thread, which ends with it, and the kernel
lets the tracees of a thread that ended run on (`Resumed`). The
variables that Go shares without a lock (`exitErr`, `exitCode`) are read and
written in the order of the code, `done` being closed before `exitErr` is set.
The panics are actions of their own: a channel closed twice (`ClosesTwice`), a
port asked of a missing listener (`NoPort`), a failed `Accept` whose connection
is handled all the same (`AcceptsNil`). After a panic the model stops
(`Stopped`). A status of -1 stands for a program killed by a signal, of which
`WaitStatus.ExitStatus` knows no code, so that gg exits with 255. The program
is traced (`Traced`) only while the loop runs; what the loop does with a call is
`Tracer`. `Scenario` in `MCLifecycle` only leaves steps out that no fairness asks
for.

`UDPSession` is the abstract promise of the association table, a session per
client that is claimed, opened and ended. `UDPNat` is the code: a critical
section of `UDPConnMapping` is one action, everything between two of them is a
separate action (`DialFails`, `DialSucceeds`, `Retry`, `Countdown`, `Send`,
`RelayEnds`). A datagram's goroutine, its placeholder, its socket and its relay
carry the datagram's name. `RemoveAndSet` is `Remove` followed by `Insert` under
one lock, with what `Remove` does to the old entry: close its channel if it is
open, else close its socket, which for a placeholder is nil (`crashed`).

`Redirect` is the policy as pure operators over classes of addresses (public,
private, loopback, reserved). `Tracer` extends it with the state: the kernel's
side (`table`, `fds`, `call`, `buf`) is the truth, the tracer's side
(`socketInfo`, `storehouse`) what it believes. A call is three steps, `Enter*`,
`Execute*` (the kernel) and `Exit*`, and other threads run in between. A failed
call may return ENOSYS, which `isEntryStop` takes for an entry: `ExitAsEntry`.
The descriptors `Std` stand for 0, 1 and 2, recorded as local sockets at a
thread's first stop. `open.owner` is a history variable: the thread
through whose calls alone the tracer could know the descriptor. A standard
descriptor has none (`Own`): once a thread has closed 0, the tracer records 0, 1
and 2 as no sockets at its next stop (`tracer/tracer.go:149`), whatever the
thread has opened at 1 or 2 by then. The instance in
`MCTracer` is two in one, told apart by the options chosen in `Init`: threads
that share and copy descriptors and never connect, and a single thread with
many kinds of sockets and addresses. `Scenario` only leaves steps out; no
thread starts before the first call, among the threads only `Main` makes the calls
that the tracer does not follow, `dup2` and `fcntl` without a copy, and the first
socket is a TCP one, which without addresses is a matter of its name.

`NodeConfig` is an invocation of gg from reading the file to using a node:
`Load` (with the flags applied), one action per way to a node (`UseNode`,
`UseLastNode`, `Pull`, `EnterLink`), `CacheSubscriptionNode`, `AutoSave`, and
`gg config` as `Edit`. Each write of the file is two steps, `OpenFile`, which
truncates it, and `WriteFile`; several invocations interleave and `Kill` may end
one anywhere. viper's settings are a record of the five keys that take
part in the choice and one option (`noUDP`). `granted` and `alone` are history
variables. Writes do not fail, the fallback paths of the file and a user who writes
the marker `__select__` by hand are left out. The file (`Files`) holds two things, the
tables that `AllSettings` makes of the settings, with whatever the flags put into
them, and the flat keys `subscription.link` and `subscription.select` that `Run`
adds beside them (`cmd/cmd.go:125-131`). So the marker of `-s` and `--select` does
get into the file (`Settled`); viper finds a flat key before the entry of a table
(`Lookup`), and whoever writes next writes tables only, with the values it found
(`Plain`). `noUDP` stands for the three options that are bound to flags in the
same way (`cmd/config.go:186-188`), and switching one off by its flag is left
out.

`NodeTests` is `firstAvailableDialer` and `testLatencies`: one goroutine per
node that waits for a slot, tests, and reports. The cancellation, `Cancel`, and
the sending, `Send`, are two steps, as are the answer to a request and what is
done about it. A goroutine gives its slot back as it reports.

`MTUTrie` is the trie of one address family (the two families differ in the
length of an address) and the walk of `Match` through it. A node is the string
of bits that leads to it, and `Reached` says where the contracted edges of
`makeJump` lead. Only addresses of full length are looked up, as `GetMTU` does;
for a string shorter than the entries `Match` would go wrong, and nobody asks
it. A missing trie answers like one over no networks.

Definitions called "Faulty variant" are not part of any specification. Each
differs from the definition after it by one plausible mistake and shows, put
in its place, that a property can fail.

## 3. The runs

| Run | Instance | Shows |
|---|---|---|
| `mapper_wraps` | 5 targets, 2 addresses | the allocator wraps twice: `ForwardInverse`, `StickyProjection` hold all the same |
| `projection` | 2 flows, 1 IP, 2 domains, pools that fit | TCP and restored ICMP reach what was wanted, told addresses stay true, both mappers implement the directory, a flow is handled while others wait for DNS servers that never answer |
| `projection_udp` | 2 IPs | expected violation, see section 6 |
| `udp_nat` | 2 clients, 3 datagrams | safety and liveness of the associations, refinement of `UDPSession` |
| `tracer` | 2 threads, 3 descriptors, 4 calls; and 1 thread, 4 kinds of sockets, 6 addresses, 4 calls | what the tracer knows about descriptors, and to which address a flow leaves |
| `tracer_threads` | 2 threads | expected violation, see section 6 |
| `node_config` | 2 invocations, 2 nodes, 1 subscription | later runs read no node, subscription or option of a one-shot run in the file (its last node apart), and no marker; an undisturbed run's choice is there |
| `node_config_nocache` | the same | expected violation, see section 6 |
| `node_tests` | 4 nodes, 2 slots | no send blocks, no working node is overlooked, every node is measured once, both functions return |
| `gg_run` | 1 connection, 2 chunks each way, 2 processes | streams arrive whole and in order, their end is passed on, gg ends when the process it started has, with its status, and does not leave that process running |
| `gg_flush` | 1 connection, 2 chunks each way | expected violation, see section 6 |
| `mtu_lookup` | all sets of up to 3 networks of 4 bits, all addresses | `GetMTU` answers for the longest network |

Bounds. Two flows are enough for one to allocate between the steps of another;
with two domains an A query can overtake another. Three datagrams: one builds,
one waits on its placeholder, and one comes after the relay took the session
down. Four calls of two threads let a socket be made, copied, closed by one
thread while the other is between its stops, and the number be reused. Four
calls on one thread: two sockets, and the same buffer used on both or twice.
Two invocations: one that is killed, or writes, between two steps of the other.
Runs and nodes of `NodeConfig` are symmetric. Four nodes over two slots: two
pass at the same time while the others wait for their slots, which is the only
way the result channel could overflow. One connection: connections share
nothing in the proxy. Two chunks each way let a buffer be overwritten, a chunk be
lost, repeated or overtaken, and an end of stream come before, between or after
them; the proofs are for any number. In `gg_run` a direction carries its second
chunk only if nothing is forked, and the connection is made when gg listens on
both protocols. One forked process is enough for one that outlives the other,
either way round. Three networks of four bits: one within another within a third, or a
fork, with chains of every kind between them. `MaxCalls`, `MaxChunks` and
`MaxNetworks` are the only counter bounds. The runs of `Tracer`, `UDPNat`,
`NodeConfig`, `NodeTests`, `Lifecycle` and `MTUTrie` end in states without a step
and do not check deadlock (that nobody is stuck is `DatagramHandled`, `Returns`,
`RunEnds`).

Fairness (`UDPNat!Fairness`). The Go scheduler runs every runnable goroutine
and a dial returns, so each goroutine's next step is weakly fair. Nothing makes
datagrams arrive or a relay's read loop end, and these actions have none.
`SocketClosed` says what happens after a relay has ended, not that it ends.
`NodeTests!FairSpec` has weak fairness for each node's goroutine and for the
caller: a request ends after 15 seconds at the latest (`dialer/dialer.go:64`).
Weak fairness is enough for those who wait for a slot because every goroutine
takes one at most once. `Projection!Fairness` is for each flow's goroutine, and
nothing makes a DNS server answer. `Lifecycle!Fairness` is for the tracing
goroutine, the caller and the handler with its copiers; a dial returns.
Program, network, signals and listeners do what they like. `Wait4` returns for
certain only when the started process has ended, so `SeeCancel` is fair only from
then on: a program that ignores a signal sent to gg keeps gg waiting.

## 4. The proofs

`IPMapper_proofs`, for every pool and every set of targets:

* `TypeCorrect`, `NeverMisreports`, `Sticky` need no assumption about the size:
  `ForwardInverse` is inductive with the types, because a wrapped allocation
  overwrites `mapper` at the very address it enters into `revMapper`;
* `ProjectionInvertible` and `Implements` assume `Fits`, that there are no more
  targets than addresses. The strengthening is that the addresses handed out
  are exactly `1..k` for the `k` targets seen, which gives that the next one is
  free as long as a target is left; the argument is one of cardinality.

`UDPNat_proofs`, for any number of clients and datagrams: `TableAgrees` is the
inductive invariant, a conjunction of who holds which entry (`HoldersHoldEntry`,
`EntriesHaveHolder`), the order of a datagram's phases (`LifeCycle`) and what a
pointer taken out of the table still says (`PointersKeepClient`). None of the
safety properties is inductive alone: `RelayKeepsSocket`, say, needs that the
entry a goroutine removes is its own, and that needs that whoever builds has
its placeholder there. `SingleFlight`, `SocketsAreOwned`, `RelaysKeepSockets`,
`WaitersAreWoken` and `DatagramsKeepApart` follow from it, each of one property.
`TableImplementsSessions` is the refinement: every critical section is a step
of `UDPSession` or changes no session. It needs the invariant too, because a
`Remove` that took another's entry would end a session that was never opened.

`Projection_proofs`, for any flows, addresses and names. Every step of a flow is
a step of either mapper or leaves it alone, so what holds of `IPMapper` holds
of both (the module takes `IPMapper_proofs` twice, as an instance). `TypeCorrect`
is unconditional; the rest assumes `PoolsFit`, no more targets than addresses in
either pool, which `MCProjection_fits` satisfies with nothing to spare.
`ConnectionsReachWanted` and `AnswersRemainTrue` then rest on entries that are
never changed: the projection in a flow on its way reads back as what it wanted,
and the fake IP in an answer, or in a query that waits for a DNS server, is
still its domain's. `PingsReachTheName` adds that a real IP is only noted under
the fake IP of its own domain. `Directories` is the refinement of
`AddressDirectory` by both mappers at once.

`Tracer_proofs`, for any threads, descriptors, sockets, addresses and options and
any number of calls. `IInv` is one predicate per thread (`ThreadInv`), beside
the types and `OwnersLive`, and it is kept because another thread's step can
only take a descriptor away from its owner, never give one. Its parts: what the
tracer has noted of a descriptor the thread owns is what is open there, or the
call under way will see to it (`Tracked`); the arguments saved at the entry stop
are those of the call until its exit stop (`ArgsSaved`); an address in the
program's buffer is one it meant or one the tracer put there for it
(`BufferOK`); a connect on a socket of the thread's own has its address poked
for that very socket before the kernel looks at it (`PokedInTime`); and what is
on its way is addressed as the policy wants (`ArrivedWell`). `SocketsAreKnown`,
`ArgumentsMatch`, `FlowsAreNamed`, `TCPIsRedirected` and `DNSIsRedirected` follow.
The last three are about sockets of a thread's own above the standard descriptors,
and about buffers that no raw socket was given. `FlowsAreNamed` says which
address a flow leaves to: one that stands for the target the program meant
(`Redirect!Named`). Where it arrives from there is `Projection`'s: TCP at that
target, UDP not (section 6), a hijacked DNS query at a fixed server.

`NodeConfig_proofs`, for any number of invocations, nodes and subscriptions:
`OneShotNeverKept` and `MarkerNeverRead`. What is read in the file was in
somebody's memory before, so the strengthening says the same of every pending
write (`out`), and of the loaded settings except for what a flag put into them;
it is `Settled` that must hide the marker by a flat key, and
`CacheSubscriptionNode` that must not start from the loaded settings. `ChoiceIsKept` adds `RunInv`: when a run
uses its node, undisturbed and with flags that are to be saved, what it settled
on is still in the file, because its last write was of just that and all other
runs had finished before it began.

`NodeTests_proofs`, for any number of nodes and slots: `RoomForEveryPass`,
`NoneOverlooked`, `AllMeasured`. The first is a matter of counting: the nodes
that are in a request that may still pass, have passed, or have reported are
never more than the slots, because before the cancellation they all hold a
slot, and after it nobody joins them (`Counted`). That whoever was called off
has a sender to thank for it (`CancelledBySender`) gives the second.

`Lifecycle_proofs`, for any exit codes and number of chunks, is first about the
relay. `StreamsIntact` is not inductive, for what is written next is in the
buffer, and what the receiver was told depends on how the copy ended.
`RelayInv` adds that a copier that writes holds the next chunk of its own
direction (`Holding`), that nothing has moved before the node is dialed
(`NotStarted`), that a copy that ended well had met the end of its stream
(`EndedWell`), and that an end, once told, is not taken back (`ToldTruly`). The
step that appends a chunk is the lemma `AppendNext`. `RunRelays` shows that
every step of a run is a step of the relay or leaves it alone, so that
`RelayDelivers` carries over to the run (`RunDelivers`). `StatusPassedOn` and
`ProcessNeverLeft` follow from `LifeInv`: while the listeners are well only the
tracing goroutine stores a result and closes `closed`, and the result is there
before (`Outcome`); and from `trace()`'s return without an error, or else from the
kill, the process gg started is gone (`TakesCare`). The condition that
listening has not failed is part of both properties where they speak of the end
of gg, since otherwise there is another writer (section 5).

`MTUTrie_proofs`, for networks and addresses of any length and any number of
them: `LongestWins`, that `GetMTU` answers with the MTU of the longest network
around the address. While the walk goes on it stands at a node that leads to
the address, and the best answer so far is that of the longest network passed
(`OnTheWay`); a contracted edge passes no entry (`JumpsPassNothing`), and from
above a network around the address there is always an edge further
(`SomeJumpFits`). The walk is a sequence of steps, not a recursive definition,
so no induction over data is involved.

The modules also prove their type invariants (`TypeCorrect`; `RunTypeCorrect`,
`TableAlwaysAgrees`). With these, every invariant and every safety property of a step that a passing
run checks is a theorem as well. Model-checked only is liveness
(`DatagramHandled`, `SocketClosed`, `Returns`, `RunEnds`, `EndPassedOn`,
`HandledRegardless`), since the prover handles neither fairness nor ENABLED. The
sets that the theorems quantify over are taken as the assumptions of the modules
have them (`TracerAssumption` and so on): distinct markers, non-empty pools,
finite sets of descriptors. That targets do not exceed a pool is never assumed
of a module, only of the theorems that name `Fits` or `PoolsFit`.

## 5. What is not modelled, and the plan

Left out for good:

* the DNS wire format, how arguments are read from registers and memory (on three
  architectures, whose tests for a failed call are not even the same:
  `tracer/syscall_linux_amd64.go:66`, `tracer/syscall_linux_arm64.go:113`), the
  translation of share
  links into sing-box options, `sudo` and terminal handling: I/O or formatting
  without state of their own;
* the subscription formats: decoders tried in turn, without state. No creator is
  registered for the nodes of a Clash subscription, so that only the number of
  its entries matters;
* `ContextDialer` (`dialer/dialer.go:125-146`): it would leave a connection
  unclosed if its context were cancelled as the dial returns, but its only
  caller is an `http.Transport` that dials with a context of its own, detached
  from the request's, so the cancellation does not happen;
* what each test leaves open: the idle connection of its transport, and the
  sing-box instance of a node that is not used. They are not closed before gg
  ends, which is known from the code without a model.

What the program forks may outlive gg. `trace()` follows forks and clones
(`tracer/tracer.go:118`), so `gg bash` proxies a whole session
(`README_en.md:94`), but it returns as soon as the process gg started ends (lines
168 and 174), and after an error only that one is killed (line 87). The others
are let go with the tracer's thread: they run on untraced, and the projections
and fake IPs they hold lead nowhere once gg is gone. The model contains this
(`Fork`, `ChildEnds`, and `UseConnection` after the end of tracing), and
`ProcessNotLeft` is about the started process only, since of all the processes it
would be false.

What the models know but no property speaks of, since no statement of the
repository contradicts it: a run in which listening fails has two writers of the
result and may close `closed` twice (`ClosesTwice`); a tracee that starts to
connect before the listeners are there ends gg with a panic (`NoPort`), as does
a failed `Accept` (`AcceptsNil`), and its processes then run on untraced; if
`New` misses the error of `StartProcess`, which is stored after `done` is closed,
`Wait` waits for ever (`StartFails`); once a pool has wrapped, a known target
is projected at an address that another target has taken over
(`proxy/ip_mapper.go:28`), which takes 2^24-1 targets in a run, or 2^17-1
domains; `handleINet6` does not look at `ignorePrivateAddr`
(`tracer/stop_handler.go:386`); a run that saves its node saves `--noudp`,
`--proxyprivate` and `--testnode` with it (`cmd/config.go:186-188`), which
`OneShotNotKept` allows; descriptors 1 and 2 of a thread that has closed
0 are taken for no sockets, so that a socket opened there goes out directly
(`tracer/tracer.go:149`), and the properties of `Tracer` are about descriptors
above them.

Planned, in this order:

1. Writes of the configuration file that fail, in `NodeConfig`, with its proofs.
2. `Tracer` with calls that a signal interrupts.

## 6. What the expected violations show

Each of these runs checks one statement of the documentation or of a comment,
and TLC answers with an execution in which the code does otherwise.

* `projection_udp`, `UDPReachesWanted`: `handleUDP` looks the target up by the
  source address of the datagram, which for an unbound socket is always
  127.0.0.1, and not by the address the tracer poked (`proxy/udp.go:28`). What is
  projected there belongs to the first flow of the run, whatever that was; in
  TLC's trace it is a TCP connection, whose target then gets a DNS query.
* `tracer_threads`, `TrafficRedirected`: socket metadata is kept per thread, so
  a socket that another thread connects goes out directly
  (`tracer/stop_handler.go:257`).
* `node_config_nocache`, `NoCacheSavesNothing`: a run with `--no-cache` notes
  the node it took from the subscription as the last one (`cmd/dialer.go:102`).
* `gg_flush`, `TrafficDelivered`: gg exits as soon as `Wait` returns, without
  regard to the handlers (`cmd/cmd.go:203`). What the program has sent, and had
  accepted by the kernel, is lost if the node has not been dialed or the copy is
  not through by then.
