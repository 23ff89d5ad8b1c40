# libzmq and a cache policy: a TLA+ verification project

The repository holds two bodies of code with logic worth verifying: the messaging
library **libzmq 4.1.5** (C++, `zmq/zeromq-4.1.5/`), which is concurrent from its
lock-free queue up to its sockets, and a collection of **cache replacement
policies** in Java, of which the adaptive replacement cache (ARC) is the richest.
The project models libzmq's threads, pipes, sockets, sessions and wire protocol and
the ARC policy as TLA+ state machines and checks them with TLC on small instances.
For the lock-free queue, the pipe, the pollers, the I/O thread, the ownership of
objects, inproc and ARC it proves with TLAPS checked invariants for every instance.

Paths below are relative to `src/zmq/zeromq-4.1.5/src/` unless they name a Java
class; those are in `src/Adaptive Cache/src/custard-cache-policies/.../cache/policy/`.
`PROJECT.json` maps every definition to the lines it models.

## 1. Inventory

### The parts, their state and their operations

| part | state | operations |
|---|---|---|
| `ypipe_t`, `yqueue_t` | a linked list of chunks, the pointers `w`, `f` (writer), `r` (reader), `c` (shared), the spare chunk | `write`, `unwrite`, `flush`, `check_read`, `read` |
| pollers (`epoll_t`, `poll_t`, `select_t`, `kqueue_t`, `devpoll_t`), `poller_base_t` | tables of descriptors, the batch of events in hand, timers | `add_fd`, `rm_fd`, `set_pollin`..., `loop`, `execute_timers` |
| `io_thread_t`, `mailbox_t`, `signaler_t` | the commands sent to a thread, `active`, the signal | `send`, `recv`, `in_event` |
| `pipe_t` | two queues, watermarks and counts, `delay`, the state of its termination | `read`, `write`, `rollback`, `flush`, `hiccup`, `set_nodelay`, `terminate`, the handlers of six commands |
| `own_t`, `object_t`, `ctx_t`, `reaper_t`, `socket_base_t` | the tree of owners, sequence numbers, counts of acknowledgements, the registry of sockets | plug, own, term, bind, connect, close, reap, `zmq_ctx_term`, `zmq_ctx_shutdown` |
| inproc (`ctx_t`, `socket_base_t`) | endpoints, pending connections | bind, connect, disconnect, unbind, close |
| patterns (`pair` ... `stream`, `fq_t`, `lb_t`) | lists of pipes with an active part, the message under way, identities | `xsend`, `xrecv`, `xhas_in`, `xattach_pipe`, `xread_activated`, `xwrite_activated`, `xpipe_terminated` |
| publish-subscribe (`xpub`, `xsub`, `pub`, `sub`, `trie_t`, `mtrie_t`, `dist_t`) | prefix trees, sections of a list of pipes, pending notices | subscribe, unsubscribe, publish, receive, reconnect |
| connecters, listeners, SOCKS | descriptor, registration, reconnection timer | `start_connecting`, `out_event`, `timer_event`, `in_event` (accept) |
| `session_base_t`, `stream_engine_t` | pipe, ZAP pipe, engine, linger timer; decoder, encoder, flags of stopped input and output | attach, detach, reconnect, pull, push, `in_event`, `out_event`, `restart_*`, `error`, linger |
| encoders, decoders | the message in progress, the next step | `encode`, `decode` |
| mechanisms (NULL, PLAIN, CURVE, GSSAPI), ZAP | the state of the handshake | `next_handshake_command`, `process_handshake_command`, `zap_msg_available`, `encode`, `decode` |
| ARC (`QueueAdapter`, `MultipleQueueCacheManager`, `ReplacementCacheManager`, `AdaptiveReplacementCacheManager`) | `t1`, `t2` (cache), `b1`, `b2` (ghosts), `targetT1Size`, `currentLocations` | `visit`, `remove`, `clear` |

### How they interact

An application's thread works in a socket; I/O threads work in listeners,
connecters, sessions and engines; the reaper thread works in sockets that are
closed. Objects of different threads share nothing but the queues of pipes and
mailboxes. Everything else they tell each other in **commands**, which go through
the mailbox of the receiver's thread in the order they were sent. An object is
deleted by its own thread, when its children acknowledged their end and every
command sent to it was processed. A message travels from the socket through a pipe
to a session, which an engine asks for it; the engine encodes it and writes it to
the connection, and the other engine decodes it and pushes it the opposite way.
Pipes stop at their high watermark, which stops the engine, which stops the peer.

### What is hard

* **Interleavings without locks**: two compare-and-swaps decide who must wake whom
  (`ypipe.hpp:119`, `:148`, `mailbox.cpp:65`).
* **Things that end from both sides at once**: pipes (`pipe.cpp:370`), owners and
  children (`own.cpp:113`, `:125`, `:195`), contexts (`ctx.cpp:165`), sessions.
* **Stale handles**: an event for a descriptor that a callback of the same round
  closed and reused (`epoll.cpp:165`, `select.cpp:102`, `devpoll.cpp:160`); a pointer
  into a vector that a callback may make longer (`devpoll.cpp:182`).
* **Two threads at one end of a pipe**: a connecter writes the identity of the socket
  that it was bound to, which may use the pipe already (`ctx.cpp:548`).
* **Multipart messages are atomic**, while pipes come, fill up and go between their
  parts (`lb.cpp:61`, `fq.cpp:109`, `dist.cpp:54`, `session_base.cpp:131`).
* **Broken connections**: reconnection, resubscription, hiccups and linger
  (`session_base.cpp:391`, `:477`, `xsub.cpp:89`).
* **Flow control**: whoever was stopped at a watermark must be started again
  (`pipe.cpp:185`, `stream_engine.cpp:335`).
* **Negotiation**: four mechanisms, three framings and ZAP answers that come early
  or late, over a network that cuts what is sent anywhere.

`PROJECT.json` lists the forty that matter most at their lines.

### What makes each part correct

| part | properties |
|---|---|
| queue | `PointersLive`, `NoLostWakeup`, `ImplementsQueue` |
| pollers, I/O thread | `EventsToTheirOwner`, `WatchesWhatWasAsked`, `OneSignal`, `EntryInPlace`, `CommandsProcessed` |
| pipe | `TerminationSafe`, `DrainedBeforeAck`, `Terminates`, `WriterResumes` |
| ownership | `NoUseAfterDelete`, `NothingOutlivesContext`, `TermReturns` |
| inproc | `NoUseAfterDelete`, `IdentityFirst`, `HwmsAgree`, `OnlyWaitingRemain` |
| patterns | `WholeMessages`, `RightPeer`, `NoForgottenPipe`, `FairShare` |
| publish-subscribe | `TreesAgree`, `SubscriptionsArrive`, `UserIsTold`, `DeliveredWhole` |
| session, engine, connecters | `WholeMessages`, `NoStall`, `OneConnection`, `TerminationGoesOn` |
| handshake, framing, mechanisms | `PeersStay`, `OnlyAuthenticated`, `Faithful`, `NoStandstill` |
| ARC | `TypeOK`, `LocationsConsistent`, `SizesBounded`, `RecencyOrder`, `ImplementsDemandCache` |

## 2. Modules

| module | models | state and actions |
|---|---|---|
| `FlushQueue` | nothing: the abstract specification | what `ypipe_base_t` promises: items become visible in order, at a flush, in whole messages; the flush that ends a sleep knows it |
| `YPipe` | `ypipe.hpp`, `yqueue.hpp` | one access to shared memory per action; pointers are addresses in chunks, and chunks are recycled |
| `Epoll`, `Poll`, `Select`, `Kqueue`, `Devpoll` | the pollers | a poller is a record, a method an operator on it; of `Devpoll`'s table also its size, and whether it may have moved since the loop took its pointer |
| `Retired` | `fd.hpp`, the clean-up of `poll.cpp` and `select.cpp` | marks entries that were removed, and erases them |
| `Poller` | `poller.hpp` | chooses one of them |
| `IoThread` | `io_thread.cpp`, `mailbox.cpp`, `signaler.cpp`, the loops, `poller_base.cpp` | the thread's loop step by step; between its steps objects do anything that `io_object_t` offers, senders send, the kernel reports any subset of what is watched |
| `Pipe` | `pipe.cpp`, both ends | one action per method and per command; `terminate` in two steps, because the peer runs between its command and its delimiter |
| `Ownership` | `own.cpp`, `object.cpp`, `ctx.cpp`, `reaper.cpp`, the life cycle in `socket_base.cpp`, `session_base.cpp`, listeners, connecters | one action per command processed and per call of the application |
| `Inproc` | inproc in `ctx.cpp` and `socket_base.cpp`, the probe of `dealer.cpp` and `router.cpp` | calls in two parts where the code leaves a lock between them; a bind in the middle of a connect in two parts too, the command `bind` and the binder's identity (`ctx.cpp:548`, `:557`); `connect_pending` one connection at a time, while `endpoints_sync` (`Unlocked`) keeps out whoever needs the registry and the rest run on; the ends that a reaped socket terminates are one update. `delay` is set at first: closing without it is in `Pipe` |
| `SocketPipe` | `pipe.cpp` from one end, `fq.cpp`, `lb.cpp`, `array.hpp` | operators on a record; shared by the next three groups |
| `Patterns` | `pair.cpp` ... `stream.cpp` | one action per call of the user and per notice of a pipe; the type of the socket is a variable |
| `Trie` | `trie.cpp`, `mtrie.cpp` | the trees node by node, with their windows and their compaction |
| `Dist` | `dist.cpp` | the four sections of the list |
| `PubSub` | `xpub.cpp`, `xsub.cpp`, `pub.cpp`, `sub.cpp` | a publisher and its subscribers, composed with `Dist` and `Trie` |
| `Connecter` | the connecters and listeners, `socks.cpp` | a connecter is a record; what the network may answer makes an operation a set of records |
| `Session` | `session_base.cpp`, `stream_engine.cpp` with frames | composed with `SocketPipe` and `Connecter`; the user, the peer and the network act at any moment |
| `Codec` | encoders and decoders | units of transmission, a byte of `ByteMax + 1` values |
| `Mechanism`, `Curve`, `Gssapi` | `mechanism.cpp` and the four mechanisms, ZAP | an operation returns a state, a return code and a command |
| `Handshake` | `stream_engine.cpp` with bytes | two engines, composed with `Codec` and the mechanisms |
| `MultipleQueueCacheManager`, `ReplacementCacheManager`, `AdaptiveReplacementCacheManager` | the Java classes of the same names; the first with `QueueAdapter` | one call is one action; the manager is one record |
| `DemandCache` | nothing: the abstract cache | |
| `MC...` | | instances: scenarios, symmetry |
| `..._proofs` | | lemmas and theorems about the queue, the pipe, the pollers, the I/O thread, the ownership of objects, inproc and ARC |

**One engine, two models.** `stream_engine_t` appears twice. `Session` keeps
everything about its life (attach, stop, restart, errors, timers) and reduces the
handshake to a greeting and one command each way, a message to its frames.
`Handshake` keeps everything about bytes (partial reads and writes, greetings,
mechanisms, ZAP) for two engines whose sessions only take and give messages.
Likewise `Pipe` has both ends of one pipe, `SocketPipe` one end of many: the far
end, whose behaviour `Pipe` checked, is reduced to what it may cause here.

**Data.** Names, addresses, payloads and times are left out or are members of small
sets. A message is numbered and knows its parts, so that order and atomicity can be
stated. Cryptography is symbolic: a box opens with the key it was made for.
External are the kernel's readiness, the network, the GSSAPI library, the ZAP
handler, `malloc`.

**Assertions.** A `zmq_assert` that fails ends the process. Models record it in
`failed` or `crash` and stop. That none fails is part of `TerminationSafe`, of
`NoUseAfterDelete` of `Ownership` and, for the assertions it names, of `NoUseAfterDelete`
of `Inproc` and of `NoForgottenPipe`; `NoAbort` is about one that does fail. The properties
of the session and the handshake speak of systems that still run and do not
constrain `crash`. Section 5 lists the assertions that can fail.

**History variables** record what happened for a property's sake and guard nothing:
`due` and `stray` of `IoThread`, `dangling` of `Devpoll`, `read` and `side` of `Inproc`, `log` and `wait` of `Patterns`,
`asked`, `refs`, `seen` and `last` of `PubSub`, `older` of
`AdaptiveReplacementCacheManager`.

## 3. Runs

`tlc -config X.cfg M` in this directory. Each run takes between a few seconds and
about three minutes with two workers.

| run | instance | checks |
|---|---|---|
| `ypipe` | chunks of 2 elements, 4 chunks, up to 3 elements, 2 items | `PointersLive`, `NoLostWakeup`, `ImplementsQueue` |
| `io_thread` | the five pollers, 3 descriptors, 2 objects, 2 senders, 856 601 states | `EventsToTheirOwner`, `WatchesWhatWasAsked`, `OneSignal`, `EntryInPlace`, `CommandsProcessed` |
| `pipe` | six uses of a pipe, three with an end that does not wait, 295 839 states | `TerminationSafe`, `DrainedBeforeAck`, `Terminates`, `WriterResumes` |
| `ownership` | 1 socket, 3 objects, 2 I/O threads, 1 interruption | `NoUseAfterDelete`, `NothingOutlivesContext`, `TermReturns` |
| `inproc` | one binding socket, one or two that connect, the temporary one, 3 sets of options, 2 719 686 states | `NoUseAfterDelete`, `IdentityFirst`, `HwmsAgree`, `OnlyWaitingRemain` |
| `patterns` | 12 sockets and options, 2 pipes (3 for PULL), 892 436 states | `WholeMessages`, `RightPeer`, `NoForgottenPipe`, `FairShare` |
| `pubsub` | 5 scenarios, 2 subscribers, 3 pipes, 5 filters, 348 060 states | `TreesAgree`, `SubscriptionsArrive`, `UserIsTold`, `DeliveredWhole` |
| `pubsub_abort` | a pipe upwards for one message | `NoAbort` is **violated** |
| `session` | 12 scenarios, 513 587 states | `WholeMessages`, `NoStall`, `OneConnection`, `TerminationGoesOn` |
| `session_linger` | a network that takes less than it is offered | `InfiniteLingerDiscardsNothing` is **violated** |
| `handshake` | framings, mechanisms, ZAP answers, mismatches, 97 677 states | `PeersStay`, `OnlyAuthenticated`, `Faithful`, `NoStandstill` |
| `arc` | 5 keys, capacity 2, a listener that removes 2 of them, 6 187 states | `TypeOK`, `LocationsConsistent`, `SizesBounded`, `RecencyOrder`, `ImplementsDemandCache` |

What they show:

* **ypipe.** Addresses come back (a chunk travels through the spare or through
  `malloc`), and still neither compare-and-swap mistakes an old pointer for a new
  one: the queue implements `FlushQueue`. A reader that sleeps always has a wake-up
  call on its way.
* **io_thread.** Although callbacks remove and reuse descriptors in the middle of a
  round, in all five pollers every event goes to the object it was reported for, and
  the kernel's set is what the objects asked for. One signal at most is in the
  signaler; every command is processed. devpoll's table grows while its loop points into
  it, but only once the loop is done with the pointer: descriptors are added by commands and
  timers, and no event follows the mailbox's in its entry.
* **pipe.** Every crossing of the two terminations, of delimiters, hiccups and
  acknowledgements is one the code expects, whether an end waits for the delimiter or
  its user called `set_nodelay` (PUB, PUSH, ZAP); both ends are deleted, each queue exactly
  once, also when one of them never reads; with delay nothing that was written is lost and
  no half message is read.
* **ownership.** Whatever is accepted, connected or broken while a socket ends, no
  command reaches a deleted object, and when the sockets are closed `zmq_ctx_term`
  gets the answer it waits for, interrupted or not.
* **inproc.** Bind first or connect first makes no difference to watermarks, for one
  connection and for two that a single bind finds waiting; sockets stay alive across the two
  halves of a call in another thread. It makes no difference to identities either, with
  the exceptions that `Late` names: a peer that probes, a binder whose thread wrote between the
  command `bind` and the identity, and the temporary socket of `ctx_t::terminate`, which may
  refuse the pipe (section 5).
* **patterns.** Messages stay whole and reach the right peer while pipes end, fill
  up, wake up and exchange identities between their parts; no pipe is forgotten in
  the passive part of a list; fair queueing is fair.
* **pubsub.** The trees contain what was asked for after every sequence of additions
  and removals; a publisher knows every subscriber's wishes after reconnections; the
  user of XPUB is told exactly enough; a message is delivered whole or not at all. No pipe is
  too small for the subscriptions here (`SubHwm` 4 is not reached): that is `pubsub_abort`.
* **session.** Half messages never reach the socket or the peer across connections;
  no engine is left stopped with work to do; there is at most one connection or one
  attempt; a session that ends has a reason for whatever it waits for.
* **handshake.** Ends that may talk do, however the network cuts their bytes; ends
  that may not exchange no message; nobody waits for ever except in three named
  configurations.
* **arc.** See section 6.

### Bounds and why they are enough

* `ypipe`: a chunk of two makes every second push or pop cross a boundary; three
  elements span three chunks with the terminator; a fourth chunk is needed for one
  to be free while another is spare.
* `io_thread`: a descriptor is reused as soon as one object removes and another adds;
  `MaxMoves` 2 is that remove and that add between two clean-ups. Two senders race
  for the one signal. One object is plugged at a time (`Bounded`), which takes nothing from a
  reuse; the third number makes devpoll's table longer after the second is in use,
  and is used with devpoll only. `Bounded` refuses steps of `Plug`, which no fairness speaks of.
* `pipe`: watermark 3 gives a low watermark of 2, so that reports come for every
  second message; 1 makes every message meet the mark; the user's writes are
  bounded, what the library does is not. The scenarios are the uses of a pipe: a
  stream of messages, multipart messages with an answer, what an engine writes first, PUSH
  (which never reads), PUB with subscriptions, and a session's pipe to the ZAP handler.
  In the last three an end has `delay` FALSE from the start, so that
  `process_pipe_term` answers at once (`pipe.cpp:301-305`).
* `ownership`: three objects are a session with its connecter and a listener, or a
  listener and an accepted session beside another one: the deepest tree the library
  builds, and siblings that end in any order.
* `inproc`: an address has at most one binder, and connections affect each other only
  through the binder's counts and mailbox and while `connect_pending` makes one after the
  other. The second connecter is there for that: `Bounded` of `MCInproc` lets it either
  leave before anything else happens, so that the other one is seen with everything it
  can do, or connect too before the first bind, with no messages and no end of the context
  unless `ctx_t::terminate` finds both waiting. The options are a ROUTER, a DEALER and a
  DEALER that probes, with marks of 0, 1 and 2; one socket of the first connection is a
  ROUTER, because nobody else tells an identity from a message.
* `arc`: one key more than the directory has room for; the listener removes two of the
  keys and keeps three, so that a visit meets evictions of both kinds.
* `patterns`: two pipes let one end or fill up while the other takes over; PULL has
  three for the rotation; two-part messages have a place for something to happen in.
* `pubsub`: the characters 1, 2 and 4 make tables with a gap, which grow at both ends
  and shrink from both; `<<2, 4>>` and the empty prefix make nodes with and without
  children; a third pipe is the new connection of a subscriber whose old pipe ends.
* `session`: two connections are one reconnection; `out_batch` 2 ends a batch in the
  middle of a three-frame sequence; linger is none, finite or infinite.
* `handshake`: `ByteMax` 3 puts the limits of one-byte sizes at messages of 2, 3 and 4
  units; a decoder's buffer of 2 makes messages larger and smaller than it.

Counters that grow without bound in the code are bounded by `MaxLen`, `MaxCommands`,
`MaxMoves`, `MaxRestarts`, `MaxRefs` and by fields of the scenarios (`written`,
`hiccups`, `max_in`, `max_out`, `max_changes`, `max_messages`, `out`, `arrive`,
`conns`). Symmetry is used where names are interchangeable and no liveness is
checked: chunks, I/O threads, the first two pipes of `patterns`, cache keys.

**Deadlock** is checked for `ypipe`, `io_thread` and `arc`. The other systems end: a
pipe is deleted, a context terminated, a session gone, or the bounded user has
nothing left to do. Their quiet states are the subject of properties instead
(`TermReturns`, `OnlyWaitingRemain`, `NoStandstill`).

### Fairness

* `IoThread`: weak fairness of the thread's own steps (`Loop`, `Return` from a
  callback, the return of the poll call when something is ready) and of a sender
  between its flush and its signal. These are threads that are scheduled and do not
  wait in between; nothing is assumed of the objects or of whether anyone sends.
  `CommandsProcessed` rests on it.
* `Pipe`: weak fairness of processing commands, of the second half of `terminate`,
  of the flush that follows a write in every caller, of the user's reads (a session
  is asked by its engine, a socket by an application that still receives; PUSH never
  reads) and of the end of a finite linger period at the session's end. `Terminates` and `WriterResumes` need the reader:
  a writer at the high watermark waits for as long as nobody reads, by design.
* `ownership`, `inproc`, `session`, `handshake` state progress as safety: a state in
  which the library has nothing left to do and somebody still waits is not
  reachable. Each of their steps uses up a command or a part, so with fair threads
  that is progress, and it needs no assumption about users or networks.

**Mutants.** For each property there is a variant of one modelled definition with a
plausible bug (a wake-up that is forgotten, a guard dropped, a limit off by one, a
list position not updated). They stand before the definition they replace, are
marked `Mutant`, and are used by no specification. Each property fails on its mutant.

## 4. Findings

* **`mtrie.cpp:302`, run `pubsub_abort`.** A subscription that finds its pipe at
  `ZMQ_SNDHWM` is dropped. `xsub.cpp:237-240` treats that as harmless: "If we reached
  the SNDHWM, and thus cannot send the subscription, drop the subscription message
  instead. This matches the behaviour of zmq_setsockopt(ZMQ_SUBSCRIBE, ...), which
  also drops subscriptions when the SNDHWM is reached." The unsubscription that
  comes later is sent. If another connection has the same prefix, the publisher
  finds the node but not the pipe, and `zmq_assert (erased == 1)` ends its process.
* **`session_base.cpp:110`, run `session_linger`.** `out_event` pulls the last
  messages and the delimiter in one batch. When the network takes only a part of
  it, the pipe is drained already and acknowledges its end; the session, with nothing
  to wait for, is deleted and its engine with the unwritten rest, whatever
  `ZMQ_LINGER` says. `doc/zmq_setsockopt.txt:309-312`: "The default value of '-1'
  specifies an infinite linger period. Pending messages shall not be discarded after
  a call to _zmq_disconnect()_ or _zmq_close()_; attempting to terminate the socket's
  context with _zmq_term()_ shall block until all pending messages have been sent to
  a peer."

## 5. Observations without a run of their own

Met while modelling. The models contain them; a property names the exception, or
the instance or the scenario leaves it out.

Pipes and contexts:

* A credential is counted when it is written and not when it is read
  (`pipe.cpp:168`, `:214`): a pipe with room for one message is full for ever after
  one. `WriterResumes` has a credential in a pipe for two.
* A hiccup drops the delimiter with the old queue: a socket that closed its pipe
  while the session reconnects waits until the linger period ends, for ever if it is
  infinite. `Terminates` assumes an end of the linger period.
* `ctx_t::terminate` uses the socket it creates for a pending connection without a
  look at NULL (`ctx.cpp:127`), which it is after `zmq_ctx_shutdown`; and a connection
  that becomes pending after the copy of the list (`:125`) stays so
  (`OnlyWaitingRemain` says what may remain).
* An identity is written into an inproc pipe with `zmq_assert (written)`
  (`socket_base.cpp:529`, `ctx.cpp:557`). It fails, and ends the process, when a ROUTER
  closed its connection while that waited and a bind comes then, and when the connecter
  probes and its `ZMQ_SNDHWM` is 1: the probe has filled the pipe. `Inproc` has both (`crash`
  is "write") and no property denies them; the run reaches the first, and the second with a
  mark of 1 for the socket that probes. There it has 2, so that the connection goes on.
* When a bind comes in the middle of a connect, the connecter sends the command `bind`
  (`ctx.cpp:548`) before it writes the binder's identity through the binder's end
  (`:550-559`). The binder's thread may process the command and write first, and a ROUTER that
  connects takes that message for the identity; or both write at once, a data race,
  which `Greeted` models by what the two stores into one element and the two moves of an index
  can leave. With `ZMQ_PROBE_ROUTER` the probe of `xattach_pipe` always comes before the
  identity on inproc (`socket_base.cpp:516` before `:528`, `ctx.cpp:544` before `:557`). A
  ROUTER takes it for an empty identity, drops the one that follows and never hands the
  probe out, while `doc/zmq_setsockopt.txt:400-404` says that the application gets it. `IdentityFirst` excepts these (`Late`).
* The temporary PAIR of `ctx_t::terminate` refuses every connection but the first that it
  finds waiting (`pair.cpp:60`), so that nothing can be written through the others.
* `zmq_disconnect` after a protocol error finds in `endpoints` a pipe that is deleted.
* `poll_t` and `select_t` skip their clean-up in a round without events.

Patterns and publish-subscribe:

* `lb_t` and `fq_t` assert `!more` when a pipe refuses or has nothing in the middle of
  a message (`lb.cpp:110`, `fq.cpp:117`). `NoForgottenPipe` excludes these two.
* A PAIR whose pipe is replaced in the middle of a message sends the rest to the new
  peer; `WholeMessages` leaves PAIR out altogether. A pipe that the socket itself closes
  ends a message that the user is reading; `WholeMessages` excepts it.
* STREAM sets `more_out` for a message that has only an identity (`stream.cpp:130`), so
  the first frame of the next message is dropped.
* REP's rollback for a malformed request does nothing (`rep.cpp:98`).
* A ROUTER without handover ignores a second pipe with a known identity and keeps it.
* `connect_rid` names the next pipe that is attached, whichever that is.
* With `ZMQ_XPUB_NODROP`, the matches of a refused message are still there when the
  next one is matched, unless it is the same one.
* A message that `xhas_in` prefetched is received after the unsubscription.
* XSUB may send half of a multipart message on a pipe that hiccups in between.

Sessions and engines:

* `zap_connect` asserts that there is no ZAP pipe when a session reconnects with the
  old one still open (`session_base.cpp:301`).
* `read_activated` of the ZAP pipe without an engine looks at the socket's pipe, and
  `zap_msg_available` is called for an engine without a mechanism
  (`stream_engine.cpp:779`).
* `process_identity_msg` asserts that the session takes a subscription
  (`stream_engine.cpp:720`), which a full pipe refuses.
* A session that waits for its end (`pending`) is given a new pipe by a late connection
  (`session_base.cpp:357`). `TerminationGoesOn` leaves out the two configurations.
* `ZMQ_RECONNECT_IVL` 0 divides by zero (`tcp_connecter.cpp:202`); with -1 a failed first
  attempt is repeated; doubling may overflow (`:210`).
* `ipc_listener.cpp:290` asserts on a full descriptor table, unlike the TCP listener;
  `socks_connecter.cpp:194` asserts on a connection that succeeds at once.
* `zap_msg_available` looks at `output_stopped` after `restart_input`, which may have
  deleted the engine (`stream_engine.cpp:786-789`). `OutputResumed` lets that read see any
  value. It is not reached: while a ZAP reply is awaited the input is never stopped, in
  either model of the engine.
* The handshake timer is cancelled with the greeting (`stream_engine.cpp:698`), so it
  does not cover the mechanism.
* `out_event` takes every error of `next_msg` for nothing to send
  (`stream_engine.cpp:361`).

Handshakes (`NoStandstill` names the configurations in which somebody waits for ever):

* two ends that are both servers; a GSSAPI context that is refused; a ZAP reply for
  NULL that is there at once and malformed.
* `curve_server.cpp:576` writes the size of the member and not of the status code, so a
  client refuses the ERROR command it is sent.
* `ZMQ_MAXMSGSIZE` also limits the commands of the handshake.

## 6. Proofs

`tlapm M_proofs.tla` checks one of the seven proof modules. They hold for **every**
value of the constants, where a run has one small instance. Each module has the
lemmas about the operators first, then the inductive invariant `IInv`, one lemma
per action, and the theorems. TLC checked every `IInv` on the component's run before
it was proved.

| module | theorem | states |
|---|---|---|
| `YPipe_proofs` | `YPipeInvariant` | `Spec => []IInv` |
| | `YPipePointersLive` | `Spec => []PointersLive` |
| | `YPipeNoLostWakeup` | `Spec => []NoLostWakeup` |
| | `YPipeImplementsQueue` | `Spec => ImplementsQueue`, the refinement of `FlushQueue` |
| `Pipe_proofs` | `PipeInvariant` | `Spec => []IInv` |
| | `PipeTerminationSafe` | `Spec => []TerminationSafe` |
| | `PipeDrainedBeforeAck` | `Spec => []DrainedBeforeAck` |
| `IoThread_proofs` | (lemmas) | each of the five pollers keeps the promise below |
| | `IoThreadOneSignal` | `Spec => []OneSignal` |
| | `IoThreadInvariant` | `Spec => []IInv` |
| | `IoThreadEventsToTheirOwner` | `Spec => []EventsToTheirOwner` |
| | `IoThreadWatchesWhatWasAsked` | `Spec => []WatchesWhatWasAsked` |
| | `IoThreadEntryInPlace` | `Spec => []EntryInPlace` |
| `OwnershipSteps_proofs` | (lemmas) | each step of a handler keeps the invariant, with commands in hand |
| `Ownership_proofs` | `OwnershipInvariant` | `Spec => []IInv` |
| | `NoUseAfterDeleteThm` | `Spec => []NoUseAfterDelete` |
| | `NothingOutlivesContextThm` | `Spec => []NothingOutlivesContext` |
| | `TermReturnsThm` | `Spec => []TermReturns` |
| `Inproc_proofs` | `InprocInvariant` | `Spec => []IInv` |
| | `HwmsAgreeThm` | `Spec => []HwmsAgree` |
| | `IdentityFirstThm` | `Spec => []IdentityFirst` |
| `AdaptiveReplacement_proofs` | `TypeCorrect` | `Spec => []TypeOK`: also `0 <= targetT1Size <= MaxNodes` |
| | `LocationsAgree` | `Spec => []LocationsConsistent`: queues, locations and what the listener holds |
| | `SizesStayBounded` | `Spec => []SizesBounded` |
| | `NeverThrows` | `Spec => []NoException` |
| | `VisitsNotify` | `Spec => VisitNotifies`, an action property |
| | `ImplementsDemand` | `Spec => ImplementsDemandCache`, the refinement of `DemandCache` |
| | `RecencyKept` | `Spec => []RecencyOrder` |

### The lock-free queue

For every chunk size above 1 (`YPipeAssumption`; the code uses 16 and 256), any set
of chunks and any items. The pointers are addresses, and addresses come back, so
nothing can be said of them by their values. The proof places an address by its
**offset**: the number of its chunk in the list times `N`, plus its position. The
order of the pointers is then an order of integers, which `push`, `unpush` and `pop`
move or shift as a whole (when the first chunk leaves, every offset falls by `N`).
`IInv` has three parts: `Memory` (the chunks are a chain without repetition and the spare
one is not in it), `Pointers` (`front <= r <= w <= f <= back`, and `c` is `w` or null) and
`Protocol` (what each thread may rely on between its atomic operations: a writer that
saw `c` null finds it null until it sets it; `c` null means that the reader sleeps and
read everything). `NoLostWakeup` is a part of `Protocol`, and not inductive without the
rest. `IInv` is also what makes the refinement mapping one: the slices between
`front`, `w`, `f` and `back` are well-defined because the pointers stand in this order, and
each access to shared memory changes them as one step of `FlushQueue` does, or not at all.

### The pipe

For any watermarks, frames, numbers of messages and hiccups, either value of `delay` at
either end from the start (`set_nodelay`) and either value of `terminate`'s argument
(`PipeAssumption` gives these their types). `IInv` is `TypeOK` with

* `Handshake`: which states the peer may be in (`Partners`), and that a `pipe_term` or a
  `pipe_term_ack` is on its way exactly when the pair of states says that it was sent and
  not yet processed (`Told`), with nothing behind an acknowledgement and no hiccup
  behind a request (`Ordered`). The assertions of the handlers follow from it.
* `Addresses`: which ypipe each end holds and which are freed. A session's hiccup
  makes a new ypipe before the socket knows; the ypipes older than the socket's are
  freed, the newer ones are named, in rising order, by the hiccups on their way. Without
  this order a second hiccup could free the ypipe of the first twice.
* `Contents`: a delimiter is last and follows a whole message, a ypipe that was only
  announced is empty, and an end that read the delimiter, or answered with delay, has
  an empty ypipe whose writer is gone. `DrainedBeforeAck` needs the last clause: that the
  ypipe is empty now would not keep the peer from writing.

### The pollers and the I/O thread

For any set of descriptors that are natural numbers and contain the mailbox's
(`PollerAssumption`, `IoThreadAssumption`), any objects other than the thread itself, any
number of senders, and each poller. The five pollers keep their registrations in different
tables, so what they have in common is stated once, as a **promise**: `Good` (the
tables are consistent), `Serves(h, fd, sink, events)` (handle `h` is a live
registration) and `Heard(e)` (an event of the batch in hand that would still be
delivered). For each poller a lemma shows what an operation does to these: `Adds` (one
registration more, under a new handle, and no event of the batch is heard that was
not before), `Removes`, `Turns` (one registration's events change), `Reports` (the batch
of a wait is for the sinks of the reported descriptors), `Keeps` (the loop's top and the
clean-up change no registration) and `Sound` (what the kernel watches is what is served;
what is heard has a sink). The lemmas named `Poller...` collect the five. `poll_t` and
`select_t` compact their arrays, which moves indices: `Erased` says where `Erase` of
`Retired` puts each entry; `LeastNumber`, which replaces an induction over naturals, is
derived from the well-foundedness of inclusion among finite sets.

The rest of `IoThread_proofs` uses the promise only. `Registered` says that the poller serves exactly
what the objects asked for under the handles that they hold; `Owned`, that every event
of the batch that is still heard is for an object it was reported for; `PosInv`, that the
loop's position stays inside the batch while callbacks change the tables under it;
`StopInv`, that the mailbox is removed once. `EventsToTheirOwner` is not inductive alone:
that a reused descriptor does not inherit an event needs `Owned`, and that a callback
which unplugs an object removes this object's entry and no other needs `Registered`.
`EntryInPlace` rests on `PointerInv`, which is about the order of the loop: the only event
of the mailbox's entry is the last that the loop looks for, so commands, which plug objects and
may make devpoll's table longer, are processed when the pointer is not used any more; timers
are executed before the loop takes one; and a handler of events, as `Plug` says, adds nothing.
`OneSignal` rests on `MailInv`: a reader that sleeps, an active mailbox, a sender about to
signal and the signal itself are four places of **one token**.

### Ownership

For any finite set of sockets and of objects, any I/O threads, any of the sockets with a
network and any number of interruptions of `zmq_ctx_term`. `OwnershipAssumption` says no
more than that: the sets are finite, sockets and objects differ, and no thread's
mailbox is another's. The run has one socket and three objects; the theorems hold for
every number of sockets that share I/O threads, the reaper and the context.

Why a command never reaches a deleted object is a matter of counting. An object is
deleted when `sent_seqnum = processed_seqnum` and `term_acks = 0`, so both counters must say
exactly what is still on its way to it. `IInv` therefore speaks of the commands **under
way**, and has these parts:

* `Balanced`: `sent_seqnum` is `processed_seqnum` plus the counted commands in the object's
  mailbox; `term_acks` is the acknowledgements there, plus the children that were told
  to go and live, plus the pipes that a reaped socket waits for.
* `Stages`: a child's `plug` is under way or it is plugged, never both; and exactly one of
  these holds: its `own` is under way, it is among `owned`, its `term` is under way, its
  termination is pending on its pipe, it terminates. This is what makes each child
  acknowledge once, whatever order `own`, `term_req` and `term` arrive in.
* `Owners`, `Routed`, `Requests`: an owner outlives what it owns and a socket its sessions;
  each command is in the mailbox of its object's thread, and is one its object can take;
  a `term_req` of an object that is gone has that object's acknowledgement behind it, so the
  owner still lives when it processes the request.
* `Engines`: a session has at most one of a connecter still to be made, one that dials, an
  `attach` under way, an engine. The assertion of `process_attach` needs it.
* `Held`, `EndsOK`: which socket holds its end of a pipe, or is about to, and when a
  session still has the other.
* `Busy`: what terminates waits for something. `check_term_acks` is called wherever a
  counter reaches its end, so nothing terminates and is forgotten.
* `Context`: what the context, the reaper and `zmq_ctx_term` know of the sockets; the
  reaper's count is the sockets it reaps and the `reaped` commands that it has not read.
* `Rooms` is about the model's bound on objects, not about the code: a session that will dial
  finds an unused object.

None of them is inductive alone, and inside a handler they do not hold either: between
taking a command and the call of `process_seqnum`, or between counting a command and
posting it, the counters are ahead of the mailboxes. So the invariant is stated with the
commands **in hand**: `Good(r, H)` is the invariant of a state `r` in which the commands `H` were
taken and not finished, or counted and not yet posted. Each step of a handler has a lemma that
moves commands between a mailbox and the hand (`TakeGood`, `LaunchStep`, `TellStep`, `TermStep`,
`CheckAcks`, ...), a handler's lemma chains them in the order of the code, and an action starts
and ends with an empty hand. `NoUseAfterDelete` is a part of `Good`. For
`NothingOutlivesContext`, an empty `sockets` empties the rest: every object has an owner that
lives, and every command a destination that lives. For `TermReturns`, when the threads
are at rest, an object that still terminates waits for a child that terminates too
(`Waiting`); a socket owns listeners and sessions, a listener sessions, a session connecters,
and a connecter nothing, so there is none, and the reaper has finished.

### Inproc

For any finite set of sockets, any of which bind, connect or do both, and any options.
`InprocAssumption` says besides that the temporary socket is none of theirs and that no
socket is named like a phase of a call, because `pc` holds either. The run has one binder
and two connecters; the theorems hold for every number of connections to the address.
`IInv` is `TypeOK` with

* `Held`: end "c" of a pipe is in the `pipes` of its connecter only, and end "b" only in
  those of the socket it was bound to; nobody has an end of a pipe that is not made.
* `Agreed`: once a connection is bound its watermarks are `PipeHwms`; until then its `binder`
  is null, and stays so for the connections in `pending` (`Waits`).
* `Written`: an identity comes first and only there where `Expects` says so. It is the first
  thing that was read or, as long as nothing was, the first in the queue. The ends that
  `Late` names are excepted: those whose peer probes, end "c" of a connection whose binder is
  the temporary socket, and end "c" of a ROUTER that was bound in the middle of its connect,
  until its thread writes the identity and finds that the binder wrote nothing. For a connection
  that waits, end "b" has one whatever the options are, because its binder may turn out to
  want it; nothing was read at either end, and end "c" is empty.
* `Proper`: a `bind` command is in the mailbox of the socket the connection was bound to. It is
  processed long after it was sent, by `AttachPipe`, which `Held` would not survive otherwise.
* `Calling`: a thread in the middle of a call has its socket open; one that will make a
  connection has not made it yet; and one that has the binder's identity to write (`Greets`)
  expects it, for a connection that is bound.

`IdentityFirst` speaks of what was read and is not inductive without the queues; the queues
are right only if nobody who does not hold an end reads or writes through it, hence
`Held`, hence `Proper`. The interesting step is `AdoptEnd`: it drops the head of the queue
when the binder expects no identity, which is right because nothing can have been read
before the bind and the connecter writes its identity at once, whatever it wrote later.

A handler changes a state in one of two ways, and the lemmas follow it. A **soft** change
(`Soft`) makes or binds no connection: commands, counters, terminations and whatever is
appended to a queue that is not an identity; it keeps `Fine` wherever it occurs, and the
lemmas `SoftSend` ... `SoftCommand` chain such changes through the handlers. A **wired** one
(`Wired`) makes or binds one connection and leaves the pipes of the others alone: `BindSideFine`, `ConnectSideFine`,
`FoundFine` and `UnboundFine` follow the code's four ways to do that, in its order (pipe, attach,
identity, adoption, watermarks). After `ConnectConnectSide` the identity is still to come:
`ConnectGreetingStep` shows that it stands first if the queue was empty and nothing was read,
which is when `side` becomes "greeted". `Receive` is the third kind, `TakeFine`: what it takes from a
queue's head it adds to what was read.

### ARC

For any set `Keys` (finite or not), any `MaxNodes \in Nat`, 0 included, and any set `Removing`
of keys whose eviction the listener answers with `remove`; the only
assumptions are `MaxNodesAssumption` and `ListenerAssumption`, which give the constants
their types.

**The model.** One call of a client is one atomic action, because the code is
sequential. Inside it the order of the code's steps is kept: an operator of
`MultipleQueueCacheManager` takes a manager and returns the manager after the call,
and a handler is the nesting of such operators in the order of the code. The
listener's `remove` happens inside the building block that evicts, where the code
calls the listener. An exception is a field of the state. `DemandCache` is what a
cache promises its listener: a visit of a held key does nothing, another visit loads
exactly that key and evicts at most one, and never more than the capacity is held.

**The argument.** None of the four invariants is inductive alone. That a move keeps
`currentLocations` right needs that the key is where the location says, once; that no
head of an empty queue is taken needs the bounds on sizes (a full left side with an
empty `b1` means that `t1` holds something) *and* the agreement of queues and
locations; that the bounds survive a visit needs that no exception left it half
done; and what the listener is told is decided from the locations. So
`IInv == TypeOK /\ LocationsConsistent /\ SizesBounded /\ NoException` is proved inductive
as one; `LocationsConsistent` has two parts, `Located` (queues and locations) and
`ListenerHoldsCache` (what the listener was told to hold is what t1 and t2 hold).
`AdaptiveReplacement_proofs` has three parts:

1. The first part: what `add`, `poll` and `remove(o)` of `QueueAdapter` do to a
   sequence without repetition: its members, its length, the absence of repetition,
   order; then the effect of every building block on a *sound* manager (types, no
   repetition, queues and locations agree), re-entrant removal included: which queue
   grows or shrinks, where keys are afterwards, what the listener holds and was told.
2. The second: `FreeRoom` and the ghost hit from these, then one
   step lemma per action, `Invariant`, and the theorems. Each step lemma proves at
   the same time what the visit notified, which gives `VisitsNotify`. For the
   refinement, `Tells` says that what the listener holds follows from the calls made so
   far, which every block preserves; that it has room for a load follows from the size
   bounds, because t1 and t2 have no more members than places.
3. The last, `RecencyKept`: order is kept by each block (removing a key
   keeps the order of the rest; the head of `t1` is older than the rest of `t1` and
   newer than all of `b1`), and `IInv /\ RecencyOrder` is inductive.

### Only model-checked

* Liveness under fairness (`CommandsProcessed`, `Terminates`, `WriterResumes`) is out of the
  proof system's reach.
* `PubSub` reaches the recursive operators of `Trie`, with which the SMT backend does not
  work; `Trie`'s agreement with sets of prefixes is an induction over data.
* `NoUseAfterDelete` and `OnlyWaitingRemain` of `Inproc`. They are a matter of counting, as those
  of `Ownership` are, but of two counts that meet: the sequence numbers of a socket, and the
  handshake by which the two ends of each pipe end, which `Pipe_proofs` treats for one pipe.
* `Patterns`, `Session` and `Handshake` compose many operators over large records; a proof of
  their invariants needs a promise of `SocketPipe`, `Connecter` and `Codec` first, the way
  the pollers have one.

## 7. Plan

Theorems worth proving next, in this order:

1. `Inproc`: `NoUseAfterDelete`. Its sequence numbers count commands in mailboxes, so the
   counting lemmas of `Ownership_proofs` serve it; each pair of ends needs `Handshake` of `Pipe_proofs`.
2. `SocketPipe`: a promise of `fq_t` and `lb_t` (the active part of a list is a prefix that
   contains the pipes with something to do), then `NoForgottenPipe` of `Patterns`.

Model extensions worth making: `ypipe_conflate_t` with `dbuffer_t` as a second
implementation of the pipe's queue; the monitor.

## 8. Not modelled, and why

* **C interface, `zmq_poll`, proxy** (`zmq.cpp`, `proxy.cpp`): checks of arguments and
  loops over sockets; no state of their own.
* **Messages, options, addresses**: reference counts of content, a switch over option
  numbers and the parsing of names are data that no modelled branch depends on; options
  that change the control are fields of the scenarios.
* **`ypipe_conflate_t`**: used with `ZMQ_CONFLATE` only.
* **PGM and NORM engines**: their protocols are in libraries that the repository lacks.
* **tweetnacl**: arithmetic out of a model checker's reach; `Curve` takes what it
  promises.
* **Monitor**: observation only. Its socket is used from several threads, which
  sockets do not allow.
* **Windows branches, tests, performance programs and tools.**
* **Other cache policies and programs around them** (Java: fixed split, 2Q, MQ, LRU, FIFO,
  LFU, direct-mapped, `SimpleCache`, the simulators, the JBoss adapter, JCS's
  `ARCMemoryCache`, `LRU_Final`, `LFUCache`, cache2k's `ArcCache`): sequential variations
  on ARC's queues, or fragments of systems that are not in the repository. The concurrent
  code comes first: it is where tests reach least.
* **Vendored and generated trees** (Jackson, JUnit, Eclipse `.metadata`).
