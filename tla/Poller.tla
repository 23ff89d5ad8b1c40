--------------------------------- MODULE Poller ---------------------------------
(***************************************************************************)
(* poller_t: the poller the build selects for the platform.  All have the  *)
(* same interface; their common state is their own.                        *)
(***************************************************************************)
EXTENDS Retired

CONSTANT Fds        \* the descriptors the kernel hands out

ASSUME PollerAssumption == Fds \subseteq Nat

Epoll == INSTANCE Epoll
Poll == INSTANCE Poll
Select == INSTANCE Select
Kqueue == INSTANCE Kqueue
Devpoll == INSTANCE Devpoll

Kinds == {"epoll", "poll", "select", "kqueue", "devpoll"}

New(kind) ==
    CASE kind = "epoll" -> Epoll!New
      [] kind = "poll" -> Poll!New
      [] kind = "select" -> Select!New
      [] kind = "kqueue" -> Kqueue!New
      [] kind = "devpoll" -> Devpoll!New

Fresh(kind, p, fd) ==
    CASE kind = "epoll" -> Epoll!Fresh(p, fd)
      [] kind = "poll" -> Poll!Fresh(p, fd)
      [] kind = "select" -> Select!Fresh(p, fd)
      [] kind = "kqueue" -> Kqueue!Fresh(p, fd)
      [] kind = "devpoll" -> Devpoll!Fresh(p, fd)

AddFd(kind, p, fd, sink) ==
    CASE kind = "epoll" -> Epoll!AddFd(p, fd, sink)
      [] kind = "poll" -> Poll!AddFd(p, fd, sink)
      [] kind = "select" -> Select!AddFd(p, fd, sink)
      [] kind = "kqueue" -> Kqueue!AddFd(p, fd, sink)
      [] kind = "devpoll" -> Devpoll!AddFd(p, fd, sink)

RmFd(kind, p, h) ==
    CASE kind = "epoll" -> Epoll!RmFd(p, h)
      [] kind = "poll" -> Poll!RmFd(p, h)
      [] kind = "select" -> Select!RmFd(p, h)
      [] kind = "kqueue" -> Kqueue!RmFd(p, h)
      [] kind = "devpoll" -> Devpoll!RmFd(p, h)

SetPoll(kind, p, h, ev) ==
    CASE kind = "epoll" -> Epoll!SetPoll(p, h, ev)
      [] kind = "poll" -> Poll!SetPoll(p, h, ev)
      [] kind = "select" -> Select!SetPoll(p, h, ev)
      [] kind = "kqueue" -> Kqueue!SetPoll(p, h, ev)
      [] kind = "devpoll" -> Devpoll!SetPoll(p, h, ev)

ResetPoll(kind, p, h, ev) ==
    CASE kind = "epoll" -> Epoll!ResetPoll(p, h, ev)
      [] kind = "poll" -> Poll!ResetPoll(p, h, ev)
      [] kind = "select" -> Select!ResetPoll(p, h, ev)
      [] kind = "kqueue" -> Kqueue!ResetPoll(p, h, ev)
      [] kind = "devpoll" -> Devpoll!ResetPoll(p, h, ev)

Watched(kind, p) ==
    CASE kind = "epoll" -> Epoll!Watched(p)
      [] kind = "poll" -> Poll!Watched(p)
      [] kind = "select" -> Select!Watched(p)
      [] kind = "kqueue" -> Kqueue!Watched(p)
      [] kind = "devpoll" -> Devpoll!Watched(p)

LoopTop(kind, p) ==
    CASE kind = "epoll" -> Epoll!LoopTop(p)
      [] kind = "poll" -> Poll!LoopTop(p)
      [] kind = "select" -> Select!LoopTop(p)
      [] kind = "kqueue" -> Kqueue!LoopTop(p)
      [] kind = "devpoll" -> Devpoll!LoopTop(p)

Waited(kind, p, reported) ==
    CASE kind = "epoll" -> Epoll!Waited(p, reported)
      [] kind = "poll" -> Poll!Waited(p, reported)
      [] kind = "select" -> Select!Waited(p, reported)
      [] kind = "kqueue" -> Kqueue!Waited(p, reported)
      [] kind = "devpoll" -> Devpoll!Waited(p, reported)

Todo(kind, p, done) ==
    CASE kind = "epoll" -> Epoll!Todo(p, done)
      [] kind = "poll" -> Poll!Todo(p, done)
      [] kind = "select" -> Select!Todo(p, done)
      [] kind = "kqueue" -> Kqueue!Todo(p, done)
      [] kind = "devpoll" -> Devpoll!Todo(p, done)

Skip(kind, p, pos) ==
    CASE kind = "epoll" -> Epoll!Skip(p, pos)
      [] kind = "poll" -> Poll!Skip(p, pos)
      [] kind = "select" -> Select!Skip(p, pos)
      [] kind = "kqueue" -> Kqueue!Skip(p, pos)
      [] kind = "devpoll" -> Devpoll!Skip(p, pos)

Has(kind, p, pos, ev) ==
    CASE kind = "epoll" -> Epoll!Has(p, pos, ev)
      [] kind = "poll" -> Poll!Has(p, pos, ev)
      [] kind = "select" -> Select!Has(p, pos, ev)
      [] kind = "kqueue" -> Kqueue!Has(p, pos, ev)
      [] kind = "devpoll" -> Devpoll!Has(p, pos, ev)

Sink(kind, p, pos) ==
    CASE kind = "epoll" -> Epoll!Sink(p, pos)
      [] kind = "poll" -> Poll!Sink(p, pos)
      [] kind = "select" -> Select!Sink(p, pos)
      [] kind = "kqueue" -> Kqueue!Sink(p, pos)
      [] kind = "devpoll" -> Devpoll!Sink(p, pos)

\* Only devpoll keeps a pointer to an entry of a vector while it makes its callbacks: epoll
\* and kqueue point to entries of their own on the heap, poll and select index again.
Point(kind, p) == IF kind = "devpoll" THEN Devpoll!Point(p) ELSE p
Dangles(kind, p) == kind = "devpoll" /\ Devpoll!Dangles(p)

Cleanup(kind, p) ==
    CASE kind = "epoll" -> Epoll!Cleanup(p)
      [] kind = "poll" -> Poll!Cleanup(p)
      [] kind = "select" -> Select!Cleanup(p)
      [] kind = "kqueue" -> Kqueue!Cleanup(p)
      [] kind = "devpoll" -> Devpoll!Cleanup(p)
=============================================================================
