-------------------------------- MODULE IoThread --------------------------------
(***************************************************************************)
(* An I/O thread: the loop of its poller, the timers of poller_base_t and  *)
(* the mailbox through which other threads send it commands.  The objects  *)
(* that live in the thread (listeners, connecters, engines, sessions) do   *)
(* in a callback what they please with their own registration: any of the  *)
(* operations of io_object_t, any number of times.                         *)
(***************************************************************************)
EXTENDS Integers, Sequences, SequencesExt, FiniteSets, Poller

CONSTANTS
    Objects,        \* the objects in the thread
    Senders,        \* the threads that send it commands
    MaxCommands,    \* bound on the commands in the mailbox
    MaxMoves        \* bound on what the objects do between two clean-ups of the poller

ASSUME IoThreadAssumption ==
    0 \in Fds /\ "io_thread" \notin Objects /\ MaxCommands \in Nat /\ MaxMoves \in Nat

MailboxFd == 0
Self == "io_thread"
NoHandle == -1

VARIABLES
    kind, poller,
    objects,        \* the registration of each object: descriptor, handle, events
    timers,         \* the timers in the order of their expiration, one per object
    phase,          \* where the thread is
    pos, stage, done,   \* the loop over the events of a batch
    cpipe, asleep,  \* the commands in the mailbox, and ypipe_t's sleeping reader
    active,         \* mailbox_t
    signals,        \* what can be read from the signaler
    signalling,     \* the senders that are to call signaler.send
    stopping, stopSent,
    moves,
    due,            \* the objects the events of this batch are about
    stray, failed   \* an event came to another object; an assertion failed

loopVars == <<pos, stage, done, moves, due, stray>>
mailVars == <<cpipe, asleep, active, signals, signalling, stopSent, failed>>
vars == <<kind, poller, objects, timers, phase, loopVars, mailVars, stopping>>

Unplugged == [fd |-> NoHandle, handle |-> NoHandle, events |-> {}]
Plugged == {o \in Objects : objects[o] # Unplugged}
NoPos == <<>>

\* the order in which the events of an entry are looked at, each after a check that the
\* entry is not retired
Stages == <<"err", "out", "in">>

Init ==
    /\ kind \in Kinds
    /\ LET p == AddFd(kind, New(kind), MailboxFd, Self)
       IN  poller = SetPoll(kind, p, Fresh(kind, New(kind), MailboxFd), "in")
    /\ objects = [o \in Objects |-> Unplugged]
    /\ timers = << >> /\ phase = "top" /\ pos = NoPos /\ stage = 0 /\ done = {}
    /\ cpipe = << >> /\ asleep = TRUE /\ active = FALSE /\ signals = 0 /\ signalling = {}
    /\ stopping = FALSE /\ stopSent = FALSE /\ moves = 0 /\ due = {} /\ stray = FALSE /\ failed = FALSE
-----------------------------------------------------------------------------
\* mailbox_t::send, up to the call of signaler.send
Send(s, cmd) ==
    /\ s \notin signalling /\ Len(cpipe) < MaxCommands /\ ~stopSent
    /\ cmd = "stop" => Plugged = {} /\ cpipe = << >> /\ phase \notin {"callback", "command"}
    /\ cpipe' = Append(cpipe, cmd)
    /\ asleep' = FALSE
    /\ signalling' = IF asleep THEN signalling \cup {s} ELSE signalling
    /\ stopSent' = (cmd = "stop")
    /\ UNCHANGED <<kind, poller, objects, timers, phase, loopVars, active, signals, stopping, failed>>

Signal(s) ==
    /\ s \in signalling
    /\ signalling' = signalling \ {s} /\ signals' = signals + 1
    /\ UNCHANGED <<kind, poller, objects, timers, phase, loopVars, cpipe, asleep, active, stopping,
                   stopSent, failed>>

\* io_thread_t::process_stop, and any other command, in which an object may do things
Process(cmd) ==
    \/ /\ cmd = "work" /\ phase' = "command"
       /\ UNCHANGED <<poller, stopping>>
    \/ /\ cmd = "stop" /\ phase' = "recv" /\ stopping' = TRUE
       /\ poller' = RmFd(kind, poller, Fresh(kind, New(kind), MailboxFd))

\* mailbox_t::recv, called by io_thread_t::in_event until there is nothing.
\* Mutant: the mailbox stays active when it has found nothing.
RecvStaysActive ==
    /\ phase = "recv"
    /\ \/ /\ active /\ cpipe # << >>
          /\ cpipe' = Tail(cpipe) /\ Process(Head(cpipe))
          /\ UNCHANGED <<asleep, active>>
       \/ /\ active /\ cpipe = << >>
          /\ asleep' = TRUE /\ phase' = "dispatch"
          /\ UNCHANGED <<poller, stopping, cpipe, active>>
       \/ /\ ~active
          /\ phase' = "recv wait"
          /\ UNCHANGED <<poller, stopping, cpipe, asleep, active>>
    /\ UNCHANGED <<kind, objects, timers, loopVars, signals, signalling, stopSent, failed>>

\* Mutant: the reader of the pipe is not put to sleep when it finds nothing.
RecvStaysAwake ==
    /\ phase = "recv"
    /\ \/ /\ active /\ cpipe # << >>
          /\ cpipe' = Tail(cpipe) /\ Process(Head(cpipe))
          /\ UNCHANGED <<asleep, active>>
       \/ /\ active /\ cpipe = << >>
          /\ active' = FALSE /\ phase' = "recv wait"
          /\ UNCHANGED <<poller, stopping, cpipe, asleep>>
       \/ /\ ~active
          /\ phase' = "recv wait"
          /\ UNCHANGED <<poller, stopping, cpipe, asleep, active>>
    /\ UNCHANGED <<kind, objects, timers, loopVars, signals, signalling, stopSent, failed>>

Recv ==
    /\ phase = "recv"
    /\ \/ /\ active /\ cpipe # << >>
          /\ cpipe' = Tail(cpipe) /\ Process(Head(cpipe))
          /\ UNCHANGED <<asleep, active>>
       \/ /\ active /\ cpipe = << >>
          /\ asleep' = TRUE /\ active' = FALSE /\ phase' = "recv wait"
          /\ UNCHANGED <<poller, stopping, cpipe>>
       \/ /\ ~active
          /\ phase' = "recv wait"
          /\ UNCHANGED <<poller, stopping, cpipe, asleep, active>>
    /\ UNCHANGED <<kind, objects, timers, loopVars, signals, signalling, stopSent, failed>>

\* signaler.wait (0), signaler.recv and the read that must not fail
RecvWait ==
    /\ phase = "recv wait"
    /\ IF signals = 0
         THEN phase' = "dispatch" /\ UNCHANGED <<poller, stopping, cpipe, active, signals, failed>>
         ELSE /\ signals' = signals - 1 /\ active' = TRUE
              /\ failed' = (cpipe = << >> \/ signals > 2)
              /\ IF cpipe = << >> THEN phase' = "exited" /\ UNCHANGED <<poller, stopping, cpipe>>
                                  ELSE cpipe' = Tail(cpipe) /\ Process(Head(cpipe))
    /\ UNCHANGED <<kind, objects, timers, loopVars, asleep, signalling, stopSent>>
-----------------------------------------------------------------------------
\* while (!stopping), and execute_timers: the timers that are due fire in their order,
\* and a timer is erased when its callback has returned
Top ==
    /\ phase = "top"
    /\ phase' = IF stopping THEN "exited" ELSE "timers"
    /\ poller' = IF stopping THEN poller ELSE LoopTop(kind, poller)
    /\ UNCHANGED <<kind, objects, timers, loopVars, mailVars, stopping>>

FireTimer ==
    /\ phase = "timers" /\ timers # << >>
    /\ phase' = "timer callback"
    /\ UNCHANGED <<kind, poller, objects, timers, loopVars, mailVars, stopping>>

\* The wait for events: whatever happened to what is watched, and the signal if one is
\* there; or nothing, at a time-out or an interruption, and then poll and select do not
\* clean up.
Wait(reported) ==
    /\ phase = "timers"
    /\ signals > 0 => <<MailboxFd, "in">> \in reported
    /\ <<MailboxFd, "in">> \in reported => signals > 0
    /\ <<MailboxFd, "err">> \notin reported
    /\ poller' = Waited(kind, poller, reported)
    /\ due' = {o \in Plugged : \E x \in reported : x[1] = objects[o].fd}
    /\ phase' = IF reported # {} \/ kind \notin {"poll", "select"} THEN "dispatch" ELSE "top"
    /\ UNCHANGED <<kind, objects, timers, pos, stage, done, moves, stray, mailVars, stopping>>

Interrupted ==
    /\ phase = "timers" /\ signals = 0
    /\ phase' = "top"
    /\ UNCHANGED <<kind, poller, objects, timers, loopVars, mailVars, stopping>>

\* the body of the loop over the events, an event of an entry at a time
Pick ==
    /\ phase = "dispatch" /\ pos = NoPos
    /\ \E e \in Todo(kind, poller, done) : pos' = <<e>>
    /\ poller' = Point(kind, poller)
    /\ UNCHANGED <<kind, objects, timers, phase, stage, done, moves, due, stray, mailVars, stopping>>

Deliver ==
    /\ phase = "dispatch" /\ pos # NoPos
    /\ LET e    == pos[1]
           sink == Sink(kind, poller, e)
           left == {i \in (stage + 1)..3 : Has(kind, poller, e, Stages[i])}
       IN  IF Skip(kind, poller, e) \/ left = {}
             THEN /\ pos' = NoPos /\ stage' = 0 /\ done' = done \cup {e}
                  /\ UNCHANGED <<phase, stray>>
             ELSE /\ stage' = CHOOSE i \in left : \A j \in left : i <= j
                  /\ phase' = IF sink = Self THEN "recv" ELSE "callback"
                  /\ stray' = (stray \/ sink \notin due \cup {Self})
                  /\ UNCHANGED <<pos, done>>
    /\ UNCHANGED <<kind, poller, objects, timers, moves, due, mailVars, stopping>>

\* the retired entries are destroyed
EndOfBatch ==
    /\ phase = "dispatch" /\ pos = NoPos /\ Todo(kind, poller, done) = {}
    /\ poller' = Cleanup(kind, poller) /\ done' = {} /\ due' = {} /\ moves' = 0 /\ phase' = "top"
    /\ UNCHANGED <<kind, objects, timers, pos, stage, stray, mailVars, stopping>>
-----------------------------------------------------------------------------
InCallback == phase \in {"callback", "command", "timer callback"}
calleeVars == <<kind, phase, pos, stage, done, stray, mailVars, stopping>>

Return ==
    \/ /\ phase = "callback" /\ phase' = "dispatch"
       /\ UNCHANGED <<kind, poller, objects, timers, loopVars, mailVars, stopping>>
    \/ /\ phase = "command" /\ phase' = "recv"
       /\ UNCHANGED <<kind, poller, objects, timers, loopVars, mailVars, stopping>>
    \/ /\ phase = "timer callback" /\ phase' = "timers" /\ timers' = Tail(timers)
       /\ UNCHANGED <<kind, poller, objects, loopVars, mailVars, stopping>>

Move == InCallback /\ moves < MaxMoves /\ moves' = moves + 1

\* io_object_t::plug and add_fd, with a descriptor the kernel has free.  Listeners, engines
\* and sockets are plugged by a command, connecters by a command or their timer: none of
\* them from in_event or out_event, where all that follows a connection goes through
\* commands.  Mutant: in any callback.
PlugAnywhere(o, fd) ==
    /\ Move /\ o \notin Plugged
    /\ \A q \in Plugged : objects[q].fd # fd
    /\ objects' = [objects EXCEPT ![o] = [fd |-> fd, handle |-> Fresh(kind, poller, fd), events |-> {}]]
    /\ poller' = AddFd(kind, poller, fd, o)
    /\ UNCHANGED <<timers, due, calleeVars>>

Plug(o, fd) ==
    /\ Move /\ phase \in {"command", "timer callback"} /\ o \notin Plugged
    /\ \A q \in Plugged : objects[q].fd # fd
    /\ objects' = [objects EXCEPT ![o] = [fd |-> fd, handle |-> Fresh(kind, poller, fd), events |-> {}]]
    /\ poller' = AddFd(kind, poller, fd, o)
    /\ UNCHANGED <<timers, due, calleeVars>>

\* rm_fd, the cancellation of the object's timer (not the one that fires) and close
Unplug(o) ==
    /\ Move /\ o \in Plugged
    /\ phase = "timer callback" => Head(timers) # o
    /\ objects' = [objects EXCEPT ![o] = Unplugged]
    /\ poller' = RmFd(kind, poller, objects[o].handle)
    /\ timers' = Remove(timers, o)
    /\ due' = due \ {o}
    /\ UNCHANGED calleeVars

SetPollEvent(o, ev) ==
    /\ Move /\ o \in Plugged /\ ev \notin objects[o].events
    /\ objects' = [objects EXCEPT ![o].events = @ \cup {ev}]
    /\ poller' = SetPoll(kind, poller, objects[o].handle, ev)
    /\ UNCHANGED <<timers, due, calleeVars>>

ResetPollEvent(o, ev) ==
    /\ Move /\ o \in Plugged /\ ev \in objects[o].events
    /\ objects' = [objects EXCEPT ![o].events = @ \ {ev}]
    /\ poller' = ResetPoll(kind, poller, objects[o].handle, ev)
    /\ UNCHANGED <<timers, due, calleeVars>>

\* add_timer: a timer set in a timer's callback expires after the one that fires
AddTimer(o) ==
    /\ Move /\ o \in Plugged /\ o \notin ToSet(timers)
    /\ \E i \in (IF phase = "timer callback" THEN 2 ELSE 1)..(Len(timers) + 1) :
          timers' = InsertAt(timers, i, o)
    /\ UNCHANGED <<poller, objects, due, calleeVars>>

CancelTimer(o) ==
    /\ Move /\ o \in ToSet(timers)
    /\ phase = "timer callback" => Head(timers) # o
    /\ timers' = Remove(timers, o)
    /\ UNCHANGED <<poller, objects, due, calleeVars>>

Callee ==
    \/ \E o \in Objects, fd \in Fds \ {MailboxFd} : Plug(o, fd)
    \/ \E o \in Objects : Unplug(o) \/ AddTimer(o) \/ CancelTimer(o)
    \/ \E o \in Objects, ev \in {"in", "out"} : SetPollEvent(o, ev) \/ ResetPollEvent(o, ev)

Loop ==
    \/ Top \/ FireTimer \/ Interrupted \/ Pick \/ Deliver \/ EndOfBatch \/ Recv \/ RecvWait
    \/ \E reported \in SUBSET Watched(kind, poller) : Wait(reported)

Exited == phase = "exited" /\ UNCHANGED vars

Next ==
    \/ Loop \/ Return \/ Callee \/ Exited
    \/ \E s \in Senders : Signal(s) \/ \E cmd \in {"work", "stop"} : Send(s, cmd)

\* The thread runs, a callback returns, and a sender goes on to signal.  A busy timer
\* does not keep the thread from its descriptors: a timer that is set again is not due
\* before the pass is over.
Spec ==
    /\ Init /\ [][Next]_vars
    /\ WF_vars(Loop) /\ WF_vars(Return) /\ \A s \in Senders : WF_vars(Signal(s))
    /\ WF_vars(\E reported \in SUBSET Watched(kind, poller) : Wait(reported))
-----------------------------------------------------------------------------
\* A callback is made to the object its event was reported for, although a callback
\* earlier in the same batch may have removed that object and given its descriptor,
\* with the same number, to another one.
EventsToTheirOwner == ~stray

\* What the poller watches is what the objects asked for, through retired entries,
\* reused descriptor numbers and the compaction of the arrays.
WatchesWhatWasAsked ==
    /\ {x \in Watched(kind, poller) : x[2] # "err" /\ x[1] # MailboxFd} =
          UNION {{objects[o].fd} \X objects[o].events : o \in Plugged}
    /\ ~stopping <=> <<MailboxFd, "in">> \in Watched(kind, poller)

\* devpoll's loop never reads an entry through a pointer to where the table was: whatever
\* the callbacks of the entry do, the table does not grow before its last event has been
\* delivered.
EntryInPlace ==
    phase = "dispatch" /\ pos # NoPos /\ stage < Len(Stages) => ~Dangles(kind, poller)

\* The signaler carries at most one signal, and a mailbox that was signalled has a
\* command: the assertion in mailbox_t::recv.
OneSignal == signals + Cardinality(signalling) <= 1 /\ ~failed

\* A command that is sent is processed, unless the thread has been told to stop.
CommandsProcessed == (cpipe # << >>) ~> (phase = "command" \/ phase = "exited")
=============================================================================
