--------------------------------- MODULE YPipe ---------------------------------
(***************************************************************************)
(* ypipe_t on yqueue_t: a queue in chunks of N elements between one writer *)
(* and one reader thread.  An action does at most one access to what the   *)
(* threads share, the pointer c and the spare chunk.  Pointers are         *)
(* addresses in chunks, and chunks are recycled by the spare and by        *)
(* malloc, so that an address may come back with another element in it.    *)
(* The threads keep to the rules in the comments of flush and check_read:  *)
(* a reader told that nothing is there sleeps until it is woken, and a     *)
(* writer told that the reader sleeps wakes it before it uses the pipe.    *)
(***************************************************************************)
EXTENDS Naturals, Sequences, SequencesExt

CONSTANTS
    Items,
    N,          \* the granularity of the queue
    Chunks,     \* the memory malloc may return
    MaxLen      \* bound on the elements in the queue

\* malloc returns no null pointer: alloc_assert
ASSUME YPipeAssumption ==
    N \in Nat \ {0, 1} /\ MaxLen \in Nat /\ << >> \notin Chunks

VARIABLES
    chunks,             \* the linked list from begin_chunk to end_chunk
    begin_pos, back, end_pos, spare,
    values,             \* the memory
    w, f, r, c,
    writer,             \* "ready", "asleep seen" (the CAS of flush failed), "must wake"
    reader,             \* "awake", "checked" (check_read returned true), "asleep"
    got                 \* the last item read

queueVars == <<chunks, begin_pos, back, end_pos, spare, values>>
vars == <<queueVars, w, f, r, c, writer, reader, got>>

Null == << >>
Addresses == Chunks \X (0..(N - 1))
front == <<Head(chunks), begin_pos>>

\* yqueue_t's constructor and the push of the terminator in ypipe_t's
Init ==
    /\ \E ch \in Chunks : chunks = <<ch>>
    /\ begin_pos = 0 /\ back = <<Head(chunks), 0>> /\ end_pos = 1 /\ spare = Null
    /\ values \in {[a \in Addresses |-> v] : v \in Items}
    /\ w = back /\ f = back /\ r = back /\ c = back
    /\ writer = "ready" /\ reader = "awake" /\ got = << >>

\* The position of a live address, counted from the start of the list.
Offset(a) == (CHOOSE i \in DOMAIN chunks : chunks[i] = a[1]) * N + a[2]
Length == Offset(back) - Offset(front)

Push ==
    /\ back' = <<Last(chunks), end_pos>>
    /\ \/ end_pos + 1 # N /\ end_pos' = end_pos + 1 /\ UNCHANGED <<chunks, spare>>
       \/ /\ end_pos + 1 = N /\ end_pos' = 0 /\ spare' = Null
          /\ \E ch \in IF spare # Null THEN {spare} ELSE Chunks \ ToSet(chunks) :
                chunks' = Append(chunks, ch)

Write(v, incomplete) ==
    /\ writer = "ready" /\ Length < MaxLen
    /\ values' = [values EXCEPT ![back] = v]
    /\ Push
    /\ f' = IF incomplete THEN f ELSE back'
    /\ UNCHANGED <<begin_pos, w, r, c, writer, reader, got>>

\* Mutant: the end chunk that becomes obsolete is not freed.
UnpushKeepsChunk ==
    /\ back' = IF back[2] > 0 THEN <<back[1], back[2] - 1>>
               ELSE <<chunks[Len(chunks) - 1], N - 1>>
    /\ end_pos' = IF end_pos > 0 THEN end_pos - 1 ELSE N - 1
    /\ UNCHANGED chunks

Unpush ==
    /\ back' = IF back[2] > 0 THEN <<back[1], back[2] - 1>>
               ELSE <<chunks[Len(chunks) - 1], N - 1>>
    /\ IF end_pos > 0 THEN end_pos' = end_pos - 1 /\ UNCHANGED chunks
                      ELSE end_pos' = N - 1 /\ chunks' = Front(chunks)

Unwrite ==
    /\ writer = "ready" /\ f # back
    /\ Unpush
    /\ UNCHANGED <<begin_pos, spare, values, w, f, r, c, writer, reader, got>>

\* flush up to the compare-and-swap, and what follows when it failed: c is set and
\* the caller is told to wake the reader
Flush ==
    /\ writer = "ready" /\ w # f
    /\ IF c = w THEN c' = f /\ w' = f /\ UNCHANGED writer
                ELSE writer' = "asleep seen" /\ UNCHANGED <<c, w>>
    /\ UNCHANGED <<queueVars, f, r, reader, got>>

\* Mutant: c is set and the caller is not told.
FlushForgets ==
    /\ writer = "asleep seen"
    /\ c' = f /\ w' = f /\ writer' = "ready"
    /\ UNCHANGED <<queueVars, f, r, reader, got>>

FlushAsleep ==
    /\ writer = "asleep seen"
    /\ c' = f /\ w' = f /\ writer' = "must wake"
    /\ UNCHANGED <<queueVars, f, r, reader, got>>

\* the caller of flush wakes the reader (activate_read of a pipe, the signal of a mailbox)
Wake ==
    /\ writer = "must wake"
    /\ writer' = "ready" /\ reader' = "awake"
    /\ UNCHANGED <<queueVars, w, f, r, c, got>>

\* Mutant: c is read and set to null without comparing.
CheckReadClears ==
    /\ reader = "awake"
    /\ IF front # r /\ r # Null
         THEN reader' = "checked" /\ UNCHANGED <<r, c>>
         ELSE /\ r' = c
              /\ c' = Null
              /\ reader' = IF r' \in {front, Null} THEN "asleep" ELSE "checked"
    /\ UNCHANGED <<queueVars, w, f, writer, got>>

CheckRead ==
    /\ reader = "awake"
    /\ IF front # r /\ r # Null
         THEN reader' = "checked" /\ UNCHANGED <<r, c>>
         ELSE /\ r' = c
              /\ c' = IF c = front THEN Null ELSE c
              /\ reader' = IF r' \in {front, Null} THEN "asleep" ELSE "checked"
    /\ UNCHANGED <<queueVars, w, f, writer, got>>

Pop ==
    IF begin_pos + 1 < N
      THEN begin_pos' = begin_pos + 1 /\ UNCHANGED <<chunks, spare>>
      ELSE begin_pos' = 0 /\ chunks' = Tail(chunks) /\ spare' = Head(chunks)

Read ==
    /\ reader = "checked"
    /\ got' = <<values[front]>>
    /\ Pop
    /\ reader' = "awake"
    /\ UNCHANGED <<back, end_pos, values, w, f, r, c, writer>>

Next ==
    \/ \E v \in Items, incomplete \in BOOLEAN : Write(v, incomplete)
    \/ Unwrite \/ Flush \/ FlushAsleep \/ Wake \/ CheckRead \/ Read

Spec == Init /\ [][Next]_vars
-----------------------------------------------------------------------------
\* The pointers of both threads point to elements between front and back, so that
\* neither ever follows a pointer into a chunk that was freed, and no chunk is in
\* the list twice or in the list and spare.
PointersLive ==
    /\ IsInjective(chunks) /\ spare \notin ToSet(chunks)
    /\ back = IF end_pos > 0 THEN <<Last(chunks), end_pos - 1>>
              ELSE <<chunks[Len(chunks) - 1], N - 1>>
    /\ \A p \in {w, f, r, c} \ {Null} :
          /\ p[1] \in ToSet(chunks)
          /\ Offset(front) <= Offset(p) /\ Offset(p) <= Offset(back)

\* A reader that sleeps misses nothing: what was flushed since is announced by the
\* writer's wake-up call that is still to come.
NoLostWakeup ==
    reader = "asleep" => c = Null \/ writer = "must wake"

Between(a, b) ==
    [i \in 1..(Offset(b) - Offset(a)) |->
        LET o == Offset(a) + i - 1 IN values[<<chunks[o \div N], o % N>>]]

\* The lock-free pipe implements the queue, recycled addresses notwithstanding: its
\* two compare-and-swaps never mistake an old pointer for a new one.
Queue == INSTANCE FlushQueue
    WITH flushed <- Between(front, w), pending <- Between(w, f),
         partial <- Between(f, back), asleep <- c = Null
ImplementsQueue == Queue!Spec
=============================================================================
