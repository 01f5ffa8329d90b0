---------------------------- MODULE ProcessLease ----------------------------
(***************************************************************************)
(* What the pool of pi processes promises to the callers of Acquire and    *)
(* Release, with nothing of how it keeps the promise: callers stand in one *)
(* line, the head of the line is given a live process that nobody else     *)
(* has, and never more than Size processes exist.                          *)
(***************************************************************************)
EXTENDS Naturals, FiniteSets, Sequences, SequencesExt

CONSTANTS Callers,   \* goroutines that may ask for a process
          Procs,     \* process identities
          Size,      \* the configured capacity
          None       \* "no process"

VARIABLES line,      \* the callers waiting, in order of arrival
          lease,     \* the process each caller has, or None
          live       \* the processes that occupy a slot

vars == <<line, lease, live>>

Waiting(c) == \E i \in DOMAIN line : line[i] = c
Free(p) == \A c \in Callers : lease[c] # p

Init == /\ line = <<>>
        /\ lease = [c \in Callers |-> None]
        /\ live = {}

\* A caller with no process and no place in the line joins its end.
Request(c) == /\ ~Waiting(c)
              /\ lease[c] = None
              /\ line' = Append(line, c)
              /\ UNCHANGED <<lease, live>>

\* The caller at position i leaves without a process: its context was
\* cancelled, or a process failed and the head of the line hears about it.
Leave(i) == /\ i \in DOMAIN line
            /\ line' = RemoveAt(line, i)
            /\ UNCHANGED <<lease, live>>

\* Only the head of the line is served, with a live process nobody has.
Grant(p) == /\ line # <<>>
            /\ p \in live
            /\ Free(p)
            /\ lease' = [lease EXCEPT ![Head(line)] = p]
            /\ line' = Tail(line)
            /\ UNCHANGED live

GiveBack(c) == /\ lease[c] # None
               /\ lease' = [lease EXCEPT ![c] = None]
               /\ UNCHANGED <<line, live>>

Spawn(p) == /\ p \notin live
            /\ Free(p)
            /\ Cardinality(live) < Size
            /\ live' = live \cup {p}
            /\ UNCHANGED <<line, lease>>

\* A process may go at any time. When the line is told, its head leaves too.
Exit(p) == /\ p \in live
           /\ live' = live \ {p}
           /\ line' \in {line} \cup (IF line = <<>> THEN {} ELSE {Tail(line)})
           /\ UNCHANGED lease

\* Closing the pool turns everybody away at once.
Disband == /\ line # <<>>
           /\ line' = <<>>
           /\ UNCHANGED <<lease, live>>

Next == \/ \E c \in Callers : Request(c) \/ GiveBack(c)
        \/ \E i \in DOMAIN line : Leave(i)
        \/ \E p \in Procs : Grant(p) \/ Spawn(p) \/ Exit(p)
        \/ Disband

Spec == Init /\ [][Next]_vars
=============================================================================
