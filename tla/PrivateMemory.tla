---------------------------- MODULE PrivateMemory ----------------------------
(***************************************************************************)
(* What fork and the page tables promise user code: every address space    *)
(* has memory of its own.  fork copies all of it, a write changes one page *)
(* of one space, and nothing a space does is seen in another.  There are   *)
(* no frames here, no reference counts and no sharing; CowMemory shows how *)
(* kernel/src/mm gets this effect while sharing frames.                    *)
(***************************************************************************)
CONSTANTS Space, Page, Value,
          Unmapped,     \* what an unmapped page reads as
          DeviceMemory  \* a page of device memory: not private, so its bytes are not ours

VARIABLES live,         \* the spaces that exist
          view          \* view[s][v]: what space s reads at page v

vars == <<live, view>>

Content == Value \cup {Unmapped, DeviceMemory}
Empty == [v \in Page |-> Unmapped]

Init == live = {} /\ view = [s \in Space |-> Empty]

Create(s) ==
    /\ s \notin live /\ live' = live \cup {s} /\ UNCHANGED view

Destroy(s) ==
    /\ s \in live /\ live' = live \ {s}
    /\ view' = [view EXCEPT ![s] = Empty]

Fork(s, c) ==
    /\ s \in live /\ c \notin live /\ live' = live \cup {c}
    /\ view' = [view EXCEPT ![c] = view[s]]

\* mmap, brk and exec give a page its first content; munmap takes it away.
Map(s, v, x) ==
    /\ s \in live /\ view[s][v] = Unmapped
    /\ view' = [view EXCEPT ![s][v] = x]
    /\ UNCHANGED live

Unmap(s, v) ==
    /\ s \in live
    /\ view' = [view EXCEPT ![s][v] = Unmapped]
    /\ UNCHANGED live

Write(s, v, x) ==
    /\ s \in live /\ view[s][v] \in Value
    /\ view' = [view EXCEPT ![s][v] = x]
    /\ UNCHANGED live

Next ==
    \E s \in Space :
        \/ Create(s) \/ Destroy(s) \/ \E c \in Space : Fork(s, c)
        \/ \E v \in Page :
             \/ Unmap(s, v) \/ Map(s, v, DeviceMemory)
             \/ \E x \in Value : Map(s, v, x) \/ Write(s, v, x)

Spec == Init /\ [][Next]_vars
=============================================================================
