------------------------------- MODULE Userland -------------------------------
(***************************************************************************)
(* The first user programs, and what they are started by: kernel_init      *)
(* (kernel/src/init.rs), /sbin/init (userspace/init) and the shell         *)
(* (userspace/sh/src/main.rs) over the processes and the buffered stdout   *)
(* of libsaeos (process.rs, io.rs).                                        *)
(*                                                                         *)
(* Processes are the kernel's: fork copies a process, its stdout buffer    *)
(* included; exec replaces the program and drops the buffer; a process     *)
(* that ends stays a zombie until its parent waits for it, and its         *)
(* children become PID 1's.  fork may fail (no memory), and so may exec    *)
(* (no file, no program, no memory).                                       *)
(*                                                                         *)
(* What a shell is told to do is a choice among the kinds of command it    *)
(* tells apart; texts are the numbers of the commands that printed them,   *)
(* whole lines or, from echo -n, parts of one.                             *)
(***************************************************************************)
EXTENDS Naturals, FiniteSets, Sequences

CONSTANTS
    MaxPid,         \* processes at a time, and
    MaxCommands,    \* commands in a run: the bounds of this model
    Requested       \* what init= may name

VARIABLES
    kernel,         \* "boot", "up" or "panic"
    inits,          \* the inits still to try
    procs,          \* pid -> process
    shell,          \* init's: the pid of the shell it started, or None
    console,        \* what the screen shows: the texts written to fds 1 and 2
    printed,        \* the whole lines commands printed, in the order they did
    commands        \* how many commands have been run

vars == <<kernel, inits, procs, shell, console, printed, commands>>

Pids == 1..MaxPid
None == 0
NoProc == [prog |-> "none"]

Line(n) == [text |-> n, whole |-> TRUE]
Part(n) == [text |-> n, whole |-> FALSE]

DEFAULT_INITS == <<"/sbin/init", "/etc/init", "/bin/init", "/bin/sh">>

\* What a path runs: an init is the same program wherever it is installed.
Program(path) == IF path = "/bin/sh" THEN "sh" ELSE "init"

\* A process that starts to run `prog`.
Started(prog, parent) ==
    [prog |-> prog, parent |-> parent, at |-> "start", status |-> 0, child |-> None,
     buffer |-> << >>]

Zombie(p, status) == [prog |-> "zombie", parent |-> p.parent, status |-> status]

Alive(p) == procs[p].prog \notin {"none", "zombie"}
ChildrenOf(p) == {c \in Pids : procs[c].prog # "none" /\ procs[c].parent = p}
FreePids == {p \in Pids : procs[p] = NoProc}
NextPid == CHOOSE p \in FreePids : \A q \in FreePids : p <= q

Init ==
    /\ kernel = "boot" /\ inits \in {DEFAULT_INITS} \cup {<<path>> : path \in Requested}
    /\ procs = [p \in Pids |-> NoProc]
    /\ shell = None
    /\ console = << >> /\ printed = << >> /\ commands = 0

---------------------------------------------------------------------------
(* libsaeos and the kernel's processes *)

\* fork: the child has everything the parent has, unwritten output included.
Forked(p, prog) == [procs[p] EXCEPT !.prog = prog, !.parent = p, !.at = "forked", !.child = None]

\* The console with p's buffer sent (io::flush).
Flushed(p) == console \o procs[p].buffer

\* p ends: its buffer has been flushed, its children are PID 1's, and PID 1 itself may not end.
Exit(p, status) ==
    /\ console' = Flushed(p)
    /\ IF p = 1
       THEN kernel' = "panic" /\ UNCHANGED procs
       ELSE /\ procs' = [q \in Pids |->
                           CASE q = p -> Zombie(procs[p], status)
                             [] q \in ChildrenOf(p) -> [procs[q] EXCEPT !.parent = 1]
                             [] OTHER -> procs[q]]
            /\ UNCHANGED kernel

---------------------------------------------------------------------------
(* kernel_init *)

\* The init that init= names, or else the first of the defaults that can be started, becomes PID 1;
\* none: the kernel panics.
KernelInit ==
    /\ kernel = "boot"
    /\ \/ /\ inits # << >>
          /\ procs' = [procs EXCEPT ![1] = Started(Program(Head(inits)), None)]
          /\ kernel' = "up" /\ inits' = << >>
       \/ /\ inits # << >>
          /\ inits' = Tail(inits)
          /\ UNCHANGED <<kernel, procs>>
       \/ /\ inits = << >>
          /\ kernel' = "panic"
          /\ UNCHANGED <<inits, procs>>
    /\ UNCHANGED <<shell, console, printed, commands>>

---------------------------------------------------------------------------
(* /sbin/init *)

InitIs(at) == kernel = "up" /\ procs[1].prog = "init" /\ procs[1].at = at

\* start_shell, after an action that left the processes as `now`
StartShell(now) ==
    /\ \/ /\ shell' = None
          /\ procs' = [now EXCEPT ![1].at = "wait"]
       \/ /\ FreePids # {}
          /\ shell' = NextPid
          /\ procs' = [now EXCEPT ![NextPid] = Forked(1, "starting"), ![1].at = "wait"]

InitStart ==
    /\ InitIs("start") /\ StartShell(procs)
    /\ UNCHANGED <<kernel, inits, console, printed, commands>>

\* The child of start_shell: exec /bin/sh, or exit with 127.
ExecShell(p) ==
    /\ kernel = "up" /\ procs[p].prog = "starting"
    /\ \/ /\ procs' = [procs EXCEPT ![p] = Started("sh", procs[p].parent)]
          /\ UNCHANGED <<kernel, console>>
       \/ Exit(p, 127)
    /\ UNCHANGED <<inits, shell, printed, commands>>

\* Seeded fault: a shell that ends is not started again.
InitReap_Once(p) ==
    /\ InitIs("wait") /\ p \in ChildrenOf(1) /\ procs[p].prog = "zombie"
    /\ procs' = [procs EXCEPT ![p] = NoProc]
    /\ UNCHANGED <<kernel, inits, shell, console, printed, commands>>

\* wait returns one that ended: an orphan, or the shell, which is started again.
InitReap(p) ==
    /\ InitIs("wait") /\ p \in ChildrenOf(1) /\ procs[p].prog = "zombie"
    /\ LET reaped == [procs EXCEPT ![p] = NoProc] IN
       CASE p # shell -> procs' = reaped /\ UNCHANGED shell
         [] procs[p].status = 127 -> shell' = None /\ procs' = reaped
         [] OTHER -> StartShell(reaped)
    /\ UNCHANGED <<kernel, inits, console, printed, commands>>

\* Seeded fault: init spins as soon as it has given up, with children still to collect.
InitAlone_Early ==
    /\ InitIs("wait") /\ (shell = None \/ ChildrenOf(1) = {})
    /\ IF shell = None
       THEN procs' = [procs EXCEPT ![1].at = "spin"] /\ UNCHANGED shell
       ELSE StartShell(procs)
    /\ UNCHANGED <<kernel, inits, console, printed, commands>>

\* wait fails: there are no children.
InitAlone ==
    /\ InitIs("wait") /\ ChildrenOf(1) = {}
    /\ IF shell = None
       THEN procs' = [procs EXCEPT ![1].at = "spin"] /\ UNCHANGED shell
       ELSE StartShell(procs)
    /\ UNCHANGED <<kernel, inits, console, printed, commands>>

---------------------------------------------------------------------------
(* The shell *)

\* A command of the shell p, numbered n, from its prompt; reading a line flushes stdout.
Prompted(p) ==
    /\ kernel = "up" /\ procs[p].prog = "sh" /\ procs[p].at # "waiting"
    /\ commands < MaxCommands /\ commands' = commands + 1
    /\ UNCHANGED <<kernel, inits, shell>>

Done(p, status, buffer) ==
    procs' = [procs EXCEPT ![p].status = status, ![p].buffer = buffer, ![p].at = "ready"]

\* Whether a new line is read first, or the command follows a ";" on the same line.
NewLine == BOOLEAN

ReadFirst(p, fresh) == IF fresh THEN Flushed(p) ELSE console
BufferThen(p, fresh) == IF fresh THEN << >> ELSE procs[p].buffer

\* cd, export, unset and the like; a failure is reported on stderr, after what was printed.
Builtin(p, fresh, ok) ==
    /\ Prompted(p)
    /\ IF ok
       THEN console' = ReadFirst(p, fresh) /\ Done(p, 0, BufferThen(p, fresh))
       ELSE console' = Flushed(p) /\ Done(p, 1, << >>)
    /\ UNCHANGED printed

\* Seeded fault: a newline does not flush.
EchoLine_Kept(p) ==
    /\ Prompted(p)
    /\ console' = console
    /\ Done(p, 0, Append(procs[p].buffer, Line(commands + 1)))
    /\ printed' = Append(printed, commands + 1)

\* echo: the newline flushes stdout (Stdout::write_str) ...
EchoLine(p) ==
    /\ Prompted(p)
    /\ console' = Append(Flushed(p), Line(commands + 1))
    /\ Done(p, 0, << >>)
    /\ printed' = Append(printed, commands + 1)

\* ... and echo -n has none: the text waits in the buffer.
EchoPart(p, fresh) ==
    /\ Prompted(p)
    /\ console' = ReadFirst(p, fresh)
    /\ Done(p, 0, Append(BufferThen(p, fresh), Part(commands + 1)))
    /\ UNCHANGED printed

\* A program that is not found: 127.
NotFound(p) ==
    /\ Prompted(p)
    /\ console' = Flushed(p) /\ Done(p, 127, << >>)
    /\ UNCHANGED printed

\* run_program: fork; the parent waits for this child.
RunProgram(p, fresh) ==
    /\ Prompted(p)
    /\ \/ console' = Flushed(p) /\ Done(p, 1, << >>)
       \/ /\ FreePids # {}
          /\ console' = ReadFirst(p, fresh)
          /\ LET buffer == BufferThen(p, fresh)
             IN  procs' = [procs EXCEPT
                              ![p].at = "waiting", ![p].child = NextPid, ![p].buffer = buffer,
                              ![NextPid] = [Forked(p, "forked") EXCEPT !.buffer = buffer,
                                                                       !.status = commands + 1]]
    /\ UNCHANGED printed

\* The child: a redirection that fails (1), an exec that fails (126), or the program.
ExecProgram(p) ==
    /\ kernel = "up" /\ procs[p].prog = "forked"
    /\ \/ \E status \in {1, 126} : Exit(p, status)
       \/ /\ procs' = [procs EXCEPT ![p] = [Started("program", procs[p].parent)
                                              EXCEPT !.status = procs[p].status]]
          /\ UNCHANGED <<kernel, console>>
    /\ UNCHANGED <<inits, shell, printed, commands>>

\* The shell's wait returns: the status of that child, 128 more than the signal that killed it.
Collect(p) ==
    LET child == procs[p].child
    IN  /\ kernel = "up" /\ procs[p].prog = "sh" /\ procs[p].at = "waiting"
        /\ procs[child].prog = "zombie" /\ procs[child].parent = p
        /\ procs' = [procs EXCEPT ![child] = NoProc, ![p].at = "ready", ![p].child = None,
                                  ![p].status = procs[child].status]
        /\ UNCHANGED <<kernel, inits, shell, console, printed, commands>>

\* exit [CODE], or end of input: the shell ends with its last status, or with the code.
EndShell(p) ==
    /\ kernel = "up" /\ procs[p].prog = "sh" /\ procs[p].at # "waiting"
    /\ \E status \in {procs[p].status, 0} : Exit(p, status)
    /\ UNCHANGED <<inits, shell, printed, commands>>

---------------------------------------------------------------------------
(* Programs *)

\* A program prints a line of its own ...
ProgramPrints(p) ==
    /\ kernel = "up" /\ procs[p].prog = "program" /\ procs[p].at = "start"
    /\ console' = Append(console, Line(procs[p].status))
    /\ printed' = Append(printed, procs[p].status)
    /\ procs' = [procs EXCEPT ![p].at = "printed"]
    /\ UNCHANGED <<kernel, inits, shell, commands>>

\* ... may leave a process behind ...
ProgramForks(p) ==
    /\ kernel = "up" /\ procs[p].prog = "program" /\ procs[p].at = "printed" /\ FreePids # {}
    /\ procs' = [procs EXCEPT ![NextPid] = [Forked(p, "program") EXCEPT !.at = "background"],
                              ![p].at = "forked"]
    /\ UNCHANGED <<kernel, inits, shell, console, printed, commands>>

\* ... and ends, with a code or killed by a signal.
ProgramEnds(p) ==
    /\ kernel = "up" /\ procs[p].prog = "program" /\ procs[p].at # "start"
    /\ \E status \in {0, 128 + 11} : Exit(p, status)
    /\ UNCHANGED <<inits, shell, printed, commands>>

Next ==
    \/ KernelInit \/ InitStart \/ InitAlone
    \/ \E p \in Pids :
        \/ InitReap(p) \/ ExecShell(p) \/ ExecProgram(p) \/ Collect(p) \/ EndShell(p)
        \/ ProgramPrints(p) \/ ProgramForks(p) \/ ProgramEnds(p) \/ NotFound(p) \/ EchoLine(p)
        \/ \E fresh \in NewLine : \/ EchoPart(p, fresh) \/ RunProgram(p, fresh)
                                  \/ \E ok \in BOOLEAN : Builtin(p, fresh, ok)

\* init and the child it starts the shell in run on their own; what a shell is told, and when a
\* program ends, is up to others.
Fairness ==
    /\ WF_vars(KernelInit) /\ WF_vars(InitStart) /\ WF_vars(InitAlone)
    /\ \A p \in Pids : WF_vars(InitReap(p)) /\ WF_vars(ExecShell(p))

Spec == Init /\ [][Next]_vars /\ Fairness

---------------------------------------------------------------------------
(* Properties *)

Up(prog) == kernel = "up" /\ procs[1].prog = prog

\* init gives up for good only when nobody is left for it to collect, and it never ends: the
\* kernel panics only for want of an init, or when a shell that it started as PID 1 ends.
GivesUpAlone ==
    /\ InitIs("spin") => \A p \in Pids \ {1} : procs[p] = NoProc
    /\ kernel = "panic" => procs[1].prog # "init"

\* Whole lines reach the screen once each, in the order the commands printed them: whatever waits
\* in stdout when the shell forks, it is never a line.
LinesInOrder ==
    LET shown == SelectSeq(console, LAMBDA t : t.whole)
    IN  [i \in DOMAIN shown |-> shown[i].text] = printed

\* Whatever ends and whoever is orphaned, init keeps coming back to a state in which its shell
\* runs (or it has given up) and no child of it is left uncollected.
ShellReturns ==
    []<>(Up("init") => /\ shell = None \/ procs[shell].prog = "sh"
                       /\ \A p \in Pids : procs[p].prog = "zombie" => procs[p].parent # 1)
=============================================================================
