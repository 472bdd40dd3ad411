------------------------------ MODULE MCTerminal ------------------------------
(* The console with a keyboard and a serial line that send a few kinds of    *)
(* byte, init, the shells and the programs that run on it, and the parser of *)
(* the lines typed, for TLC.  The models have no variable in common and      *)
(* every behaviour is one of `model` alone: three checks that share a state  *)
(* graph.                                                                    *)
EXTENDS Console

CONSTANTS MaxPid, MaxCommands, Requested,      \* Userland
          MaxLine                           \* ShellParse

VARIABLES
    model,      \* "console", "userland" or "parser"
    kernel, inits, procs, shell, screen, printed, commands,
    typed_line

MCKeys == {"a", "\t", "Erase", "c", "d"}
MCSerial == {<<"S", "C">>, <<"a", "Enter">>, <<"a", " ">>, <<" ", "^W">>, <<"^U", "other">>}

MCAlphabet == {"a", " ", ";", ">", "'", "\"", "\\", "$", "#"}

U == INSTANCE Userland WITH console <- screen
L == INSTANCE ShellParse WITH Alphabet <- MCAlphabet, line <- typed_line

userVars == <<kernel, inits, procs, shell, screen, printed, commands>>

\* The models other than the chosen one keep their first state.
MCInit ==
    /\ model \in {"console", "userland", "parser"}
    /\ Init
    /\ U!Init /\ (model # "userland" => inits = U!DEFAULT_INITS)
    /\ L!Init

MCNext ==
    /\ UNCHANGED model
    /\ \/ model = "console" /\ Next /\ UNCHANGED <<userVars, typed_line>>
       \/ model = "userland" /\ U!Next /\ UNCHANGED <<vars, typed_line>>
       \/ model = "parser" /\ L!Next /\ UNCHANGED <<vars, userVars>>
       \* these end: userland with a panic or at the bound on its commands, lines at theirs
       \/ model \in {"userland", "parser"} /\ UNCHANGED <<vars, userVars, typed_line>>

\* The fairness of Console and of Userland.
MCFairness ==
    /\ \A r \in Readers : WF_pc(Moves(r))
    /\ WF_userVars(model = "userland" /\ U!KernelInit)
    /\ WF_userVars(model = "userland" /\ U!InitStart)
    /\ WF_userVars(model = "userland" /\ U!InitAlone)
    /\ \A p \in U!Pids : /\ WF_userVars(model = "userland" /\ U!InitReap(p))
                         /\ WF_userVars(model = "userland" /\ U!ExecShell(p))

MCSpec == MCInit /\ [][MCNext]_<<model, vars, userVars, typed_line>> /\ MCFairness

---------------------------------------------------------------------------
(* Properties *)

\* What is read is what was typed, and erasing takes back what was drawn: see LinesIntact and
\* ErasesWhatWasDrawn in Console.
ConsoleSound == LinesIntact /\ ErasesWhatWasDrawn

\* Typed input is taken in and a reader gets its line: see InputIsProcessed and SoleReaderReturns
\* in Console.
ConsoleServes == InputIsProcessed /\ SoleReaderReturns

\* init gives up alone and lines keep their order: see GivesUpAlone and LinesInOrder in Userland.
ShellsSound == U!GivesUpAlone /\ U!LinesInOrder

\* A shell comes back and orphans are collected: see ShellReturns in Userland.
ShellReturns == U!ShellReturns

=============================================================================
