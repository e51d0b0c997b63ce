----------------------------- MODULE PidPrinter -----------------------------
(***************************************************************************)
(* week4/workshop4/semaphores/print_pid.c: forked children share a buffer  *)
(* and a semaphore, and print a line each, one character at a time.        *)
(***************************************************************************)
EXTENDS Naturals, Sequences, FiniteSets

CONSTANTS
    ChildNumber,     \* how many children
    LineLength       \* how many characters a line has before its end

ASSUME PidPrinterAssumption == ChildNumber \in Nat /\ LineLength \in Nat

VARIABLES
    parent,          \* "off", "forking", "waiting" or "over"
    waited,          \* how many times it has waited
    child,           \* where each child is: "unborn", "born", "printing" or "done"
    child_process_lock,
    lineBuffer, ptr, \* whose line is in the shared buffer; the place each child is at
    screen           \* the characters printed, each as the number of its child

printingVars == <<child, child_process_lock, lineBuffer, ptr, screen>>
printerVars  == <<parent, waited, printingVars>>

ForkedChildren == 1 .. ChildNumber

PrinterInit ==
    /\ parent = "off" /\ waited = 0
    /\ child = [c \in ForkedChildren |-> "unborn"]
    /\ child_process_lock = 1
    /\ lineBuffer = 0 /\ ptr = [c \in ForkedChildren |-> 0]
    /\ screen = <<>>

ChildGoes(c, here, there) == child[c] = here /\ child' = [child EXCEPT ![c] = there]

-----------------------------------------------------------------------------
(* splitProcess.                                                           *)

StartForking == parent = "off" /\ parent' = "forking" /\ UNCHANGED <<waited, printingVars>>

ForkChild(c) ==
    /\ parent = "forking"
    /\ ChildGoes(c, "unborn", "born")
    /\ \A earlier \in 1 .. c - 1 : child[earlier] # "unborn"
    /\ parent' = IF c = ChildNumber THEN "waiting" ELSE "forking"
    /\ UNCHANGED <<waited, child_process_lock, lineBuffer, ptr, screen>>

\* It then waits for nobody.
BirthFails == parent = "forking" /\ parent' = "over" /\ UNCHANGED <<waited, printingVars>>

\* Any child that has ended will do.
WaitChild ==
    /\ parent = "waiting"
    /\ waited < Cardinality({c \in ForkedChildren : child[c] = "done"})
    /\ waited' = waited + 1
    /\ parent' = IF waited' = ChildNumber THEN "over" ELSE "waiting"
    /\ UNCHANGED printingVars

-----------------------------------------------------------------------------
(* work.                                                                   *)

\* The wait for the semaphore, and the line written to the buffer.
TakeLock_Open(c) ==
    /\ ChildGoes(c, "born", "printing")
    /\ lineBuffer' = c
    /\ UNCHANGED <<parent, waited, child_process_lock, ptr, screen>>

TakeLock(c) ==
    /\ ChildGoes(c, "born", "printing")
    /\ child_process_lock > 0 /\ child_process_lock' = child_process_lock - 1
    /\ lineBuffer' = c
    /\ UNCHANGED <<parent, waited, ptr, screen>>

PrintCharacter(c) ==
    /\ child[c] = "printing" /\ ptr[c] < LineLength
    /\ screen' = Append(screen, lineBuffer)
    /\ ptr' = [ptr EXCEPT ![c] = @ + 1]
    /\ UNCHANGED <<parent, waited, child, child_process_lock, lineBuffer>>

EndLine(c) ==
    /\ ptr[c] = LineLength
    /\ ChildGoes(c, "printing", "done")
    /\ screen' = Append(screen, c)
    /\ child_process_lock' = child_process_lock + 1
    /\ UNCHANGED <<parent, waited, lineBuffer, ptr>>

-----------------------------------------------------------------------------
ChildStep(c) == TakeLock(c) \/ PrintCharacter(c) \/ EndLine(c)
ParentStep   == WaitChild \/ \E c \in ForkedChildren : ForkChild(c)

PrinterNext == StartForking \/ ParentStep \/ BirthFails \/ \E c \in ForkedChildren : ChildStep(c)

PrinterSpec == PrinterInit /\ [][PrinterNext]_printerVars

-----------------------------------------------------------------------------
\* The lines of the children do not mix on the screen, although they come from one
\* buffer, character by character (print_pid.c:123-134).
LinesAreWhole ==
    \A i, j \in DOMAIN screen :
        (i - 1) \div (LineLength + 1) = (j - 1) \div (LineLength + 1) => screen[i] = screen[j]
=============================================================================
