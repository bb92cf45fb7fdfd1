------------------------------ MODULE Drivers ------------------------------
(***************************************************************************)
(* The code that lives on locks and interrupts, one part of it at a time:  *)
(* tasks that use a bare lock_t in any way (Mutex.tla), the IDE driver     *)
(* (Ide.tla), the keyboard or a serial line (CharDevices.tla), and the     *)
(* console (Console.tla).                                                  *)
(***************************************************************************)
EXTENDS Ide, CharDevices, Console

CONSTANT Parts      \* the parts that are looked at

VARIABLE part       \* the one that this system uses

allVars == <<vars, ideVars, charVars, consoleVars, part>>

DriversInit == /\ Init /\ ide_ctrl_init /\ CharInit /\ console_init
               /\ part \in Parts

DriversNext ==
    /\ \/ part = "lock" /\ Next /\ UNCHANGED <<ideVars, charVars, consoleVars>>
       \/ part = "ide" /\ IdeNext /\ UNCHANGED <<charVars, consoleVars>>
       \/ part = "char" /\ CharNext /\ UNCHANGED <<ideVars, consoleVars>>
       \/ part = "console" /\ ConsoleNext /\ UNCHANGED <<vars, ideVars, charVars>>
    /\ UNCHANGED part

DriversSpec == DriversInit /\ [][DriversNext]_allVars

-----------------------------------------------------------------------------
(* A task that waits for the IDE drive, for a key or for a received byte   *)
(* can count on its interrupt: it is the one its driver's waiter names and *)
(* it holds the driver's lock, so no other waiter can take its place; and  *)
(* what it waits for has not happened already.  The drive is at work or    *)
(* its interrupt is pending; a reader's ring buffer is empty;              *)
(* serial_read's assertion holds.  A task that waits in serial_write       *)
(* cannot: serial_init enables no interrupt for an empty transmitter.  All *)
(* that holds for it (port "tx") is that it is the one registered and has  *)
(* the lock, so that the next interrupt of another kind finds it.          *)
InterruptWillCome ==
    part \in {"ide", "char"} =>
        /\ \A t \in Tasks : state[t] = "WAITING" <=> t \in {waiter, charWaiter}
        /\ \A t \in Tasks : state[t] = "WAITING" => t = holder
        /\ waiter # NoTask => drive.phase = "busy" \/ irq
        /\ charWaiter # NoTask /\ port # "tx" => fifo_empty
        /\ \A t \in Tasks : In(t) => charWaiter = NoTask
=============================================================================
