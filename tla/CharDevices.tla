---------------------------- MODULE CharDevices ----------------------------
(***************************************************************************)
(* The character devices that make their callers wait: kernel/keyboard.c   *)
(* and kernel/serial.c.  Input goes from the interrupt handler through a   *)
(* ring buffer (Fifo.tla) to the one reader that holds the device's lock   *)
(* (Mutex.tla) and may be named in its waiter; a serial line's writer      *)
(* holds another lock and waits for the transmitter.                       *)
(*                                                                         *)
(* port says which of the three this is: "keyboard", or the reading or the *)
(* writing side of a serial line.  A handler runs only while a program or  *)
(* the idle task is on the CPU.  A key is a record: what its code gives    *)
(* without and with shift, INV if it gives nothing.                        *)
(***************************************************************************)
EXTENDS Mutex, Fifo

CONSTANTS Keys,         \* keymap: key -> [plain, shifted]
          ShiftKeys,    \* KEY_SHIFT_L, KEY_SHIFT_R
          LockKeys,     \* KEY_CAPSLOCK, KEY_NUMLOCK, KEY_SCRLOCK
          CapsLock, Slash,
          INV,          \* no visible character
          CR, LF,       \* '\r' and '\n'
          ReadCounts,   \* counts passed to read and write
          MaxEvents     \* bound on the codes and bytes that arrive

ASSUME CharAssumption ==
    /\ ShiftKeys \cup LockKeys \cup {CapsLock, Slash} \subseteq DOMAIN Keys
    /\ CapsLock \in LockKeys
    /\ \A k \in DOMAIN Keys : {Keys[k].plain, Keys[k].shifted} \subseteq Bytes \cup {INV}
    /\ INV \notin Bytes /\ {CR, LF} \subseteq Bytes
    /\ ReadCounts \subseteq Nat \ {0} /\ MaxEvents \in Nat

VARIABLES port,         \* the device
          charWaiter,   \* waiter, rx_waiter or tx_waiter
          todo,         \* characters a caller still wants, 0 outside the driver
          down,         \* keymap[k][2] and [3]: the keys held, with their prefix
          locked,       \* capslock_state, numlock_state, scrlock_state
          extcode,      \* extcode_state: the last code was the prefix 0xe0
          empty,        \* LSR_THRE: the transmitter can take a byte
          events        \* codes and bytes that have arrived

keyVars == <<down, locked, extcode>>
charVars == <<fifoVars, port, charWaiter, todo, keyVars, empty, events>>

Ports == {"keyboard", "rx", "tx"}

keyboard_init == down = {} /\ locked = {} /\ extcode = FALSE

\* Both sides of a line: nothing received, nobody waiting, ready to send.
serial_init == /\ FifoInit /\ buf = [c \in Cells |-> LF]
               /\ charWaiter = NoTask
               /\ empty = TRUE

CharInit == /\ keyboard_init /\ serial_init
            /\ port \in Ports
            /\ todo = [t \in Tasks |-> 0]
            /\ events = 0

-----------------------------------------------------------------------------
\* Handlers run with no task inside the kernel.
Interrupted == todo[running] = 0 /\ events < MaxEvents /\ events' = events + 1

\* The tail of both handlers: store the character, wake the waiter.
Deliver(b) == /\ fifo_put(b)
              /\ state' = IF charWaiter = NoTask THEN state ELSE Unblock(state, {charWaiter})
              /\ charWaiter' = NoTask
              /\ UNCHANGED running

keymap(k, shifted) == IF shifted THEN Keys[k].shifted ELSE Keys[k].plain

\* keyboard_handler's choice of the character.  The test for a letter is
\* ('a' <= c <= 'z'), which C reads as always true.
Decode(k, ext, caps) ==
    LET shift == (CapsLock \in caps) # (\E s \in ShiftKeys : <<s, FALSE>> \in down \cup {<<k, ext>>})
    IN  keymap(k, shift \/ (ext /\ k # Slash))

\* keyboard_handler: the prefix, a key released, a key pressed (a lock key
\* toggles its lamp first).
keyboard_handler ==
    /\ port = "keyboard" /\ Interrupted
    /\ \/ /\ extcode' = TRUE
          /\ UNCHANGED <<taskVars, fifoVars, charWaiter, down, locked>>
       \/ \E k \in DOMAIN Keys :
             /\ extcode' = FALSE
             /\ down' = down \ {<<k, extcode>>}
             /\ UNCHANGED <<taskVars, fifoVars, charWaiter, locked>>
       \/ \E k \in DOMAIN Keys :
             /\ extcode' = FALSE
             /\ down' = down \cup {<<k, extcode>>}
             /\ locked' = IF k \notin LockKeys THEN locked
                          ELSE IF k \in locked THEN locked \ {k} ELSE locked \cup {k}
             /\ LET ch == Decode(k, extcode, locked')
                IN  \/ ch # INV /\ Deliver(ch)
                    \/ ch = INV /\ UNCHANGED <<taskVars, fifoVars, charWaiter>>
    /\ UNCHANGED <<lockVars, pc, depth, port, todo, empty>>

\* recv_data: a carriage return is a line feed.
recv_data(b) == Deliver(IF b = CR THEN LF ELSE b)

\* serial_handler, on received data or a change of the line's state (the
\* transmitter's interrupt is not enabled, COM_INTR_ENABLE is 0x0d); it looks
\* at the transmitter as well.
serial_handler ==
    /\ Interrupted
    /\ \/ /\ port = "rx"
          /\ \E b \in Bytes : recv_data(b)
       \/ /\ port = "tx"
          /\ \/ \E b \in Bytes : fifo_put(IF b = CR THEN LF ELSE b)
             \/ UNCHANGED fifoVars
          /\ IF empty /\ charWaiter # NoTask
             THEN /\ state' = Unblock(state, {charWaiter})
                  /\ charWaiter' = NoTask
                  /\ UNCHANGED running
             ELSE UNCHANGED <<taskVars, charWaiter>>
    /\ UNCHANGED <<lockVars, pc, depth, port, todo, keyVars, empty>>

\* The line has sent the byte (external).
transmitted == /\ port = "tx" /\ ~empty
               /\ empty' = TRUE
               /\ UNCHANGED <<vars, fifoVars, port, charWaiter, todo, keyVars, events>>

-----------------------------------------------------------------------------
\* keyboard_read, serial_read, serial_write: the lock first.
char_call(t, n) == /\ todo[t] = 0
                   /\ lock_acquire(t)
                   /\ todo' = [todo EXCEPT ![t] = n]
                   /\ UNCHANGED <<fifoVars, port, charWaiter, keyVars, empty, events>>

char_retry(t) == lock_retry(t) /\ UNCHANGED charVars

In(t) == t = running /\ pc[t] = "run" /\ todo[t] > 0 /\ depth[t] > 0

wait_for_device(t) == /\ charWaiter' = t
                      /\ schedule(Suspend(state, t, "WAITING"))
                      /\ UNCHANGED <<lockVars, pc, depth>>

\* A turn of the read loops: wait while the buffer is empty, else take one
\* character; the last one releases the lock.
read_loop(t) ==
    /\ In(t)
    /\ \/ /\ fifo_empty
          /\ wait_for_device(t)
          /\ UNCHANGED <<fifoVars, todo>>
       \/ /\ ~fifo_empty
          /\ fifo_get
          /\ todo' = [todo EXCEPT ![t] = @ - 1]
          /\ IF todo[t] = 1 THEN lock_release(t) ELSE UNCHANGED vars
          /\ UNCHANGED charWaiter
    /\ UNCHANGED <<port, keyVars, empty, events>>

keyboard_read(t) == port = "keyboard" /\ read_loop(t)
serial_read(t) == port = "rx" /\ read_loop(t)

\* A turn of serial_write's loop: send one byte or wait for the transmitter.
serial_write(t) ==
    /\ port = "tx" /\ In(t)
    /\ \/ /\ ~empty
          /\ wait_for_device(t)
          /\ UNCHANGED <<todo, empty>>
       \/ /\ empty
          /\ empty' = FALSE
          /\ todo' = [todo EXCEPT ![t] = @ - 1]
          /\ IF todo[t] = 1 THEN lock_release(t) ELSE UNCHANGED vars
          /\ UNCHANGED charWaiter
    /\ UNCHANGED <<fifoVars, port, keyVars, events>>

char_preempt == todo[running] = 0 /\ task_yield /\ UNCHANGED charVars

CharNext == \/ keyboard_handler \/ serial_handler \/ transmitted \/ char_preempt
            \/ \E t \in Tasks : \/ \E n \in ReadCounts : char_call(t, n)
                                \/ char_retry(t) \/ keyboard_read(t) \/ serial_read(t) \/ serial_write(t)
=============================================================================
