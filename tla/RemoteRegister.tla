--------------------------- MODULE RemoteRegister ---------------------------
(***************************************************************************)
(* What the callers of a register behind a network that keeps datagrams in *)
(* order are promised: writes are performed in the order in which their    *)
(* calls got their turn, some of them only after the call has failed, some *)
(* never.  When a write returns, it is the last one performed, and none is *)
(* performed after it before another one is sent.  GvcpClient implements   *)
(* this module.                                                            *)
(***************************************************************************)
EXTENDS Naturals

CONSTANTS Values,  \* values of the register
          None     \* no value

VARIABLES register,  \* the value of the register
          calls,     \* calls that got their turn so far, which numbers them
          newest,    \* number of the last write performed, 0 before the first
          settled    \* value of the last write that returned, None once another is sent

vars == <<register, calls, newest, settled>>

Init == register \in Values /\ calls = 0 /\ newest = 0 /\ settled = None

Begin == calls' = calls + 1 /\ UNCHANGED <<register, newest, settled>>

Sent == settled' = None /\ UNCHANGED <<register, calls, newest>>

(* Performing the same write once more changes nothing.                      *)
Perform(n, v) ==
    /\ n = newest => v = register
    /\ settled # None => n = newest
    /\ newest' = n
    /\ register' = v
    /\ UNCHANGED <<calls, settled>>

Return ==
    /\ newest = calls
    /\ settled' = register
    /\ UNCHANGED <<register, calls, newest>>

Next == Begin \/ Sent \/ Return \/ \E n \in newest .. calls, v \in Values : Perform(n, v)

Spec == Init /\ [][Next]_vars
=============================================================================
