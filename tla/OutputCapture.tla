----------------------------- MODULE OutputCapture -----------------------------
(***************************************************************************)
(* The buffer that collects what a program prints (output.c).  A capture   *)
(* is a record; the operators map one to the next.  Text is its length.    *)
(***************************************************************************)
EXTENDS Naturals

CONSTANTS
  CAPACITY,    \* bytes of a new buffer
  PRINTF_MAX   \* bytes of the buffer that one capture_printf formats into

ASSUME CaptureAssumption ==
  CAPACITY \in Nat \ {0} /\ PRINTF_MAX \in Nat \ {0}

Captures == [capacity : Nat, size : Nat]

CaptureInit == [capacity |-> CAPACITY, size |-> 0]

(* Bug: the terminating '\0' is forgotten.                                 *)
CaptureWriteTight(cap, len) ==
  [capacity |-> IF cap.size + len > cap.capacity
                THEN (cap.size + len) * 2 ELSE cap.capacity,
   size |-> cap.size + len]

(* strcat needs room for the text and its '\0'.                            *)
CaptureWrite(cap, len) ==
  [capacity |-> IF cap.size + len + 1 >= cap.capacity
                THEN (cap.size + len + 1) * 2 ELSE cap.capacity,
   size |-> cap.size + len]

(* vsnprintf cuts what does not fit.                                       *)
Clips(len) == len > PRINTF_MAX - 1

CapturePrintf(cap, len) ==
  CaptureWrite(cap, IF Clips(len) THEN PRINTF_MAX - 1 ELSE len)

CaptureFree == [capacity |-> 0, size |-> 0]

=============================================================================
