----------------------------- MODULE LogBuffer ------------------------------
(***************************************************************************)
(* The buffer in which Project1/misc.c collects the log of the simulation  *)
(* until writeLogToFile writes it at the end: how long the text in it is,  *)
(* and how much memory it has.                                             *)
(***************************************************************************)
EXTENDS Integers, TLAPS

VARIABLES
  length,     \* strlen(log_buffer)
  allocated   \* log_buffer_allocated_size

vars == <<length, allocated>>

multiplier == 10

initLog == length = 0 /\ allocated = 300

(* log and log_event call it with a text that ends in a newline.           *)
appendLog(len) ==
  /\ allocated' = IF len + length > allocated THEN allocated + multiplier * len ELSE allocated
  /\ length' = length + len

Next == \E len \in Nat \ {0} : appendLog(len)

Spec == initLog /\ [][Next]_vars

-----------------------------------------------------------------------------
(* The text, without the zero behind it, is inside the memory at all times *)
(* although appendLog compares and grows by different sizes, and the       *)
(* memory is at most so many times as large as the text.  The zero that    *)
(* strcat writes is one byte behind the memory when the text fills it      *)
(* exactly: the comparison has no room for it.                             *)
LogFits ==
  /\ length \in Nat /\ allocated \in Nat
  /\ length =< allocated
  /\ allocated =< 300 + multiplier * length

(* LogFits holds after every call of log and log_event (appendLog), for    *)
(* texts of any length.                                                    *)
THEOREM LogAlwaysFits == Spec => []LogFits
<1>1. initLog => LogFits
  BY DEF initLog, LogFits, multiplier
<1>2. LogFits /\ [Next]_vars => LogFits'
  <2> SUFFICES ASSUME LogFits, [Next]_vars PROVE LogFits'
    OBVIOUS
  <2>1. ASSUME NEW len \in Nat \ {0}, appendLog(len) PROVE LogFits'
    BY <2>1 DEF LogFits, appendLog, multiplier
  <2>2. CASE UNCHANGED vars
    BY <2>2 DEF LogFits, vars
  <2> QED
    BY <2>1, <2>2 DEF Next
<1> QED
  BY <1>1, <1>2, PTL DEF Spec
=============================================================================
