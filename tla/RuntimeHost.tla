---------------------------- MODULE RuntimeHost ----------------------------
(***************************************************************************)
(* What weft-runtime keeps within bounds for its component: the sizes of   *)
(* its memories together (limits.rs; its tables are counted the same way), *)
(* and a call that runs a helper program for the clipboard or a            *)
(* notification (desktop.rs).                                              *)
(*                                                                         *)
(* Two threads meet in such a call: the reader of the helper's output and  *)
(* the caller, which polls the helper.  The helper keeps no process with   *)
(* its output open when it ends.                                           *)
(***************************************************************************)
EXTENDS Naturals, FiniteSets

CONSTANTS
  Memory,      \* the memories of the component
  MaxMemory,   \* max_memory
  OwnMaximum,  \* the maximum a memory has declared, if it has
  MaxOutput,   \* the bytes of output a helper may write
  PipeRoom,    \* the bytes a pipe holds
  MaxWritten   \* bound: bytes a helper writes

VARIABLES
  used,    \* memory, what is accounted for
  size,    \* the size of each memory
  failed,  \* history: whether an accounted growth was not made
  call,    \* "none", "polling", "joining", or the result of the call
  program,  \* "runs", "succeeded" or "failed"
  written, pipe, \* what it has written, and what of it is in the pipe
  reader,  \* what the reader has read
  reading  \* whether it still reads

memoryVars == <<used, size, failed>>
callVars == <<call, program, written, pipe, reader, reading>>
hostVars == <<memoryVars, callVars>>

Result == {"output", "givenup", "excess", "error"}

TypeOK ==
  /\ used \in Nat /\ size \in [Memory -> Nat] /\ failed \in BOOLEAN
  /\ call \in {"none", "polling", "joining"} \cup Result
  /\ program \in {"runs", "succeeded", "failed"}
  /\ written \in 0 .. MaxWritten /\ pipe \in 0 .. PipeRoom
  /\ reader \in 0 .. MaxOutput + 1 /\ reading \in BOOLEAN

NoCall ==
  /\ call = "none" /\ program = "failed"
  /\ written = 0 /\ pipe = 0 /\ reader = 0 /\ reading = FALSE

Init ==
  /\ used = 0 /\ size = [m \in Memory |-> 0] /\ failed = FALSE
  /\ NoCall

(***************************************************************************)
(* limits.rs.                                                              *)
(***************************************************************************)
\* A mutant: the whole of the memory is counted again.
MutantAdded(m, desired) == desired

Added(m, desired) == IF desired > size[m] THEN desired - size[m] ELSE 0

Allowed(m, desired) ==
  /\ m \in DOMAIN OwnMaximum => desired <= OwnMaximum[m]
  /\ used + Added(m, desired) <= MaxMemory

\* memory_growing: a growth that is refused is not counted; one that is
\* counted may still fail.
Grow(m, desired) ==
  /\ desired >= size[m] /\ Allowed(m, desired)
  /\ used' = used + Added(m, desired)
  /\ \/ size' = [size EXCEPT ![m] = desired] /\ UNCHANGED failed
     \/ failed' = TRUE /\ UNCHANGED size
  /\ UNCHANGED callVars

(***************************************************************************)
(* desktop.rs, run.                                                        *)
(***************************************************************************)
Spawn ==
  /\ call \in {"none"} \cup Result
  /\ call' = "polling" /\ program' = "runs"
  /\ written' = 0 /\ pipe' = 0 /\ reader' = 0 /\ reading' = TRUE
  /\ UNCHANGED memoryVars

\* A helper that writes when nobody reads any more dies of it.
HelperWrites ==
  /\ program = "runs" /\ written < MaxWritten
  /\ IF reading
     THEN /\ pipe < PipeRoom /\ pipe' = pipe + 1 /\ written' = written + 1
          /\ UNCHANGED program
     ELSE program' = "failed" /\ UNCHANGED <<pipe, written>>
  /\ UNCHANGED <<memoryVars, call, reader, reading>>

HelperExits ==
  /\ program = "runs" /\ program' \in {"succeeded", "failed"}
  /\ UNCHANGED <<memoryVars, call, written, pipe, reader, reading>>

\* The reader stops at the end of the output, or a byte beyond the limit.
Read ==
  /\ reading
  /\ IF pipe > 0
     THEN /\ reader' = reader + 1
          /\ reading' = (reader' <= MaxOutput)
          /\ pipe' = IF reading' THEN pipe - 1 ELSE 0
     ELSE program # "runs" /\ reading' = FALSE /\ UNCHANGED <<reader, pipe>>
  /\ UNCHANGED <<memoryVars, call, program, written>>

\* try_wait: the helper has exited; or the deadline has passed or its status
\* cannot be had, and it is killed.
Poll ==
  /\ call = "polling"
  /\ \/ program # "runs" /\ call' = "joining" /\ UNCHANGED program
     \/ call' = "givenup" /\ program' = IF program = "runs" THEN "failed" ELSE program
  /\ UNCHANGED <<memoryVars, written, pipe, reader, reading>>

\* A mutant: the status is looked at before the output.
MutantStatusFirst ==
  /\ call = "joining" /\ ~reading
  /\ call' = IF program = "failed" THEN "error"
             ELSE IF reader > MaxOutput THEN "excess" ELSE "output"
  /\ UNCHANGED <<memoryVars, program, written, pipe, reader, reading>>

Join ==
  /\ call = "joining" /\ ~reading
  /\ call' = IF reader > MaxOutput THEN "excess"
             ELSE IF program = "failed" THEN "error" ELSE "output"
  /\ UNCHANGED <<memoryVars, program, written, pipe, reader, reading>>

Next ==
  \/ \E m \in Memory, desired \in 0 .. MaxMemory : Grow(m, desired)
  \/ Spawn \/ HelperWrites \/ HelperExits \/ Read \/ Poll \/ Join

Spec == Init /\ [][Next]_hostVars

\* The sizes of the memories of S together.
Total[S \in SUBSET Memory] ==
  IF S = {} THEN 0
  ELSE LET m == CHOOSE m \in S : TRUE IN size[m] + Total[S \ {m}]

\* The memories of a component stay within one limit together, and what is
\* accounted for is what they hold unless a growth that was allowed failed:
\* one that is refused costs nothing.  A helper's output is returned only if
\* it is whole, within its bound and the helper succeeded; an output beyond it
\* is reported as that, also when the helper died of the broken pipe.
CallsAreBounded ==
  /\ used <= MaxMemory
  /\ Total[Memory] <= used /\ (~failed => Total[Memory] = used)
  /\ call = "output" => program = "succeeded" /\ reader = written /\ written <= MaxOutput
  /\ call \in Result \ {"givenup"} => (call = "excess" <=> written > MaxOutput)
=============================================================================
