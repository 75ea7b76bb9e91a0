---------------------------- MODULE AbstractMemory ----------------------------
(***************************************************************************)
(* What the virtual memory of Ex04 promises its user: a flat array of      *)
(* pages.  A read returns the word last written at its address.  Frames,   *)
(* tables and the swap file are not mentioned.  A page nobody has used has *)
(* no contents yet: they are arbitrary, and settle at its first use.       *)
(***************************************************************************)
EXTENDS Naturals

CONSTANTS
  Pages,
  PageSize,
  Contents,     \* what a page can hold: functions on 0 .. PageSize - 1
  Calls,        \* [op, va, value] records
  NoCall,       \* no call is in progress
  NoReply,
  Untouched

VARIABLES
  memory,
  call,
  reply

vars == <<memory, call, reply>>

Init ==
  /\ memory = [p \in Pages |-> Untouched]
  /\ call = NoCall
  /\ reply = NoReply

Begin ==
  /\ call = NoCall
  /\ call' \in Calls
  /\ reply' = NoReply
  /\ UNCHANGED memory

Settle(p) ==
  /\ memory[p] = Untouched
  /\ memory'[p] \in Contents
  /\ memory' = [memory EXCEPT ![p] = memory'[p]]
  /\ UNCHANGED <<call, reply>>

Reject ==
  /\ call # NoCall /\ call.va \div PageSize \notin Pages
  /\ reply' = [ret |-> 0]
  /\ call' = NoCall
  /\ UNCHANGED memory

Return ==
  /\ call # NoCall /\ call.va \div PageSize \in Pages
  /\ LET page == call.va \div PageSize
         off  == call.va % PageSize
     IN  /\ memory[page] # Untouched
         /\ \/ /\ call.op = "read"
               /\ reply' = [ret |-> 1, value |-> memory[page][off]]
               /\ UNCHANGED memory
            \/ /\ call.op = "write"
               /\ reply' = [ret |-> 1]
               /\ memory' = [memory EXCEPT ![page][off] = call.value]
  /\ call' = NoCall

Next == Begin \/ (\E p \in Pages : Settle(p)) \/ Reject \/ Return

Spec == Init /\ [][Next]_vars
=============================================================================
