-------------------------------- MODULE Fifo --------------------------------
(***************************************************************************)
(* What a pipe promises the two processes at its ends, and so what the     *)
(* virtual-memory FIFO of vms_vm_pipe.c has to keep up when it is spliced  *)
(* into one: records come out in the order they went in, none is lost,     *)
(* none is made up.                                                        *)
(***************************************************************************)
EXTENDS Naturals, Sequences

CONSTANT Record     \* what can be written: data records and the end-of-file mark

VARIABLES
  sent,             \* every record written so far, oldest first
  delivered         \* every record read so far, oldest first

vars == <<sent, delivered>>

Init == sent = <<>> /\ delivered = <<>>

Put == /\ \E r \in Record : sent' = Append(sent, r)
       /\ UNCHANGED delivered

Get == /\ Len(delivered) < Len(sent)
       /\ delivered' = Append(delivered, sent[Len(delivered) + 1])
       /\ UNCHANGED sent

Next == Put \/ Get

Spec == Init /\ [][Next]_vars
=============================================================================
