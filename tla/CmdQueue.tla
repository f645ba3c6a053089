------------------------------ MODULE CmdQueue ------------------------------
(***************************************************************************)
(* What the SVGA command FIFO promises its users, with the ring buffer,    *)
(* the bounce buffer and the FIFO registers abstracted away.               *)
(*                                                                         *)
(* The driver prepares one command (a sequence of 32-bit words) at a time. *)
(* The words of a command become visible to the device together, in order, *)
(* each exactly once; a command may be dropped, but only as a whole.       *)
(***************************************************************************)
EXTENDS Integers, Sequences

CONSTANTS
  Word,     \* the values of a 32-bit word that the model tells apart
  Capacity  \* the number of words in the FIFO's data area

VARIABLES
  queue,  \* words visible to the device and not yet read by it
  cmd     \* the command being prepared, <<>> when there is none

vars == <<queue, cmd>>

Init ==
  /\ queue = <<>>
  /\ cmd = <<>>

(* The driver starts preparing a command. *)
Begin(words) ==
  /\ cmd = <<>>
  /\ words # <<>>
  /\ cmd' = words
  /\ UNCHANGED queue

(* The driver makes its command visible. *)
Publish ==
  /\ cmd # <<>>
  /\ Len(queue) + Len(cmd) < Capacity
  /\ queue' = queue \o cmd
  /\ cmd' = <<>>

(* The driver gives up a command of which the device has seen nothing. *)
Drop ==
  /\ cmd # <<>>
  /\ cmd' = <<>>
  /\ UNCHANGED queue

(* The device reads the oldest word. *)
Take ==
  /\ queue # <<>>
  /\ queue' = Tail(queue)
  /\ UNCHANGED cmd

Next ==
  \/ cmd' \in Seq(Word) /\ Begin(cmd')
  \/ Publish
  \/ Drop
  \/ Take

Spec == Init /\ [][Next]_vars
=============================================================================
