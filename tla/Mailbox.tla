------------------------------- MODULE Mailbox --------------------------------
(***************************************************************************)
(* What a connection promises to the thread that receives: the answers     *)
(* come in the order of the requests, each at most once, and after the     *)
(* box was emptied by a failed receive none of the requests given up then  *)
(* is answered any more.  Answers may be lost.                             *)
(***************************************************************************)
EXTENDS Naturals, Sequences

CONSTANT Ids   (* the numbers that requests and their answers can have    *)

VARIABLES
  box,     (* the answers not taken yet                                    *)
  taken,   (* the last answer taken                                        *)
  floor    (* requests up to this one were given up                        *)

vars == <<box, taken, floor>>

Init == box = <<>> /\ taken = 0 /\ floor = 0

Put(r) ==
  /\ r > taken /\ r > floor
  /\ \A i \in 1..Len(box) : r > box[i]
  /\ box' = Append(box, r)
  /\ UNCHANGED <<taken, floor>>

Take ==
  /\ box # <<>>
  /\ taken' = Head(box) /\ box' = Tail(box)
  /\ UNCHANGED floor

GiveUp(n) ==
  /\ n >= floor /\ \A i \in 1..Len(box) : n >= box[i]
  /\ floor' = n /\ box' = <<>>
  /\ UNCHANGED taken

Next == (\E r \in Ids : Put(r)) \/ Take \/ (\E n \in Ids : GiveUp(n))

Spec == Init /\ [][Next]_vars
=============================================================================
