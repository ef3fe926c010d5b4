------------------------------- MODULE JstrWrite -------------------------------
(***************************************************************************)
(* include/io.h, writing a string to a file and ending it with a newline:  *)
(* jstr_io_writefilefd_len and jstr_io_writefile_len, in the build with    *)
(* writev and in the one without it, and jstr_io_fwritefilefp_len and      *)
(* jstr_io_fwritefile_len.                                                 *)
(*                                                                         *)
(* The kernel may take any part of what a write offers, or fail.  The      *)
(* caller's file is what it has taken so far.                              *)
(***************************************************************************)
EXTENDS Naturals, Integers, Sequences

CONSTANTS
  Char,      (* the characters *)
  Texts,     (* the strings written *)
  Newline    (* '\n' *)

ASSUME TextsAssumption == Texts \subseteq Seq(Char) /\ Newline \in Char

Ops == {"writefilefd_len", "writefile_len", "fwritefilefp_len", "fwritefile_len"}

Streams == {"fwritefilefp_len", "fwritefile_len"}

VARIABLES
  call,      (* the call: its operation, the string and the build *)
  pc,        (* where the call is *)
  file,      (* what the file holds of it *)
  fd,        (* the descriptor, or stream: "caller", "none", "open", "closed" *)
  iov,       (* what is left in each of the two buffers of writev *)
  iop,       (* the first buffer the next writev is given *)
  iol,       (* and how many *)
  left,      (* bytes left to write, as the call counts them *)
  failed,    (* the system has reported an error *)
  ret        (* what the call returned *)

vars == <<call, pc, file, fd, iov, iop, iol, left, failed, ret>>

Init ==
  /\ \E op \in Ops, text \in Texts, writev \in BOOLEAN :
       /\ op \in Streams => writev = FALSE
       /\ call = [op |-> op, text |-> text, writev |-> writev]
  /\ pc = "open"
  /\ file = <<>>
  /\ fd = IF call.op \in {"writefilefd_len", "fwritefilefp_len"} THEN "caller" ELSE "none"
  /\ iov = <<>> /\ iop = 1 /\ iol = 2 /\ left = 0
  /\ failed = FALSE
  /\ ret = "SUCC"

(* The newline the call adds to a text that does not end with one. *)
Ending ==
  IF call.text # <<>> /\ call.text[Len(call.text)] # Newline THEN <<Newline>> ELSE <<>>

Whole == call.text \o Ending

(* Mutated form: the error is not returned. *)
GiveUpSilently ==
  /\ failed' = TRUE
  /\ ret' = "SUCC"
  /\ pc' = "close"

(* The system reports an error: the call gives up. *)
GiveUp ==
  /\ failed' = TRUE
  /\ ret' = "ERR"
  /\ pc' = "close"

(* open, fopen *)
Open ==
  /\ pc = "open"
  /\ \/ /\ fd' = IF fd = "none" THEN "open" ELSE fd
        /\ pc' = "start"
        /\ UNCHANGED <<failed, ret>>
     \/ /\ fd = "none"
        /\ failed' = TRUE
        /\ ret' = "ERR"
        /\ pc' = "done"
        /\ UNCHANGED fd
  /\ UNCHANGED <<call, file, iov, iop, iol, left>>

NothingToWrite ==
  /\ pc = "start"
  /\ call.text = <<>>
  /\ pc' = "close"
  /\ UNCHANGED <<call, file, fd, iov, iop, iol, left, failed, ret>>

(* The bytes the call counts down; write sends the newline after them. *)
ToWrite == IF call.writev THEN Len(Whole) ELSE Len(call.text)

Start ==
  /\ pc = "start"
  /\ call.text # <<>>
  /\ call.op \notin Streams
  /\ iov' = <<call.text, Ending>>
  /\ left' = ToWrite
  /\ pc' = IF call.writev THEN "writev" ELSE "write"
  /\ UNCHANGED <<call, file, fd, iop, iol, failed, ret>>

(***************************************************************************)
(* With writev.                                                            *)
(***************************************************************************)

(* What the iol buffers from iop on offer. *)
Offered ==
  IF iol <= 0 \/ iop > 2 THEN <<>> ELSE IF iop = 1 THEN iov[1] \o iov[2] ELSE iov[2]

Rest(s, w) == SubSeq(s, w + 1, Len(s))

(* Mutated form: nothing is taken out of the buffer. *)
AdvanceNot(w) == UNCHANGED <<pc, iov, iop, iol>>

(* A partial writev: with more than one byte left the first buffer is       *)
(* advanced, with exactly one left it is given up for the second.           *)
Advance(w) ==
  /\ iov' = [iov EXCEPT ![1] = Rest(@, w)]
  /\ UNCHANGED <<pc, iop, iol>>

SecondBuffer ==
  /\ iop' = iop + 1
  /\ iol' = iol - 1
  /\ UNCHANGED <<pc, iov>>

Writev ==
  /\ pc = "writev"
  /\ \/ /\ iol >= 0
        /\ \E w \in (IF Offered = <<>> THEN {0} ELSE 1..Len(Offered)) :
             /\ file' = file \o SubSeq(Offered, 1, w)
             /\ left' = left - w
             /\ \/ /\ left' = 0
                   /\ pc' = "close"
                   /\ UNCHANGED <<iov, iop, iol>>
                \/ left' > 1 /\ Advance(w)
                \/ left' = 1 /\ SecondBuffer
        /\ UNCHANGED <<failed, ret>>
     \/ /\ GiveUp
        /\ UNCHANGED <<file, iov, iop, iol, left>>
  /\ UNCHANGED <<call, fd>>

(* EINVAL: a vector of no buffers, or a negative number of them. *)
Invalid ==
  /\ pc = "writev"
  /\ iol <= 0
  /\ ret' = "ERR"
  /\ pc' = "close"
  /\ UNCHANGED <<call, file, fd, iov, iop, iol, left, failed>>

(***************************************************************************)
(* Without it.                                                             *)
(***************************************************************************)

Write ==
  /\ pc = "write"
  /\ left # 0
  /\ \/ /\ \E w \in 1..left :
             /\ file' = file \o SubSeq(iov[1], 1, w)
             /\ iov' = [iov EXCEPT ![1] = Rest(@, w)]
             /\ left' = left - w
        /\ UNCHANGED <<pc, failed, ret>>
     \/ GiveUp /\ UNCHANGED <<file, iov, left>>
  /\ UNCHANGED <<call, fd, iop, iol>>

(* Mutated form: a text that ends with a newline is not told apart. *)
WriteNewlineOnly ==
  /\ pc = "write"
  /\ left = 0
  /\ Ending # <<>>
  /\ \/ file' = Append(file, Newline) /\ pc' = "close" /\ UNCHANGED <<failed, ret>>
     \/ GiveUp /\ UNCHANGED file
  /\ UNCHANGED <<call, fd, iov, iop, iol, left>>

WriteNewline ==
  /\ pc = "write"
  /\ left = 0
  /\ \/ Ending = <<>> /\ pc' = "close" /\ UNCHANGED <<file, failed, ret>>
     \/ /\ Ending # <<>>
        /\ \/ file' = Append(file, Newline) /\ pc' = "close" /\ UNCHANGED <<failed, ret>>
           \/ GiveUp /\ UNCHANGED file
  /\ UNCHANGED <<call, fd, iov, iop, iol, left>>

(***************************************************************************)
(* With a stream: fwrite gives all it is asked to, or has failed.          *)
(***************************************************************************)

Fwrite ==
  /\ pc = "start"
  /\ call.text # <<>>
  /\ call.op \in Streams
  /\ \/ file' = call.text /\ pc' = "putc" /\ UNCHANGED <<failed, ret>>
     \/ \E w \in 0..(Len(call.text) - 1) :
          file' = SubSeq(call.text, 1, w) /\ GiveUp
  /\ UNCHANGED <<call, fd, iov, iop, iol, left>>

Putc ==
  /\ pc = "putc"
  /\ \/ file' = file \o Ending /\ pc' = "close" /\ UNCHANGED <<failed, ret>>
     \/ Ending # <<>> /\ GiveUp /\ UNCHANGED file
  /\ UNCHANGED <<call, fd, iov, iop, iol, left>>

(* A failed close is an error too, unless there has been one already. *)
Close ==
  /\ pc = "close"
  /\ \/ fd = "caller" /\ UNCHANGED <<fd, failed, ret>>
     \/ /\ fd = "open"
        /\ fd' = "closed"
        /\ \/ UNCHANGED <<failed, ret>>
           \/ failed' = TRUE /\ ret' = "ERR"
  /\ pc' = "done"
  /\ UNCHANGED <<call, file, iov, iop, iol, left>>

Next ==
  \/ Open \/ NothingToWrite \/ Start
  \/ Writev \/ Invalid
  \/ Write \/ WriteNewline
  \/ Fwrite \/ Putc
  \/ Close

(* The call runs, and a write that is not refused returns. *)
Spec == Init /\ [][Next]_vars /\ WF_vars(Next)

(***************************************************************************)
(* Properties.                                                             *)
(***************************************************************************)

TypeOK ==
  /\ call.op \in Ops /\ call.text \in Texts
  /\ pc \in {"open", "start", "writev", "write", "putc", "close", "done"}
  /\ fd \in {"caller", "none", "open", "closed"}
  /\ iop \in 1..4 /\ iol \in -1..2
  /\ left \in Nat
  /\ ret \in {"SUCC", "ERR"}

(* However the kernel splits the writes, the file never holds anything but  *)
(* the beginning of the text and its newline, no byte twice, none skipped,  *)
(* and what the call counts as left is what the file lacks.                 *)
FileIsPrefix ==
  /\ TypeOK
  /\ file = SubSeq(Whole, 1, Len(file))
  /\ pc = "writev" => left = Len(Whole) - Len(file)

(* A call that reports success has written all of it, and one that opened   *)
(* the file has closed it, whichever step failed.                           *)
EndsWell ==
  pc = "done" =>
    /\ ret = "SUCC" => file = Whole
    /\ fd # "open"
    /\ failed => ret = "ERR"

(* Every call returns, however small the parts the kernel takes.            *)
Returns == <>(pc = "done")

(* io.h: "Handle partial writev": unless the system reports an error, the   *)
(* whole text gets written.                                                 *)
PartialWritevHandled == pc = "done" /\ ~failed => ret = "SUCC"
================================================================================
