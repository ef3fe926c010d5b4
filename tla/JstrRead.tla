------------------------------- MODULE JstrRead -------------------------------
(***************************************************************************)
(* include/io.h, reading into a string: files of a known size              *)
(* (jstr_io_readfile, readfile_len, readfilefd_len, freadfile and          *)
(* freadfilefp_len) and pipes of an unknown one (jstr_io_readstdin and     *)
(* jstr_io_readsystem).                                                    *)
(*                                                                         *)
(* A read gives any part of what is there and was asked for, or fails.  A  *)
(* file may be truncated while it is read, once its size has been taken.   *)
(***************************************************************************)
EXTENDS JstrMem

CONSTANTS
  Contents,  (* what there is to read *)
  Olds,      (* what the string held before *)
  BufSize    (* BUFSIZ and MINBUF, the buffer of the first read of a pipe *)

ASSUME ContentsAssumption == Contents \cup Olds \subseteq Seq(Char)
ASSUME BufSizeAssumption == BufSize \in Nat \ {0}

VARIABLES
  data,      (* the block *)
  alloc,     (* its true size in bytes *)
  size,      (* jstr_ty.size *)
  capacity,  (* jstr_ty.capacity *)
  call,      (* the call, what there was to read and the string it was given *)
  pc,        (* where the call is *)
  rest,      (* what is left in the file or the pipe *)
  got,       (* bytes read of a file *)
  left,      (* bytes of a file still to read, as the call counts them *)
  fd,        (* the descriptor, or stream: "caller", "none", "open", "closed" *)
  short,     (* a read gave less than was there and asked for *)
  ret,       (* what the call returned *)
  overrun    (* it has accessed memory outside the block *)

string == <<data, alloc, size, capacity>>
vars == <<string, call, pc, rest, got, left, fd, short, ret, overrun>>

(* jstr_io_readfile is taken in the build with pread. *)
Opening == {"readfile", "readfile_len", "freadfile", "readsystem"}
Streams == {"freadfile", "freadfilefp_len"}
Pipes == {"readstdin", "readsystem"}
Ops == Opening \cup Streams \cup Pipes \cup {"readfilefd", "readfilefd_len"}

(* The calls that ask the system for the size of the file. *)
Sizing == {"readfile", "readfilefd", "freadfile"}

Init ==
  /\ \E op \in Ops, content \in Contents, old \in Olds :
       /\ call = [op |-> op, content |-> content, old |-> old]
       /\ rest = content
       /\ size = Len(old)
       /\ alloc = IF old = <<>> THEN 0 ELSE Len(old) + 1
       /\ data = StrCpy([k \in 0..(alloc - 1) |-> Junk], 0, old)
       /\ capacity = alloc
       /\ fd = IF op \in Opening THEN "none" ELSE "caller"
  /\ pc = "open"
  /\ got = 0 /\ left = 0
  /\ short = FALSE
  /\ ret = "SUCC"
  /\ overrun = FALSE

Buffer == [data |-> data, alloc |-> alloc, cap |-> capacity]

(* The call works in b from now on, with d in it. *)
Works(b, d) == data' = d /\ alloc' = b.alloc /\ capacity' = b.cap

Touch(b, extent) == overrun' = (overrun \/ extent > b.alloc)

(* Mutated forms: the error is not returned; nothing is closed. *)
FailSilently == ret' = "SUCC" /\ pc' = "close"

FailOpen == ret' = "ERR" /\ pc' = "done"

(* The call fails, and goes on to close what it has opened. *)
Fail == ret' = "ERR" /\ pc' = "close"

(* The file shrinks under the call. *)
Truncate ==
  /\ call.op \notin Pipes
  /\ pc = "read"
  /\ \E k \in 0..(Len(rest) - 1) : rest' = SubSeq(rest, 1, k)
  /\ UNCHANGED <<string, call, pc, got, left, fd, short, ret, overrun>>

(* open, fopen, popen *)
Open ==
  /\ pc = "open"
  /\ \/ /\ fd' = IF fd = "none" THEN "open" ELSE fd
        /\ pc' = IF call.op \in Pipes THEN "pipe" ELSE "size"
        /\ UNCHANGED ret
     \/ fd = "none" /\ ret' = "ERR" /\ pc' = "done" /\ UNCHANGED fd
  /\ UNCHANGED <<string, call, rest, got, left, short, overrun>>

(***************************************************************************)
(* Files.                                                                  *)
(***************************************************************************)

(* lseek, fstat or the caller tell the size; space is made for it at once. *)
Size ==
  /\ pc = "size"
  /\ LET need == Len(rest) + 1
     IN  \/ \E b \in Reserved(Buffer, need) :
              Works(b, b.data) /\ left' = Len(rest) /\ pc' = "read" /\ UNCHANGED ret
         \/ ReserveFails(Buffer, need) /\ Fail /\ UNCHANGED <<data, alloc, capacity, left>>
         \/ call.op \in Sizing /\ Fail /\ UNCHANGED <<data, alloc, capacity, left>>
  /\ UNCHANGED <<size, call, rest, got, fd, short, overrun>>

(* read, pread: at the end of the file there is nothing, and the call fails. *)
ReadPart ==
  /\ pc = "read"
  /\ left # 0
  /\ call.op \notin Streams
  /\ \/ \E r \in 1..(IF left < Len(rest) THEN left ELSE Len(rest)) :
          /\ data' = Copy(data, got, SubSeq(rest, 1, r))
          /\ Touch(Buffer, got + r)
          /\ rest' = SubSeq(rest, r + 1, Len(rest))
          /\ got' = got + r
          /\ left' = left - r
          /\ UNCHANGED <<pc, ret>>
     \/ Fail /\ UNCHANGED <<data, overrun, rest, got, left>>
  /\ UNCHANGED <<alloc, size, capacity, call, fd, short>>

(* fread reads all of it or has met the end or an error. *)
FreadFile ==
  /\ pc = "read"
  /\ left # 0
  /\ call.op \in Streams
  /\ \E r \in 0..(IF left < Len(rest) THEN left ELSE Len(rest)) :
       /\ data' = Copy(data, 0, SubSeq(rest, 1, r))
       /\ Touch(Buffer, r)
       /\ rest' = SubSeq(rest, r + 1, Len(rest))
       /\ got' = r
       /\ left' = left - r
       /\ IF r = left THEN UNCHANGED <<pc, ret>> ELSE Fail
  /\ UNCHANGED <<alloc, size, capacity, call, fd, short>>

Terminate ==
  /\ data' = Fill(data, got, NUL, 1)
  /\ size' = got
  /\ Touch(Buffer, got + 1)

ReadDone ==
  /\ pc = "read"
  /\ left = 0
  /\ call.op # "readfile"
  /\ Terminate
  /\ pc' = "close"
  /\ UNCHANGED <<alloc, capacity, call, rest, got, left, fd, short, ret>>

(* jstr_io_readfile closes the file before it ends the string. *)
ReadFileDone ==
  /\ pc = "read"
  /\ left = 0
  /\ call.op = "readfile"
  /\ fd' = "closed"
  /\ pc' = "done"
  /\ \/ Terminate /\ UNCHANGED ret
     \/ ret' = "ERR" /\ UNCHANGED <<data, size, overrun>>
  /\ UNCHANGED <<alloc, capacity, call, rest, got, left, short>>

(***************************************************************************)
(* Pipes.                                                                  *)
(***************************************************************************)

AtMost(k) == IF k < Len(rest) THEN k ELSE Len(rest)

(* What a read of k bytes can give: at the end nothing; fread less than is  *)
(* there only when an error ends it.                                        *)
Given(k) == IF AtMost(k) = 0 THEN {0} ELSE 1..AtMost(k)

Take(k, r) ==
  /\ rest' = SubSeq(rest, r + 1, Len(rest))
  /\ short' = (short \/ (r < k /\ r < Len(rest)))

(* The first read goes to a buffer on the stack.  Of jstr_io_readsystem,    *)
(* one that gives nothing is an error; one cut short by an error is taken   *)
(* for the end.                                                             *)
ReadFirst ==
  /\ pc = "pipe"
  /\ \/ \E r \in Given(BufSize) :
          LET need == IF r = BufSize THEN r * Growth ELSE r + 1
          IN  /\ Take(BufSize, r)
              /\ \/ /\ call.op = "readsystem" => r # 0
                    /\ \E b \in Reserved(Buffer, need) :
                         /\ Works(b, Copy(b.data, 0, SubSeq(rest, 1, r)))
                         /\ Touch(b, r)
                    /\ size' = r
                    /\ pc' = IF r = BufSize THEN "more" ELSE "end"
                    /\ UNCHANGED ret
                 \/ /\ (call.op = "readsystem" /\ r = 0) \/ ReserveFails(Buffer, need)
                    /\ Fail
                    /\ UNCHANGED <<string, overrun>>
     \/ Fail /\ UNCHANGED <<string, rest, short, overrun>>
  /\ UNCHANGED <<call, got, left, fd>>

(* The later ones to what is left of the block.  A short one of             *)
(* jstr_io_readstdin is taken for the end; jstr_io_readsystem asks whether  *)
(* it was the end or an error.                                              *)
ReadMore ==
  /\ pc = "more"
  /\ LET requested == capacity - size
     IN  \/ \E r \in Given(requested) :
              /\ data' = Copy(data, size, SubSeq(rest, 1, r))
              /\ Touch(Buffer, size + r)
              /\ Take(requested, r)
              /\ size' = size + r
              /\ IF call.op = "readsystem" /\ r < AtMost(requested)
                 THEN Fail
                 ELSE pc' = (IF r < requested THEN "end" ELSE "grow") /\ UNCHANGED ret
         \/ Fail /\ UNCHANGED <<data, size, rest, short, overrun>>
  /\ UNCHANGED <<alloc, capacity, call, got, left, fd>>

(* Mutated form: no growth. *)
GrownNot == capacity

Grown == capacity * Growth

(* jstr_reserveexactalways, which stores the capacity before it has it. *)
Grow ==
  /\ pc = "grow"
  /\ LET need == Grown
     IN  /\ need <= MaxCap
         /\ \/ Works(Resized(Buffer, need), Resized(Buffer, need).data)
               /\ pc' = "more" /\ UNCHANGED ret
            \/ capacity' = need /\ Fail /\ UNCHANGED <<data, alloc>>
  /\ UNCHANGED <<size, call, rest, got, left, fd, short, overrun>>

ReadEnd ==
  /\ pc = "end"
  /\ data' = Fill(data, size, NUL, 1)
  /\ Touch(Buffer, size + 1)
  /\ pc' = "close"
  /\ UNCHANGED <<alloc, size, capacity, call, rest, got, left, fd, short, ret>>

(* close, fclose or pclose, whose failure is an error too. *)
Close ==
  /\ pc = "close"
  /\ \/ fd = "caller" /\ UNCHANGED <<fd, ret>>
     \/ fd = "open" /\ fd' = "closed" /\ (UNCHANGED ret \/ ret' = "ERR")
  /\ pc' = "done"
  /\ UNCHANGED <<string, call, rest, got, left, short, overrun>>

Next ==
  \/ Truncate
  \/ Open \/ Size \/ ReadPart \/ FreadFile \/ ReadDone \/ ReadFileDone
  \/ ReadFirst \/ ReadMore \/ Grow \/ ReadEnd
  \/ Close

(* The call runs; nobody has to truncate the file. *)
Spec == Init /\ [][Next]_vars /\ WF_vars(Next)

(***************************************************************************)
(* Properties.                                                             *)
(***************************************************************************)

TypeOK ==
  /\ alloc \in Nat /\ size \in Nat /\ capacity \in Nat /\ got \in Nat /\ left \in Nat
  /\ data \in Block(alloc)
  /\ pc \in {"open", "size", "read", "pipe", "more", "grow", "end", "close", "done"}
  /\ rest \in Seq(Char)
  /\ fd \in {"caller", "none", "open", "closed"}
  /\ ret \in {"SUCC", "ERR"}
  /\ short \in BOOLEAN /\ overrun \in BOOLEAN

(* A call that reports success has a NUL terminated string with all there   *)
(* was to read: a file truncated meanwhile is an error, never a short       *)
(* string; of stdin, all unless a read was short before the end, of a       *)
(* command, all unless an error cut its first read short.                   *)
SuccessIsComplete ==
  pc = "done" /\ ret = "SUCC" =>
    /\ size < alloc
    /\ data[size] = NUL
    /\ Prefix(data, size) = SubSeq(call.content, 1, size)
    /\ \/ size = Len(call.content)
       \/ short /\ call.op = "readstdin"
       \/ short /\ call.op = "readsystem" /\ size < BufSize

(* No part and no terminator goes outside the block, whatever the string    *)
(* held before and however the capacity was met exactly.  After a failure   *)
(* the descriptor is closed and the size still fits the block it describes; *)
(* a file read leaves the size of the old string.  Only the growth of a     *)
(* pipe's string, when it fails, leaves no room for the terminator.         *)
FailureFits ==
  /\ TypeOK
  /\ ~overrun
  /\ pc = "done" => fd # "open"
  /\ pc = "done" /\ ret = "ERR" =>
       /\ capacity = alloc => (IF alloc = 0 THEN size = 0 ELSE size < alloc)
       /\ size <= alloc
       /\ capacity # alloc => call.op \in Pipes /\ size = alloc

(* Every call returns. *)
Returns == <>(pc = "done")
================================================================================
