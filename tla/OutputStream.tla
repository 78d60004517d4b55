---------------------------- MODULE OutputStream ----------------------------
(***************************************************************************)
(* The byte accounting of readDockerStream (docker.go): frames of a        *)
(* command's output are collected and handed on until the limit, the frame *)
(* that crosses it is cut, later ones are only noted.                      *)
(***************************************************************************)
EXTENDS Naturals

CONSTANT Limit \* Config.MaxOutputBytes, a natural number

(* out: the bytes collected.  truncated: the flag of the "exit" event.     *)
Stream == [out : 0..Limit, truncated : BOOLEAN]
Empty == [out |-> 0, truncated |-> FALSE]

(* The bytes of a frame of n that are collected and handed on.             *)
Chunk(s, n) == IF n <= Limit - s.out THEN n ELSE Limit - s.out

(* Variant, faulty on purpose: the flag is set by a frame that just fits. *)
AcceptEager(s, n) ==
    [out |-> s.out + Chunk(s, n), truncated |-> s.truncated \/ n >= Limit - s.out]

Accept(s, n) ==
    [out |-> s.out + Chunk(s, n), truncated |-> s.truncated \/ n > Limit - s.out]

(* What the stream must be after a command has produced total bytes,       *)
(* however they were divided into frames.                                  *)
Accounts(s, total) ==
    /\ s.out = IF total <= Limit THEN total ELSE Limit
    /\ s.truncated <=> total > Limit
=============================================================================
