------------------------------- MODULE MyBuff -------------------------------
(***************************************************************************)
(* network/mybuff.c: the send_buff or recv_buff of a connection, a growing *)
(* byte buffer with an optional file to send after it.  The bytes are left *)
(* out: what matters is how many are in it, how many fit, and who closes   *)
(* the file.                                                               *)
(***************************************************************************)
EXTENDS Integers

CONSTANTS
  init_buff_size,
  Lens,     \* lengths callers pass: recv and send counts, requests, file sizes
  Files,    \* descriptors of files handed over
  NoFile,   \* -1
  MaxSize   \* bound: bytes a caller puts in before the buffer is emptied

ASSUME BuffAssumption ==
  /\ init_buff_size \in Nat \ {0}
  /\ Lens \subseteq Nat
  /\ NoFile \notin Files
  /\ MaxSize \in Nat

VARIABLES
  alloc,    \* data # NULL
  size, len,
  file,     \* mybuff->fd
  flen,
  open      \* the handed-over files that are open in the process

vars == <<alloc, size, len, file, flen, open>>

TypeOK ==
  /\ alloc \in BOOLEAN
  /\ size \in Nat
  /\ len \in Nat
  /\ file \in Files \cup {NoFile}
  /\ flen \in Nat
  /\ open \in SUBSET Files

(* mybuff_init                                                             *)
Init ==
  /\ alloc = FALSE
  /\ size = 0
  /\ len = 0
  /\ file = NoFile
  /\ flen = 0
  /\ open = {}

\* Mutant of mybuff_setdata: the data may fill the buffer.
mybuff_setdataFull(n) ==
  /\ len + n <= MaxSize
  /\ alloc' = TRUE
  /\ len' = len + n
  /\ LET s == IF alloc THEN size ELSE init_buff_size
     IN  size' = IF s - len >= n THEN s ELSE len + n + 1
  /\ UNCHANGED <<file, flen, open>>

(* The first write allocates init_buff_size; data that leaves no byte to   *)
(* spare reallocates to exactly one more than needed.                      *)
mybuff_setdata(n) ==
  /\ len + n <= MaxSize
  /\ alloc' = TRUE
  /\ len' = len + n
  /\ LET s == IF alloc THEN size ELSE init_buff_size
     IN  size' = IF s - len > n THEN s ELSE len + n + 1
  /\ UNCHANGED <<file, flen, open>>

mybuff_skipdata(n) ==
  /\ len' = IF ~alloc THEN len ELSE IF n >= len THEN 0 ELSE len - n
  /\ UNCHANGED <<alloc, size, file, flen, open>>

(* The caller opened f; a file not sent to its end is closed.              *)
mybuff_setfile(f, n) ==
  /\ f \notin open
  /\ open' = (open \ {file}) \cup {f}
  /\ file' = f
  /\ flen' = n
  /\ UNCHANGED <<alloc, size, len>>

(* n bytes of the file were sent.                                          *)
mybuff_skipfile(n) ==
  /\ file # NoFile
  /\ IF flen <= n
     THEN file' = NoFile /\ flen' = 0 /\ open' = open \ {file}
     ELSE flen' = flen - n /\ UNCHANGED <<file, open>>
  /\ UNCHANGED <<alloc, size, len>>

\* Mutant of mybuff_reinit: the file is forgotten, not closed.
mybuff_reinitLeaks ==
  /\ file' = NoFile
  /\ flen' = 0
  /\ size' = IF size > 2 * init_buff_size THEN init_buff_size ELSE size
  /\ len' = 0
  /\ UNCHANGED <<alloc, open>>

(* The descriptor is reused by a new connection (add_fd_2_efd): the file   *)
(* is closed and a buffer that grew beyond twice its initial size shrinks. *)
mybuff_reinit ==
  /\ file' = NoFile
  /\ flen' = IF file = NoFile THEN flen ELSE 0
  /\ open' = open \ {file}
  /\ size' = IF size > 2 * init_buff_size THEN init_buff_size ELSE size
  /\ len' = 0
  /\ UNCHANGED alloc

Next ==
  \/ \E n \in Lens : \/ mybuff_setdata(n) \/ mybuff_skipdata(n)
                     \/ mybuff_skipfile(n)
                     \/ \E f \in Files : mybuff_setfile(f, n)
  \/ mybuff_reinit

Spec == Init /\ [][Next]_vars

-----------------------------------------------------------------------------
(* There is always a byte to spare behind the data, on every sequence of   *)
(* writes, skips and reuses: check_req of the protocol plugins ends what   *)
(* mybuff_getdata returns with a NUL, in place.                            *)
SpareByte == IF alloc THEN len < size ELSE len = 0 /\ size = 0

(* The files handed over are closed once, when they are sent, replaced or  *)
(* the connection goes: the open one is the buffer's.                      *)
OneFile == open = {file} \ {NoFile} /\ (file = NoFile => flen = 0)
=============================================================================
