------------------------------- MODULE Slices -------------------------------
(***************************************************************************)
(* How threadpool_dispatch() and worker_entry() cut a task of `total` rows *)
(* into one slice per thread: total \div n rows each, and one row more for *)
(* the first total % n slices.                                             *)
(***************************************************************************)
EXTENDS Integers

(* First row of slice i when `total` rows are cut for n threads. *)
SliceStart(i, n, total) ==
  LET chunk     == total \div n
      remainder == total % n
  IN  IF i < remainder
        THEN i * (chunk + 1)
        ELSE remainder * (chunk + 1) + (i - remainder) * chunk

(* One past the last row of slice i. *)
SliceEnd(i, n, total) ==
  LET chunk     == total \div n
      remainder == total % n
  IN  SliceStart(i, n, total) + (IF i < remainder THEN chunk + 1 ELSE chunk)

(* The rows a thread that holds slice i passes to the task function: none  *)
(* when `start < total` fails.                                             *)
Slice(i, n, total) ==
  IF SliceStart(i, n, total) < total
    THEN SliceStart(i, n, total) .. (SliceEnd(i, n, total) - 1)
    ELSE {}
=============================================================================
