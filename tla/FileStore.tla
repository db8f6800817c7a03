----------------------------- MODULE FileStore -----------------------------
(***************************************************************************)
(* What the http-server example promises of its two partitions taken       *)
(* together: a store that keeps under each name an upload and, beside it,  *)
(* the compressed form of that upload. A request changes one name, in one  *)
(* step, and nothing else changes the store. The promise ends when the     *)
(* chip restarts or flash fails without the server's noticing.             *)
(***************************************************************************)
CONSTANTS
  Names,    \* names of files
  Absent,   \* no such file
  Uploads   \* the uploads of each name that are small enough

VARIABLES
  stored,      \* the upload kept under each name
  compressed,  \* the upload whose compressed form is kept for each name
  damaged      \* the promise has ended

vars == <<stored, compressed, damaged>>

Init ==
  /\ stored = [n \in Names |-> Absent]
  /\ compressed = [n \in Names |-> Absent]
  /\ damaged = FALSE

\* The name must be free; what had it before has left nothing.
Put(n) ==
  /\ stored[n] = Absent /\ compressed[n] = Absent
  /\ stored'[n] \in Uploads[n]
  /\ stored' = [stored EXCEPT ![n] = stored'[n]]
  /\ UNCHANGED compressed

Remove(n) ==
  /\ stored[n] # Absent /\ stored'[n] = Absent
  /\ stored' = [stored EXCEPT ![n] = Absent]
  /\ compressed' = [compressed EXCEPT ![n] = Absent]

\* A compression discards the result of an earlier one, then succeeds or fails.
Discard(n) ==
  /\ compressed[n] # Absent
  /\ compressed' = [compressed EXCEPT ![n] = Absent]
  /\ UNCHANGED stored

Compress(n) ==
  /\ stored[n] # Absent /\ compressed[n] = Absent
  /\ compressed' = [compressed EXCEPT ![n] = stored[n]]
  /\ UNCHANGED stored

Serve ==
  /\ ~damaged /\ UNCHANGED damaged
  /\ \E n \in Names : Put(n) \/ Remove(n) \/ Discard(n) \/ Compress(n)

\* Anything may happen to the files.
Damage == damaged' = TRUE

Next == Damage \/ Serve

Spec == Init /\ [][Next]_vars

=============================================================================
