---------------------------- MODULE AbstractLog ----------------------------
(***************************************************************************)
(* What wal/include/wal_manager.hpp (IWALManager) promises its callers: a  *)
(* log of records numbered by increasing LSNs, a stable part that nothing  *)
(* can take back, and crashes that cut off a tail of what is not stable    *)
(* yet.  Vectors of records are represented by the set of their records:   *)
(* every record carries its LSN, and the order of the vector is LSN order. *)
(***************************************************************************)
EXTENDS Naturals

CONSTANT Record     \* the records the log can hold; each has an lsn field

VARIABLES log,      \* the records appended and not lost
          stable    \* those a crash cannot take away

vars == <<log, stable>>

(* S is an initial part of L: whatever precedes one of its records is in S *)
IsPrefix(S, L) ==
  /\ S \subseteq L
  /\ \A r \in S, q \in L : q.lsn < r.lsn => q \in S

Init ==
  /\ log = {}
  /\ stable = {}

(* append_log: the record gets an LSN greater than all those in the log    *)
AppendRecord ==
  \E r \in Record :
    /\ \A q \in log : q.lsn < r.lsn
    /\ log' = log \union {r}
    /\ UNCHANGED stable

(* flush, wait_for_durable: a longer initial part becomes stable           *)
Stabilize ==
  /\ IsPrefix(stable', log)
  /\ stable \subseteq stable'
  /\ UNCHANGED log

(* a crash and the restart after it: an unstable tail may be gone          *)
Lose ==
  /\ IsPrefix(log', log)
  /\ stable \subseteq log'
  /\ UNCHANGED stable

Next == AppendRecord \/ Stabilize \/ Lose

Spec == Init /\ [][Next]_vars
=============================================================================
