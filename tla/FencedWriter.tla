---------------------------- MODULE FencedWriter ----------------------------
(***************************************************************************)
(* What write fencing promises, with no clock, no process and no lock:     *)
(* every scope has a current generation that only grows, and every write   *)
(* made for a worker scope is stamped with the generations that are        *)
(* current when it takes effect.  A process that was superseded has no     *)
(* step here: it cannot write at all.                                      *)
(***************************************************************************)
EXTENDS Integers

CONSTANTS
    WorkerScope,    \* the worker scopes: admin, collector, quota, ...
    Runtime         \* the scope of the runtime-wide ownership lease

VARIABLES
    generation,     \* the current generation of every scope
    stamp           \* the generations carried by the last write of a scope

fwVars == <<generation, stamp>>

Scope == WorkerScope \cup {Runtime}

(* The generations a write for scope s is stamped with. *)
Stamp(s) == [runtime |-> generation[Runtime], worker |-> generation[s]]

FWInit ==
    /\ generation = [s \in Scope |-> 0]
    /\ stamp = [s \in WorkerScope |-> [runtime |-> 0, worker |-> 0]]

(* Ownership of s passes to a new holder. *)
Supersede(s) ==
    /\ generation' = [generation EXCEPT ![s] = @ + 1]
    /\ UNCHANGED stamp

(* The current holder of s writes. *)
CurrentWrite(s) ==
    /\ generation[Runtime] > 0
    /\ generation[s] > 0
    /\ stamp' = [stamp EXCEPT ![s] = Stamp(s)]
    /\ UNCHANGED generation

FWNext ==
    \/ \E s \in Scope : Supersede(s)
    \/ \E s \in WorkerScope : CurrentWrite(s)

FWSpec == FWInit /\ [][FWNext]_fwVars
=============================================================================
