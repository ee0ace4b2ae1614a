---------------------------- MODULE RenameLedger ----------------------------
(***************************************************************************)
(* What the journaled rename engine promises, without how: a ledger of     *)
(* where every file of a batch is.  No file moves unless the ledger        *)
(* already says that it may be on its way, at most one file is on its way  *)
(* at any moment, and the ledger commits itself only to the place the file *)
(* really is at.  There is no process, no call, no crash and no journal    *)
(* format here; RenameRecovery is shown to implement this.                 *)
(*                                                                         *)
(* A file whose paths another program changed is foreign from then on, and *)
(* nothing is promised of it.                                              *)
(***************************************************************************)
CONSTANT Entries     \* the files of the batch

VARIABLES
    where,     \* where[i]: where the file is
    ledger     \* ledger[i]: where the ledger says it is

Places == {"source", "destination"}

TypeOK ==
    /\ where \in [Entries -> Places \cup {"foreign"}]
    /\ ledger \in [Entries -> Places \cup {"either", "foreign"}]

Init ==
    /\ where = [i \in Entries |-> "source"]
    /\ ledger = [i \in Entries |-> "source"]

\* The ledger announces that the file is about to move.
Announce(i) ==
    /\ ledger[i] = where[i]
    /\ \A j \in Entries : ledger[j] # "either"
    /\ where[i] # "foreign"
    /\ ledger' = [ledger EXCEPT ![i] = "either"]
    /\ UNCHANGED where

\* An announced file moves to its other place.
Move(i) ==
    /\ ledger[i] = "either"
    /\ where' = [where EXCEPT ![i] = IF @ = "source" THEN "destination" ELSE "source"]
    /\ UNCHANGED ledger

\* The ledger commits itself to where the file is.
Settle(i) ==
    /\ ledger[i] = "either"
    /\ ledger' = [ledger EXCEPT ![i] = where[i]]
    /\ UNCHANGED where

\* Another program changes paths of the batch.
Interfere(S) ==
    /\ where' = [i \in Entries |-> IF i \in S THEN "foreign" ELSE where[i]]
    /\ ledger' = [i \in Entries |-> IF i \in S THEN "foreign" ELSE ledger[i]]

Next ==
    \/ \E i \in Entries : Announce(i) \/ Move(i) \/ Settle(i)
    \/ \E S \in SUBSET Entries : Interfere(S)

Spec == Init /\ [][Next]_<<where, ledger>>
=============================================================================
