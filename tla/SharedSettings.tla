--------------------------- MODULE SharedSettings ---------------------------
(***************************************************************************)
(* Settings that the workflows of several tenants, or of several spaces of *)
(* one tenant, extend by reading them, adding an entry and writing all of  *)
(* it back: the buckets of a shared R2 token (add_buckets_to_token), the   *)
(* spaces in a mapper of a Keycloak client                                 *)
(* (update_keycloak_client_mapper) and the names of a tenant's spaces in   *)
(* the vault (space_creation.py).  The first two read and write in one     *)
(* activity, so a repeated attempt reads again; the names are read by one  *)
(* activity and written by another one.                                    *)
(***************************************************************************)
EXTENDS Naturals

CONSTANTS
    Workflows,    \* each has one entry to add
    MaxAttempts   \* bound: attempts of the write of a workflow

Kinds == {"token", "mapper", "names"}

VARIABLES
    kind,      \* the setting looked at
    listed,    \* workflow -> how often its entry is in the setting
    at,        \* workflow -> "read", "write", "done"
    seen,      \* workflow -> the setting as it has read it
    attempts   \* workflow -> attempts made

vars == <<kind, listed, at, seen, attempts>>

Empty == [w \in Workflows |-> 0]

Init ==
    /\ kind \in Kinds
    /\ listed = Empty
    /\ at = [w \in Workflows |-> "read"]
    /\ seen = [w \in Workflows |-> Empty]
    /\ attempts = Empty

\* The token is looked up by its name and has its policy; the mapper is found by
\* its name; the names are fetched. A bucket that is in the policy is skipped.
Read(w) ==
    /\ at[w] = "read"
    /\ seen' = [seen EXCEPT ![w] = listed]
    /\ at' = [at EXCEPT ![w] =
                IF kind = "token" /\ listed[w] > 0 THEN "done" ELSE "write"]
    /\ UNCHANGED <<kind, listed, attempts>>

\* A set of buckets, a map from space to title, a list of names.
Extended(w) ==
    [seen[w] EXCEPT ![w] = IF kind = "names" THEN @ + 1 ELSE 1]

Write(w) ==
    /\ at[w] = "write"
    /\ listed' = Extended(w)
    /\ at' = [at EXCEPT ![w] = "done"]
    /\ UNCHANGED <<kind, seen, attempts>>

\* The call fails, or its answer is lost: the activity is repeated.
Repeat(w) ==
    /\ at[w] = "write" /\ attempts[w] < MaxAttempts
    /\ attempts' = [attempts EXCEPT ![w] = @ + 1]
    /\ listed' \in {listed, Extended(w)}
    /\ at' = [at EXCEPT ![w] = IF kind = "names" THEN "write" ELSE "read"]
    /\ UNCHANGED <<kind, seen>>

Next == \E w \in Workflows : Read(w) \/ Write(w) \/ Repeat(w)

Spec == Init /\ [][Next]_vars
-----------------------------------------------------------------------------
\* Extending the scope of the token never takes a bucket out of it, as the
\* documentation of add_buckets_to_token says.
NeverRemovesAccess ==
    [][kind = "token" => \A w \in Workflows : listed[w] <= listed'[w]]_vars
=============================================================================
