---------------------------- MODULE SchemaHistory ----------------------------
(***************************************************************************)
(* What start-up promises whoever deploys releases one after the other:    *)
(* the schema grows by one whole migration at a time, in their order, and  *)
(* an instance serves only on the schema its release needs, with somebody  *)
(* able to log in.  Nothing is said of how instances look, race or fail.   *)
(*                                                                         *)
(* Startup is the detailed specification that implements it.               *)
(***************************************************************************)
EXTENDS Integers

CONSTANTS
    Instances, LastMigration, Files,
    BootstrapAdmin, Unset               \* as in Startup, all of them

VARIABLES
    schema,     \* the migrations the database has
    accounts,   \* the bootstrap usernames in admin_users
    at          \* at[i]: "down", "starting" or "serving"

vars == <<schema, accounts, at>>

Init ==
    /\ schema = {}
    /\ accounts = {}
    /\ at = [i \in Instances |-> "down"]

Start(i) ==
    /\ at[i] = "down"
    /\ at' = [at EXCEPT ![i] = "starting"]
    /\ UNCHANGED <<schema, accounts>>

(* The first migration of i's release that is not there yet, as a whole    *)
Upgrade(i) ==
    /\ at[i] = "starting"
    /\ \E k \in 1..Files[i] :
        /\ k \notin schema
        /\ 1..(k - 1) \subseteq schema
        /\ schema' = schema \cup {k}
    /\ UNCHANGED <<accounts, at>>

(* Somebody can log in, or the account i was given is new to admin_users.  *)
Welcome(i) ==
    \/ /\ BootstrapAdmin[i] = Unset \/ accounts # {}
       /\ UNCHANGED accounts
    \/ /\ BootstrapAdmin[i] \notin accounts \cup {Unset}
       /\ accounts' = accounts \cup {BootstrapAdmin[i]}

Serve(i) ==
    /\ at[i] = "starting"
    /\ 1..Files[i] \subseteq schema
    /\ Welcome(i)
    /\ at' = [at EXCEPT ![i] = "serving"]
    /\ UNCHANGED schema

Stop(i) ==
    /\ at[i] # "down"
    /\ at' = [at EXCEPT ![i] = "down"]
    /\ UNCHANGED <<schema, accounts>>

Next == \E i \in Instances : Start(i) \/ Upgrade(i) \/ Serve(i) \/ Stop(i)

Spec == Init /\ [][Next]_vars
=============================================================================
