----------------------------- MODULE SigningKey -----------------------------
(***************************************************************************)
(* The key that signs access tickets (EnsureAccessTicketSigningKey in         *)
(* internal/database/repository.go, called by main).  A process with a key in *)
(* its configuration uses that one.  Another draws a seed, offers it to the    *)
(* database, and uses what the database then holds: processes that start       *)
(* together, and those that start later, must all use one key, since a ticket  *)
(* signed by one is verified by agents with the key of another.               *)
(***************************************************************************)
CONSTANTS
    Processes,  \* of the server, on one database
    Seeds,      \* random keys
    Given,      \* the key in the configuration of each process, or None
    None

ASSUME KeyAssumption ==
    /\ None \notin Seeds
    /\ Given \in [Processes -> Seeds \cup {None}]

VARIABLES
    stored,  \* app_settings['access_ticket_signing_key'], or None
    drawn,   \* the seeds drawn so far
    pc,      \* where each process is
    seed,    \* the seed it has drawn, or None
    key,     \* the key it signs with, or None
    used     \* the keys processes without one of their own have signed with

vars == <<stored, drawn, pc, seed, key, used>>

Init ==
    /\ stored = None /\ drawn = {} /\ used = {}
    /\ pc = [p \in Processes |-> "down"]
    /\ seed = [p \in Processes |-> None]
    /\ key = [p \in Processes |-> None]

StartConfigured(p) ==
    /\ pc[p] = "down" /\ Given[p] # None
    /\ key' = [key EXCEPT ![p] = Given[p]]
    /\ pc' = [pc EXCEPT ![p] = "serving"]
    /\ UNCHANGED <<stored, drawn, seed, used>>

Start(p) ==
    /\ pc[p] = "down" /\ Given[p] = None
    /\ \E s \in Seeds \ drawn :
          /\ drawn' = drawn \cup {s}
          /\ seed' = [seed EXCEPT ![p] = s]
    /\ pc' = [pc EXCEPT ![p] = "insert"]
    /\ UNCHANGED <<stored, key, used>>

\* (mutant) ON CONFLICT (key) DO UPDATE
Overwritten(p) == seed[p]
\* INSERT ... ON CONFLICT (key) DO NOTHING
Offered(p) == IF stored = None THEN seed[p] ELSE stored
\* (mutant) the statement affects no row
InsertNothing(p) ==
    /\ pc[p] = "insert"
    /\ pc' = [pc EXCEPT ![p] = "load"]
    /\ UNCHANGED <<stored, drawn, seed, key, used>>
Insert(p) ==
    /\ pc[p] = "insert"
    /\ stored' = Offered(p)
    /\ pc' = [pc EXCEPT ![p] = "load"]
    /\ UNCHANGED <<drawn, seed, key, used>>

Loaded(p) == stored
Load(p) ==
    /\ pc[p] = "load" /\ stored # None
    /\ key' = [key EXCEPT ![p] = Loaded(p)]
    /\ used' = used \cup {Loaded(p)}
    /\ seed' = [seed EXCEPT ![p] = None]
    /\ pc' = [pc EXCEPT ![p] = "serving"]
    /\ UNCHANGED <<stored, drawn>>

\* A failing statement, a crash or a restart: the row stays as it is.
Stop(p) ==
    /\ pc[p] # "down"
    /\ pc' = [pc EXCEPT ![p] = "down"]
    /\ seed' = [seed EXCEPT ![p] = None]
    /\ key' = [key EXCEPT ![p] = None]
    /\ UNCHANGED <<stored, drawn, used>>

Next == \E p \in Processes : StartConfigured(p) \/ Start(p) \/ Insert(p) \/ Load(p) \/ Stop(p)

Spec == Init /\ [][Next]_vars

-----------------------------------------------------------------------------
(* Properties                                                               *)

\* Type invariant of the setting and the processes.
TypeOK ==
    /\ stored \in Seeds \cup {None} /\ drawn \subseteq Seeds
    /\ pc \in [Processes -> {"down", "insert", "load", "serving"}]
    /\ seed \in [Processes -> Seeds \cup {None}]
    /\ key \in [Processes -> Seeds \cup {None}]
    /\ used \subseteq Seeds
    /\ \A p \in Processes :
          /\ pc[p] \in {"insert", "load"} => seed[p] \in Seeds
          /\ pc[p] = "serving" => key[p] \in Seeds
          /\ pc[p] = "load" => stored # None

\* Processes that bring no key agree on one, for as long as the database lives:
\* a ticket signed before a restart, or by another process, verifies after it
\* (EnsureAccessTicketSigningKey).
OneKey ==
    /\ \A k, l \in used : k = l
    /\ \A p \in Processes : pc[p] = "serving" /\ Given[p] = None => key[p] \in used
=============================================================================
