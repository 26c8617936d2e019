----------------------------- MODULE SyncedTables -----------------------------
(***************************************************************************)
(* The Lakebase reference.* tables that UC serves down, and who may read    *)
(* them: lakebase/scripts/synced_tables.py (create, resync, recreate), the  *)
(* re-grant it ends with, and the provisioning of the serving and the app   *)
(* service principals.  One operator runs one of these programs at a time;  *)
(* any of them may stop at any step, and is started again.                  *)
(***************************************************************************)
EXTENDS Integers, FiniteSets, Sequences

CONSTANTS
    TableOrder,      \* TABLES, in order
    Corpus,          \* prior_claims_corpus: the table that carries indexes
    TablesOf,        \* APP_TABLES and SERVING_TABLES
    MaxPrincipals    \* bound on the serving principals ever made

Tables == {TableOrder[n] : n \in DOMAIN TableOrder}
Consumers == {"app", "serving"}

ASSUME SyncedTablesAssumption ==
    /\ TableOrder \in Seq(Tables) /\ Corpus \in Tables
    /\ TablesOf \in [Consumers -> SUBSET Tables]
    /\ MaxPrincipals \in Nat \ {0}

VARIABLES
    synced,      \* the state of each synced table
    postgres,    \* the reference tables Postgres has
    indexed,     \* and those whose indexes are built
    grants,      \* SELECT on them, by consumer
    principal,   \* the account's serving principal
    endpoint,    \* the Lakebase role and the secrets the endpoint signs in with
    program,     \* the program at work
    report       \* what the last one printed

catalogVars == <<synced, postgres, indexed, grants>>
identityVars == <<principal, endpoint>>
tableVars == <<catalogVars, identityVars, program, report>>

NoProgram == [name |-> "none", at |-> "idle", left |-> {}, made |-> {}, known |-> {}]
NoReport == [kind |-> "none", of |-> {}]

Begin(name, at, left, made, known) ==
    /\ program = NoProgram
    /\ program' = [name |-> name, at |-> at, left |-> left, made |-> made, known |-> known]
    /\ report' = NoReport

Proceeds(at, left) ==
    /\ program' = [program EXCEPT !.at = at, !.left = left]
    /\ UNCHANGED report

Ends(kind, of) == program' = NoProgram /\ report' = [kind |-> kind, of |-> of]

\* An exception, or the program is stopped.
StopProgram ==
    /\ program # NoProgram
    /\ Ends("failed", {})
    /\ UNCHANGED <<catalogVars, identityVars>>

-----------------------------------------------------------------------------
(* create and recreate *)

\* The two ids are read from the environment only when the re-grant comes.
BeginCreate == \E known \in SUBSET Consumers :
    /\ Begin("create", "create", Tables, {}, known)
    /\ UNCHANGED <<catalogVars, identityVars>>

\* The first, in order, that this pass has not looked at.
NextTable == TableOrder[CHOOSE n \in DOMAIN TableOrder :
    TableOrder[n] \in program.left /\ \A m \in 1 .. n - 1 : TableOrder[m] \notin program.left]

\* One that exists is skipped, whatever state an earlier run left it in.
CreateTable ==
    /\ program.at = "create" /\ program.left # {}
    /\ LET t == NextTable
           made == IF synced[t] = "none" THEN program.made \cup {t} ELSE program.made
       IN  /\ synced' = [synced EXCEPT ![t] = IF @ = "none" THEN "syncing" ELSE @]
           /\ program' = [program EXCEPT !.left = @ \ {t}, !.made = made]
    /\ UNCHANGED <<postgres, indexed, grants, identityVars, report>>

CreatedAll ==
    /\ program.at = "create" /\ program.left = {}
    /\ IF program.made = {} /\ program.name = "create"
       THEN Ends("nothing", {})
       ELSE Proceeds("wait", program.made)
    /\ UNCHANGED <<catalogVars, identityVars>>

BeginRecreate == \E t \in Tables, known \in SUBSET Consumers :
    /\ Begin("recreate", "delete", {t}, {}, known)
    /\ UNCHANGED <<catalogVars, identityVars>>

\* The synced table goes; its Postgres table stays behind.
DeleteSynced ==
    /\ program.at = "delete"
    /\ synced' = [t \in Tables |-> IF t \in program.left THEN "none" ELSE synced[t]]
    /\ Proceeds("drop", program.left)
    /\ UNCHANGED <<postgres, indexed, grants, identityVars>>

\* With its indexes and every grant on it.
DropTable ==
    /\ program.at = "drop"
    /\ postgres' = postgres \ program.left
    /\ indexed' = indexed \ program.left
    /\ grants' = [c \in Consumers |-> grants[c] \ program.left]
    /\ Proceeds("create", program.left)
    /\ UNCHANGED <<synced, identityVars>>

\* Its Postgres table is there, and loaded.
Online(t) == synced[t] = "online"

\* Polled until each is online; a failed sync raises, and so does waiting too long.
WaitForOnline ==
    /\ program.at = "wait"
    /\ IF program.left = {}
       THEN Proceeds("index", program.made)
       ELSE \E t \in program.left :
              \/ Online(t) /\ Proceeds("wait", program.left \ {t})
              \/ synced[t] = "failed" /\ Ends("failed", {})
    /\ UNCHANGED <<catalogVars, identityVars>>

BuildIndexes ==
    /\ program.at = "index"
    /\ indexed' = indexed \cup (program.made \cap {Corpus} \cap postgres)
    /\ IF Corpus \in program.made \ postgres THEN Ends("failed", {}) ELSE Proceeds("regrant", {})
    /\ UNCHANGED <<synced, postgres, grants, identityVars>>

\* Faulty: those it was given.
GivenConsumers == program.known

\* Both ids, or nothing is granted.
ResolvedConsumers == IF program.known = Consumers THEN Consumers ELSE {}

\* Every table of every consumer, one statement after the other: made now or not.
BeginRegrant ==
    /\ program.at = "regrant"
    /\ IF ResolvedConsumers = {}
       THEN Ends("failed", {})
       ELSE Proceeds("granting", UNION {{c} \X TablesOf[c] : c \in ResolvedConsumers})
    /\ UNCHANGED <<catalogVars, identityVars>>

Regrant ==
    /\ program.at = "granting"
    /\ \/ /\ program.left = {}
          /\ Ends("readable", Consumers)
          /\ UNCHANGED grants
       \/ \E g \in program.left :
            IF g[2] \in postgres
            THEN /\ grants' = [grants EXCEPT ![g[1]] = @ \cup {g[2]}]
                 /\ Proceeds("granting", program.left \ {g})
            ELSE Ends("failed", {}) /\ UNCHANGED grants
    /\ UNCHANGED <<synced, postgres, indexed, identityVars>>

\* Managed sync: a Postgres table left behind is in the way of a new one.
InitialSync == \E t \in Tables :
    /\ synced[t] = "syncing"
    /\ \/ /\ t \notin postgres
          /\ synced' = [synced EXCEPT ![t] = "online"]
          /\ postgres' = postgres \cup {t}
       \/ /\ synced' = [synced EXCEPT ![t] = "failed"]
          /\ UNCHANGED postgres
    /\ UNCHANGED <<indexed, grants, identityVars, program, report>>

-----------------------------------------------------------------------------
(* resync *)

BeginResync == \E names \in SUBSET Tables \ {{}} :
    /\ Begin("resync", "update", names, {}, {})
    /\ UNCHANGED <<catalogVars, identityVars>>

\* An update of the existing table's pipeline, and for the corpus its indexes and a
\* vacuum; grants and owner stay.
ResyncTable ==
    /\ program.at = "update"
    /\ \/ program.left = {} /\ Ends("resynced", {}) /\ UNCHANGED indexed
       \/ \E t \in program.left :
            IF Online(t)
            THEN indexed' = indexed \cup ({t} \cap {Corpus}) /\ Proceeds("update", program.left \ {t})
            ELSE Ends("failed", {}) /\ UNCHANGED indexed
    /\ UNCHANGED <<synced, postgres, grants, identityVars>>

-----------------------------------------------------------------------------
(* setup_serving_sp.py, setup_app_sp.py *)

BeginSetup == \E c \in Consumers :
    /\ Begin("setup", IF c = "serving" THEN "principal" ELSE "grant", TablesOf[c], {}, {c})
    /\ UNCHANGED <<catalogVars, identityVars>>

EnsureServicePrincipal ==
    /\ program.at = "principal"
    /\ principal.exists \/ principal.id < MaxPrincipals
    /\ principal' = IF principal.exists THEN principal ELSE [id |-> principal.id + 1, exists |-> TRUE]
    /\ Proceeds("role", program.left)
    /\ UNCHANGED <<catalogVars, endpoint>>

\* The role of that name is this principal's.
RoleMatches == endpoint.role = principal.id

EnsureLakebaseRole ==
    /\ program.at = "role"
    /\ IF endpoint.role = 0
       THEN endpoint' = [endpoint EXCEPT !.role = principal.id] /\ Proceeds("grant", program.left)
       ELSE /\ IF RoleMatches THEN Proceeds("grant", program.left) ELSE Ends("failed", {})
            /\ UNCHANGED endpoint
    /\ UNCHANGED <<catalogVars, principal>>

\* A table that is not there yet is skipped, and the summary says so.
ApplyGrants ==
    /\ program.at = "grant"
    /\ LET c == CHOOSE x \in program.known : TRUE IN
       IF program.left # {}
       THEN \E t \in program.left :
              /\ grants' = IF t \in postgres THEN [grants EXCEPT ![c] = @ \cup {t}] ELSE grants
              /\ program' = [program EXCEPT !.left = @ \ {t},
                                            !.made = IF t \in postgres THEN @ ELSE @ \cup {t}]
              /\ UNCHANGED report
       ELSE /\ IF c = "serving" THEN Proceeds("secrets", {})
               ELSE Ends(IF program.made = {} THEN "readable" ELSE "skipped", {c})
            /\ UNCHANGED grants
    /\ UNCHANGED <<synced, postgres, indexed, identityVars>>

\* The ids are always written ...
PutIds ==
    /\ program.at = "secrets"
    /\ endpoint' = [endpoint EXCEPT !.clientId = principal.id, !.dbUser = principal.id]
    /\ Proceeds("secret", {})
    /\ UNCHANGED <<catalogVars, principal>>

\* ... the secret, which nothing can read back, only when there is none.
EnsureSecret ==
    /\ program.at = "secret"
    /\ endpoint' = [endpoint EXCEPT !.secretOf = IF @ = 0 THEN principal.id ELSE @]
    /\ Ends(IF program.made = {} THEN "readable" ELSE "skipped", program.known)
    /\ UNCHANGED <<catalogVars, principal>>

\* An account administrator deletes the principal; its role and secrets stay.
DeletePrincipal ==
    /\ principal.exists /\ program = NoProgram
    /\ principal' = [principal EXCEPT !.exists = FALSE]
    /\ UNCHANGED <<catalogVars, endpoint, program, report>>

-----------------------------------------------------------------------------

TablesInit ==
    /\ synced = [t \in Tables |-> "none"] /\ postgres = {} /\ indexed = {}
    /\ grants = [c \in Consumers |-> {}]
    /\ principal = [id |-> 0, exists |-> FALSE]
    /\ endpoint = [role |-> 0, clientId |-> 0, dbUser |-> 0, secretOf |-> 0]
    /\ program = NoProgram /\ report = NoReport

TablesNext ==
    \/ BeginCreate \/ CreateTable \/ CreatedAll
    \/ BeginRecreate \/ DeleteSynced \/ DropTable
    \/ WaitForOnline \/ BuildIndexes \/ BeginRegrant \/ Regrant
    \/ BeginResync \/ ResyncTable
    \/ BeginSetup \/ EnsureServicePrincipal \/ EnsureLakebaseRole \/ ApplyGrants
    \/ PutIds \/ EnsureSecret
    \/ InitialSync \/ StopProgram \/ DeletePrincipal

TablesSpec == TablesInit /\ [][TablesNext]_tableVars

-----------------------------------------------------------------------------

\* Types: indexes and grants are on tables there are, a synced table that is online has one,
\* and no index or grant is tried on a table whose first sync has not ended.
TablesTypeOK ==
    /\ synced \in [Tables -> {"none", "syncing", "online", "failed"}]
    /\ postgres \subseteq Tables
    /\ indexed \subseteq postgres \cap {Corpus}
    /\ grants \in [Consumers -> SUBSET postgres]
    /\ principal \in [id : 0 .. MaxPrincipals, exists : BOOLEAN]
    /\ endpoint \in [role : 0 .. MaxPrincipals, clientId : 0 .. MaxPrincipals,
                     dbUser : 0 .. MaxPrincipals, secretOf : 0 .. MaxPrincipals]
    /\ program.made \cup program.known \subseteq Tables \cup Consumers
    /\ \A t \in Tables : synced[t] = "online" => t \in postgres
    /\ program.at \in {"index", "regrant", "granting"} => program.made \subseteq postgres

\* An endpoint signs in as one principal, its id, its secret and its role; a principal
\* made again is refused its predecessor's role.
CredentialsAgree ==
    /\ principal.exists => principal.id = endpoint.clientId
    /\ endpoint.clientId = endpoint.dbUser /\ endpoint.dbUser = endpoint.role
    /\ endpoint.role = endpoint.secretOf

\* regrant, apply_grants, ensure_lakebase_role, ensure_secrets: a program that reports its
\* grants made, or none skipped, leaves every table its consumers read readable, whichever
\* earlier run failed between a table and its grants; and after a setup the endpoint can sign
\* in to read them. Until another program is started.
SuccessMeansReadable ==
    report.kind = "readable" =>
      /\ \A c \in report.of : TablesOf[c] \subseteq grants[c]
      /\ report.of = {"serving"} => CredentialsAgree
=============================================================================
